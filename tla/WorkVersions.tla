---------------------------- MODULE WorkVersions ----------------------------
(***************************************************************************)
(* The canonical work of a conversation: work items and their versions, as *)
(* _commit_success and _apply_state_operation write them from the state    *)
(* event of an answer (src/src/oveo/generation.py).                        *)
(*                                                                         *)
(* The model is free to answer anything the decoder lets through.  A text  *)
(* is a sequence of characters, Break standing for a blank line.  Briefs   *)
(* and source texts are left out, so what refuses a source (its anchors,   *)
(* its length) is a choice, and so is a template that cannot be read.  An  *)
(* answer is prepared and committed in one step: nothing else writes to    *)
(* the conversation meanwhile (see Generation).                            *)
(***************************************************************************)
EXTENDS TextEdits, WordBlocks

CONSTANTS
    Break,          \* a blank line between paragraphs
    Deliverables,   \* what answers show as complete works
    Additions,      \* what answers add
    Anchors,        \* what edits look for
    Documents,      \* source Word documents a turn may bring
    BlockCount,     \* their numbers of blocks
    Blocks,         \* texts of one block
    None,           \* no document
    MaxTurns,       \* bound: user turns
    MaxOutput,      \* bound: length of a work
    MaxAttempts     \* attempts of a run (3 in the code)

ASSUME WorkAssumption ==
    /\ None \notin Documents /\ BlockCount \in [Documents -> Nat \ {0}]
    /\ {MaxTurns, MaxOutput, MaxAttempts} \subseteq Nat \ {0}
    /\ <<>> \notin Deliverables \cup Additions \cup Anchors \cup Blocks

VARIABLES
    turns,      \* user turns: the source document of each, or None
    answered,   \* the latest turn has an answer
    works,      \* work items: active or not, with their versions
    attempt     \* of the run in progress, 0 without one

vars == <<turns, answered, works, attempt>>

Init == turns = <<>> /\ answered = TRUE /\ works = <<>> /\ attempt = 0
-----------------------------------------------------------------------------
(* What is there.                                                          *)

NoText == <<>>
NoVersion == [no |-> 0, parent |-> 0, operation |-> "none", shown |-> NoText, output |-> NoText,
              template |-> None, blocks |-> <<>>]

\* The newest version of the active item.
Current ==
    LET active == {i \in DOMAIN works : works[i].active} IN
    IF active = {} THEN NoVersion ELSE Last(works[Max(active)].versions)

\* The source document of the turn itself, and the latest of the conversation.
OwnSource == Last(turns)
LatestSource ==
    LET with == {i \in DOMAIN turns : turns[i] # None} IN
    IF with = {} THEN None ELSE turns[Max(with)]

\* plain_text_from_replacements: paragraphs joined by blank lines.
BlocksText(bs) ==
    IF bs = <<>> THEN NoText ELSE FoldLeft(LAMBDA text, b : text \o <<Break>> \o b, Head(bs), Tail(bs))

\* validate_replacements: every block of the template, in order.
ValidBlocks(document, bs) == Len(bs) = BlockCount[document]

Joiner(separator) == IF separator = "none" THEN <<>> ELSE <<Break>>

\* _append_text.
Join(base, addition, separator) == base \o Joiner(separator) \o addition
-----------------------------------------------------------------------------
(* Answers: the deliverable and the fields of the state event.             *)

BlockLists == {<<>>} \cup UNION {[1 .. n -> Blocks] : n \in {BlockCount[d] : d \in Documents}}
Edits ==
    LET one == [anchor : Anchors, text : {NoText} \cup Additions] IN
    {<<e>> : e \in one} \cup {<<e[1], e[2]>> : e \in {p \in one \X one : p[1].anchor # p[2].anchor}}

Answer(operation, visible) ==
    [operation |-> operation, visible |-> visible, base |-> Current.no, source |-> "omitted",
     blocks |-> <<>>, addition |-> NoText, separator |-> "none", edits |-> <<>>]

\* Not exactly one deliverable is as good as none.
Shown == Deliverables \cup {NoText}

Establishes ==
    {[Answer("establish", v) EXCEPT !.source = s, !.blocks = b] :
        v \in Shown, s \in {"omitted", "exact", "other"}, b \in BlockLists}

Appends ==
    {[Answer("append", v) EXCEPT !.addition = x, !.separator = s] :
        v \in Deliverables \cup Additions, x \in {NoText} \cup Additions, s \in {"none", "paragraph"}}

\* A replace shows the outcome of its edits, or something else.
Replaces ==
    UNION {{[Answer("replace", v) EXCEPT !.edits = e, !.blocks = b] :
                v \in Deliverables \cup ({Spliced(Current.output, e)} \ {NoText}), b \in BlockLists} :
           e \in {f \in Edits : ~Refused(Current.output, f)}}
    \cup {[Answer("replace", v) EXCEPT !.edits = e] :
              v \in Deliverables, e \in {f \in Edits : Refused(Current.output, f)}}

Fulls == {[Answer("full", v) EXCEPT !.blocks = b] : v \in Shown, b \in BlockLists}

\* A base other than the current version, or none to build on.
Stale ==
    {[Answer(operation, v) EXCEPT !.base = n] :
        operation \in {"append", "replace", "full"}, v \in Deliverables,
        n \in {Current.no + 1, Current.no - 1} \cap Nat}

Answers == Establishes \cup Appends \cup Replaces \cup Fulls \cup Stale
-----------------------------------------------------------------------------
(* _apply_state_operation.                                                 *)

\* _template_attachment: what the blocks of an answer are checked against.
Template(d) ==
    IF d.operation # "establish" THEN Current.template
    ELSE IF OwnSource # None THEN OwnSource
    ELSE IF d.blocks # <<>> THEN LatestSource ELSE None

Addition(d) == IF d.addition # NoText THEN d.addition ELSE d.visible

Output(d) ==
    CASE d.operation = "append" -> Join(Current.output, Addition(d), d.separator)
      [] d.operation = "replace" -> Spliced(Current.output, d.edits)
      [] OTHER -> d.visible

\* state_base_missing, state_base_mismatch.
BaseRefused(d) ==
    d.operation # "establish" /\ (Current = NoVersion \/ d.base # Current.no)

\* Word work needs blocks and cannot be appended to, text work has none, and
\* a new document of the turn is only for an establish.
WordRefused(d) ==
    \/ Template(d) # None /\ (d.operation = "append" \/ d.blocks = <<>>)
    \/ Template(d) = None /\ d.blocks # <<>>
    \/ d.operation # "establish" /\ OwnSource # None

SourceRefused(d) ==
    /\ d.operation = "establish"
    /\ IF Template(d) # None THEN d.source = "other" ELSE d.source = "omitted"

\* Mutant: any deliverable will do for a replace.
TextRefusedUnshown(d) ==
    \/ /\ d.operation = "append"
       /\ \/ d.addition = NoText /\ IsPrefix(Join(Current.output, <<>>, d.separator), d.visible)
          \/ d.visible \notin {Addition(d), Output(d)}
    \/ d.operation = "replace" /\ Refused(Current.output, d.edits)

\* The deliverable is not what the state makes of the work.
TextRefused(d) ==
    \/ /\ d.operation = "append"
       /\ \/ d.addition = NoText /\ IsPrefix(Join(Current.output, <<>>, d.separator), d.visible)
          \/ d.visible \notin {Addition(d), Output(d)}
    \/ /\ d.operation = "replace"
       /\ Refused(Current.output, d.edits) \/ d.visible # Output(d)

\* Mutant: the blocks are only checked for their number.
BlocksRefusedByNumber(d) == Template(d) # None /\ ~ValidBlocks(Template(d), d.blocks)

\* The blocks do not fit the template, or say something else than the output.
BlocksRefused(d) ==
    Template(d) # None /\ (~ValidBlocks(Template(d), d.blocks) \/ Output(d) # BlocksText(d.blocks))

\* Errors the model may repair; the base is looked at before most of them.
Repairable(d) ==
    \/ d.visible = NoText
    \/ /\ ~BaseRefused(d)
       /\ WordRefused(d) \/ SourceRefused(d) \/ TextRefused(d) \/ BlocksRefused(d) \/ Output(d) = NoText

NewVersion(d) ==
    [no |-> IF d.operation = "establish" THEN 1 ELSE Current.no + 1,
     parent |-> IF d.operation = "establish" THEN 0 ELSE Current.no,
     operation |-> d.operation, shown |-> d.visible, output |-> Output(d),
     template |-> Template(d), blocks |-> d.blocks]

\* A new item takes the place of the active one.
Established(d) ==
    Append([i \in DOMAIN works |-> [works[i] EXCEPT !.active = FALSE]],
           [active |-> TRUE, versions |-> <<NewVersion(d)>>])

\* The active item gets a version.
Versioned(d) ==
    [i \in DOMAIN works |->
        IF works[i].active THEN [works[i] EXCEPT !.versions = Append(@, NewVersion(d))] ELSE works[i]]
-----------------------------------------------------------------------------
(* Runs.                                                                   *)

Submit(document) ==
    /\ attempt = 0 /\ Len(turns) < MaxTurns
    /\ turns' = Append(turns, document) /\ answered' = FALSE /\ attempt' = 1
    /\ UNCHANGED works

\* Only the latest turn, while it has no answer.
Retry ==
    /\ attempt = 0 /\ ~answered /\ attempt' = 1
    /\ UNCHANGED <<turns, answered, works>>

\* An answer that changes no work.
AnswerOnly ==
    /\ attempt > 0 /\ attempt' = 0 /\ answered' = TRUE
    /\ UNCHANGED <<turns, works>>

Commit(d) ==
    /\ Len(Output(d)) <= MaxOutput
    /\ works' = IF d.operation = "establish" THEN Established(d) ELSE Versioned(d)
    /\ answered' = TRUE /\ attempt' = 0

\* The attempt is rolled back and the model asked again, at most twice.
Repair ==
    /\ attempt' = IF attempt < MaxAttempts THEN attempt + 1 ELSE 0
    /\ UNCHANGED <<answered, works>>

\* A stale base ends the run.
Refuse == attempt' = 0 /\ UNCHANGED <<answered, works>>

\* _commit_success: the first error decides what becomes of the answer.
Respond(d) ==
    /\ attempt > 0
    /\ IF Repairable(d) THEN Repair ELSE IF BaseRefused(d) THEN Refuse ELSE Commit(d)
    /\ UNCHANGED turns

\* An anchor of the source is wrong, which is for the model to repair.
SourceAnchorWrong ==
    /\ attempt > 0 /\ Repair
    /\ UNCHANGED turns

\* The source is too long, the template cannot be read, the write fails, the
\* provider fails, Stop, or the process ends.
RunFails ==
    /\ attempt > 0 /\ attempt' = 0
    /\ UNCHANGED <<turns, answered, works>>

Next ==
    \/ \E document \in Documents \cup {None} : Submit(document)
    \/ Retry \/ AnswerOnly \/ SourceAnchorWrong \/ RunFails
    \/ attempt > 0 /\ \E d \in Answers : Respond(d)

Spec == Init /\ [][Next]_vars
-----------------------------------------------------------------------------
Versions == UNION {{<<i, k>> : k \in DOMAIN works[i].versions} : i \in DOMAIN works}
Version(v) == works[v[1]].versions[v[2]]

\* What the user saw is what is saved: the work of a version is its
\* deliverable or, after an append, the work before with the deliverable
\* behind it (_apply_state_operation).
SavedIsShown ==
    \A v \in Versions :
        LET version == Version(v)
            before == Version(<<v[1], v[2] - 1>>) IN
        IF version.operation # "append" THEN version.output = version.shown
        ELSE /\ IsStrictPrefix(before.output, version.output)
             /\ version.shown = version.output \/ IsSuffix(version.shown, version.output)

\* The download of a Word work is the saved work: its blocks fit the template
\* and say what the version says (download_document renders just these), and
\* the template is the document the work came from, whatever is uploaded later
\* ("it cannot silently replace the template of an existing work item").
ExportIsTheWork ==
    \A v \in Versions :
        LET version == Version(v) IN
        /\ version.template = Version(<<v[1], 1>>).template
        /\ version.template # None =>
             /\ ValidBlocks(version.template, version.blocks)
             /\ BlocksText(version.blocks) = version.output
-----------------------------------------------------------------------------
(* The operators of TextEdits and WordBlocks, for all inputs within bounds, *)
(* evaluated where a conversation begins.                                  *)

CONSTANTS MaxText, MaxPiece  \* bounds: lengths of a text, of an anchor or a replacement

Characters == UNION {Range(t) : t \in Deliverables}
Texts(n) == UNION {[1 .. k -> Characters] : k \in 0 .. n}
AnyEdits ==
    LET one == [anchor : Texts(MaxPiece) \ {<<>>}, text : Texts(MaxPiece)] IN
    {<<e>> : e \in one} \cup {<<e[1], e[2]>> : e \in {p \in one \X one : p[1].anchor # p[2].anchor}}

\* A replace is refused exactly when an anchor is missing, ambiguous (its
\* occurrences may overlap each other) or shares a character with another.
\* Otherwise the replacements are simultaneous: what one inserts is never
\* matched, moved or cut by another (_apply_base_replacements).
ReplacesAsMeant ==
    turns = <<>> => \A text \in Texts(MaxText), edits \in AnyEdits :
        IF Applicable(text, edits)
        THEN ~Refused(text, edits) /\ Spliced(text, edits) = Meant(text, edits)
        ELSE Refused(text, edits)

\* Writing a replacement into an editable paragraph gives a paragraph that says
\* exactly that, with every hyperlink, field code and break kept in its place,
\* whatever runs they share and wherever text has to be inserted
\* (_patch_paragraph).  A text node without text can still draw the text of its
\* stretch to the other side of a break, so breaks are compared without those.
PatchSaysTheReplacement ==
    turns = <<>> => \A p \in {p \in Paragraphs : Editable(p)} :
      \A r \in {r \in Replacements(Layout(p)) : Acceptable(Layout(p), r)} :
        LET q == Patched(p, r) IN
        /\ ReadsBack(q, r) /\ Kept(q) = Kept(p) /\ WellFormed(q)
        /\ (\A i \in DOMAIN p : p[i].kind = "text" => i \in WithText(p)) => BreaksStay(p, q)
=============================================================================
