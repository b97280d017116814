--------------------------- MODULE ResponseDecoder ---------------------------
(***************************************************************************)
(* The typed response protocol: the model writes lines, they arrive in     *)
(* chunks that end anywhere, ProtocolDecoder checks them as they come, the *)
(* live draft shows what was decoded so far, and a violation throws the    *)
(* attempt away.  ProviderClient is where the chunks come from.            *)
(*                                                                         *)
(* A line is a record; "junk" is every line that is no event (malformed    *)
(* JSON, wrong fields, too long, blank).  The text of a delta is one       *)
(* character: "x", or "_" for white space.  A line whose end has not come  *)
(* is only known to have begun: which one it is is chosen when it ends.    *)
(***************************************************************************)
EXTENDS Naturals, Sequences, SequencesExt, FiniteSets, FiniteSetsExt

CONSTANTS
    MaxBlocks,     \* ProtocolDecoder.max_blocks
    MaxChars,      \* ProtocolDecoder.max_text_chars
    MaxAttempts    \* attempts of _respond (three)

ASSUME DecoderAssumption == {MaxBlocks, MaxChars, MaxAttempts} \subseteq Nat \ {0}

VARIABLES
    decoder,   \* the ProtocolDecoder of this attempt
    pending,   \* a line has begun and its end has not arrived
    draft,     \* the live draft that readers follow
    document,  \* what finish() returned, to be committed
    attempt,
    outcome,   \* "streaming", "accepted", or failed: "refused", "incomplete"
               \* (ProtocolError), "failed" (ProviderError)
    lines      \* history: the lines of the response that is being read

decoding == <<decoder, pending, draft, document, attempt, outcome, lines>>

Types == {"conversation", "deliverable", "advice"}
Ids == 1 .. MaxBlocks + 1
Start == [ev |-> "response_start"]
End == [ev |-> "response_end"]
Junk == [ev |-> "junk"]
Lines ==
    {Start, End, Junk}
      \cup [ev : {"block_start"}, id : Ids, type : Types]
      \cup [ev : {"block_delta"}, id : Ids, text : {"x", "_", ""}]
      \cup [ev : {"block_end"}, id : Ids]
      \cup [ev : {"state"}, op : {"none", "change", "bad"}]

NewDecoder ==
    [started |-> FALSE, open |-> 0, type |-> "none", parts |-> <<>>, blocks |-> <<>>,
     chars |-> 0, state |-> "missing", completed |-> FALSE, error |-> FALSE]

DecoderInit ==
    /\ decoder = NewDecoder /\ pending = FALSE /\ draft = <<>> /\ document = <<>>
    /\ attempt = 1 /\ outcome = "streaming" /\ lines = <<>>
-----------------------------------------------------------------------------
(* ProtocolDecoder                                                         *)

Blank(text) == \A i \in DOMAIN text : text[i] = "_"

\* validate_content_blocks: one conversation block, or deliverables and at
\* most one advice block, which is last.
ValidBlocks(blocks) ==
    LET n == Len(blocks) IN
    /\ blocks # <<>> /\ n <= MaxBlocks
    /\ \A i \in DOMAIN blocks : ~Blank(blocks[i].text)
    /\ \/ n = 1 /\ blocks[1].type = "conversation"
       \/ /\ blocks[1].type = "deliverable"
          /\ \A i \in DOMAIN blocks :
               blocks[i].type = "deliverable" \/ (blocks[i].type = "advice" /\ i = n)

RoomForBlock(d) == Len(d.blocks) < MaxBlocks

\* The line raises no ProtocolError.
Legal(d, l) ==
    /\ ~d.completed /\ ~d.error
    /\ d.state # "missing" => l.ev = "response_end"
    /\ d.started <=> l.ev # "response_start"
    /\ \/ l.ev = "response_start"
       \/ l.ev = "block_start" /\ d.open = 0 /\ RoomForBlock(d)
            /\ l.id = Len(d.blocks) + 1
       \/ l.ev = "block_delta" /\ d.open # 0 /\ l.id = d.open /\ l.text # ""
            /\ d.chars < MaxChars
       \/ l.ev = "block_end" /\ d.open # 0 /\ l.id = d.open /\ ~Blank(d.parts)
       \/ l.ev = "state" /\ d.open = 0 /\ ValidBlocks(d.blocks) /\ l.op # "bad"
            /\ (d.blocks[1].type = "conversation" => l.op = "none")
       \/ l.ev = "response_end" /\ d.open = 0 /\ d.state # "missing"

\* _consume_line.
Consumed(d, l) ==
    CASE l.ev = "response_start" -> [d EXCEPT !.started = TRUE]
      [] l.ev = "block_start" -> [d EXCEPT !.open = l.id, !.type = l.type]
      [] l.ev = "block_delta" -> [d EXCEPT !.parts = Append(@, l.text), !.chars = @ + 1]
      [] l.ev = "block_end" ->
           [d EXCEPT !.blocks = Append(@, [type |-> d.type, text |-> d.parts]),
                     !.open = 0, !.type = "none", !.parts = <<>>]
      [] l.ev = "state" -> [d EXCEPT !.state = l.op]
      [] l.ev = "response_end" -> [d EXCEPT !.completed = TRUE]

Consume(d, l) == IF Legal(d, l) THEN Consumed(d, l) ELSE [d EXCEPT !.error = TRUE]

\* _drain_complete_lines, which a refused line ends.
Drained(d, ls) == FoldLeft(Consume, d, ls)

-----------------------------------------------------------------------------
(* _live_emitter and _apply_live_events: the events of one chunk.          *)

Applied(blocks, l) ==
    CASE l.ev = "block_start" -> Append(blocks, [type |-> l.type, text |-> <<>>])
      [] l.ev = "block_delta" -> [blocks EXCEPT ![Len(blocks)].text = Append(@, l.text)]
      [] OTHER -> blocks

\* Mutant: the draft of the failed attempt stays.
FreshDraftKept == draft

\* _reset_draft_for_retry.
FreshDraft == <<>>

\* A ProtocolError: another attempt with a new decoder, or the last one fails.
\* The history then keeps what was sent.
Rejected(how, sent) ==
    /\ decoder' = NewDecoder /\ pending' = FALSE
    /\ IF attempt < MaxAttempts
       THEN /\ attempt' = attempt + 1 /\ draft' = FreshDraft /\ lines' = <<>>
            /\ UNCHANGED <<document, outcome>>
       ELSE /\ outcome' = how /\ lines' = lines \o sent
            /\ UNCHANGED <<draft, document, attempt>>

\* A chunk: lines that end in it, the first maybe begun before, and maybe the
\* beginning of another.
Feed(ls, half) ==
    LET d == Drained(decoder, ls) IN
    /\ ls # <<>> \/ half
    /\ ~decoder.completed /\ ~d.error
    /\ decoder' = d
    /\ draft' = FoldLeft(Applied, draft, ls)
    /\ pending' = half
    /\ lines' = lines \o ls
    /\ UNCHANGED <<document, attempt, outcome>>

\* The last of these lines is refused; the events of the whole chunk are lost,
\* and what else the chunk holds is not looked at.
FeedRefused(ls) ==
    /\ ls # <<>>
    /\ ~Drained(decoder, Front(ls)).error /\ Drained(decoder, ls).error
    /\ Rejected("refused", ls)

Finished(d) == ~d.error /\ d.completed /\ d.state # "missing" /\ ValidBlocks(d.blocks)

\* What finish() still has to consume: a last line may lack its newline.
Rest == IF pending THEN {<<l>> : l \in Lines} ELSE {<<>>}

\* finish(): the event of a last line reaches no reader.
Finish(rest) ==
    LET last == Drained(decoder, rest) IN
    /\ Finished(last)
    /\ outcome' = "accepted" /\ decoder' = last /\ pending' = FALSE
    /\ document' = last.blocks
    /\ lines' = lines \o rest
    /\ UNCHANGED <<draft, attempt>>

FinishRefused(rest) ==
    /\ ~Finished(Drained(decoder, rest))
    /\ Rejected("incomplete", rest)

-----------------------------------------------------------------------------
(* The protocol, stated on whole answers.                                  *)

\* Where blocks begin, and where the one that begins at i ends.
Starts(ls) == {i \in DOMAIN ls : ls[i].ev = "block_start"}
EndOf(ls, i) == Min({j \in Starts(ls) : j > i} \cup {Len(ls) - 1}) - 1

IsBlock(ls, i) ==
    LET k == Cardinality({j \in Starts(ls) : j <= i}) IN
    /\ ls[i].id = k /\ k <= MaxBlocks
    /\ ls[EndOf(ls, i)] = [ev |-> "block_end", id |-> k]
    /\ \A j \in i + 1 .. EndOf(ls, i) - 1 :
         ls[j].ev = "block_delta" /\ ls[j].id = k /\ ls[j].text # ""
    /\ \E j \in i + 1 .. EndOf(ls, i) - 1 : ls[j].text = "x"

Grammatical(ls) ==
    LET n == Len(ls) IN
    /\ n >= 6
    /\ ls[1] = Start /\ ls[n] = End
    /\ ls[n - 1].ev = "state" /\ ls[n - 1].op \in {"none", "change"}
    /\ 2 \in Starts(ls) /\ \A i \in Starts(ls) : IsBlock(ls, i)
    /\ Cardinality({i \in DOMAIN ls : ls[i].ev = "block_delta"}) <= MaxChars
    /\ \/ Starts(ls) = {2} /\ ls[2].type = "conversation" /\ ls[n - 1].op = "none"
       \/ \A i \in Starts(ls) :
            \/ ls[i].type = "deliverable"
            \/ ls[i].type = "advice" /\ i # 2 /\ i = Max(Starts(ls))

\* What would complete an answer that was begun well.
Completions ==
    LET state == [ev |-> "state", op |-> "none"]
        delta(k) == [ev |-> "block_delta", id |-> k, text |-> "x"]
        end(k) == [ev |-> "block_end", id |-> k]
        first == [ev |-> "block_start", id |-> 1, type |-> "deliverable"] IN
    {<<>>, <<End>>, <<state, End>>, <<first, delta(1), end(1), state, End>>}
      \cup UNION {{<<end(k), state, End>>, <<delta(k), end(k), state, End>>} : k \in Ids}

\* The decoder accepts exactly the answers the protocol allows, however they
\* are cut into chunks, and refuses none that could still become one.
AcceptsTheProtocol ==
    /\ outcome = "accepted" => Grammatical(lines)
    /\ outcome = "incomplete" => ~Grammatical(lines)
    /\ outcome = "refused" => \A rest \in Completions : ~Grammatical(lines \o rest)

\* Readers saw exactly what is stored: the draft is always the lines decoded in
\* this attempt, and in the end the committed document.
DraftIsDocument ==
    /\ outcome = "streaming" =>
         draft = decoder.blocks \o (IF decoder.open = 0 THEN <<>>
                                    ELSE <<[type |-> decoder.type, text |-> decoder.parts]>>)
    /\ outcome = "accepted" => draft = document
=============================================================================
