--------------------------- MODULE ProviderClient ---------------------------
(***************************************************************************)
(* OpenRouterClient.stream_chat (src/src/oveo/provider.py) and the caller  *)
(* that decodes what it hears (ResponseDecoder): one HTTP response is read *)
(* at a time, as server-sent events cut into pieces anywhere; a failed     *)
(* attempt is repeated only while nothing of it was heard; a refused       *)
(* answer makes the caller call again.                                     *)
(*                                                                         *)
(* A payload is taken apart: its error, its finish reason and each piece   *)
(* of its content are steps of their own; its id and its usage are the     *)
(* matter of UsageLedger.  Keep-alive comments change nothing, so they are *)
(* stuttering steps.                                                       *)
(***************************************************************************)
EXTENDS ResponseDecoder

CONSTANTS
    MaxTries,   \* provider_retry_attempts
    MaxText     \* bound: length of the texts whose cuts are compared

ASSUME ClientAssumption == MaxTries \in Nat \ {0} /\ MaxText \in Nat

VARIABLES
    http    \* the attempt of stream_chat: its number, where it is, what it heard

vars == <<decoding, http>>

NewCall == [pc |-> "connecting", try |-> 1, emitted |-> FALSE, finish |-> "none"]

Init == DecoderInit /\ http = NewCall

Connecting == outcome = "streaming" /\ http.pc = "connecting"
Reading == outcome = "streaming" /\ http.pc = "reading"
-----------------------------------------------------------------------------
(* Text that arrives in pieces.  A text is a sequence of characters; "r"   *)
(* and "n" are CR and LF, "H" and "L" the halves of a surrogate pair that  *)
(* JSON escaped as two characters, "P" the character they stand for.       *)

EndsWith(t, c) == t # <<>> /\ Last(t) = c

\* Where line breaks end: LF, or CR without LF behind it.
Breaks(t) == {i \in DOMAIN t : t[i] = "n" \/ (t[i] = "r" /\ (i = Len(t) \/ t[i + 1] # "n"))}

\* re.split at CRLF, CR and LF: the text between the breaks.
SplitLines(t) ==
    LET ends == SetToSortSeq(Breaks(t), <)
        before(k) == IF k = 1 THEN 0 ELSE ends[k - 1]
        crlf(i) == i > 1 /\ t[i] = "n" /\ t[i - 1] = "r"
        stop(k) == IF k > Len(ends) THEN Len(t)
                   ELSE IF crlf(ends[k]) THEN ends[k] - 2 ELSE ends[k] - 1
    IN  [k \in 1 .. Len(ends) + 1 |-> SubSeq(t, before(k) + 1, stop(k))]

\* Mutant: a CR at the end of a piece ends the line at once.
TakePieceSplitsCrlf(s, piece) ==
    LET all == SplitLines(s.tail \o piece)
    IN  [tail |-> Last(all), out |-> s.out \o Front(all)]

\* One turn of _sse_lines: a CR at the end of a piece may be half of a CRLF.
TakePiece(s, piece) ==
    LET text == s.tail \o piece
        held == IF EndsWith(text, "r") THEN <<"r">> ELSE <<>>
        all == SplitLines(SubSeq(text, 1, Len(text) - Len(held)))
    IN  [tail |-> Last(all) \o held, out |-> s.out \o Front(all)]

\* _sse_lines: a last line that was not ended is discarded.
SseLines(pieces) ==
    LET s == FoldLeft(TakePiece, [tail |-> <<>>, out |-> <<>>], pieces)
    IN  IF EndsWith(s.tail, "r") THEN Append(s.out, Front(s.tail)) ELSE s.out

Lone(t) ==
    \E i \in DOMAIN t : \/ t[i] = "H" /\ (i = Len(t) \/ t[i + 1] # "L")
                        \/ t[i] = "L" /\ (i = 1 \/ t[i - 1] # "H")

\* _joined_surrogates of a text with whole pairs only.
Joined(t) ==
    LET rest == SelectSeq(t, LAMBDA c : c # "L")
    IN  [i \in DOMAIN rest |-> IF rest[i] = "H" THEN "P" ELSE rest[i]]

\* One content of a payload: a first half at its end waits for the next one.
TakeContent(s, content) ==
    LET text == s.held \o content
        held == IF EndsWith(text, "H") THEN <<"H">> ELSE <<>>
        delta == SubSeq(text, 1, Len(text) - Len(held))
    IN  IF s.bad \/ Lone(delta) THEN [s EXCEPT !.bad = TRUE]
        ELSE [bad |-> FALSE, held |-> held, out |-> s.out \o Joined(delta)]

\* What on_delta hears of these contents, or "malformed".
Heard(contents) ==
    LET s == FoldLeft(TakeContent, [bad |-> FALSE, held |-> <<>>, out |-> <<>>], contents)
    IN  IF s.bad \/ s.held # <<>> THEN "malformed" ELSE s.out

-----------------------------------------------------------------------------
(* stream_chat: what becomes of a failed attempt.                          *)

\* Mutant: an attempt that was heard in part is repeated too.
RepeatsAnyway(retryable) == retryable /\ http.try < MaxTries

\* A failure is final if it is not transient, if text of the attempt was
\* already heard, or if no attempt is left.
Repeats(retryable) == retryable /\ ~http.emitted /\ http.try < MaxTries

Fails(retryable) ==
    /\ UNCHANGED <<decoder, pending, draft, document, attempt, lines>>
    /\ IF Repeats(retryable)
       THEN http' = [http EXCEPT !.pc = "waiting"] /\ UNCHANGED outcome
       ELSE http' = [http EXCEPT !.pc = "over"] /\ outcome' = "failed"

\* The delay before the next attempt is over.
Retry ==
    /\ outcome = "streaming" /\ http.pc = "waiting"
    /\ http' = [NewCall EXCEPT !.try = http.try + 1]
    /\ lines' = <<>>
    /\ UNCHANGED <<decoder, pending, draft, document, attempt, outcome>>

-----------------------------------------------------------------------------
(* _stream_once                                                            *)

Opened ==
    /\ Connecting
    /\ http' = [http EXCEPT !.pc = "reading"]
    /\ UNCHANGED decoding

\* _http_error: a status that is no success; some of them are transient.
Refused(transient) == Connecting /\ Fails(transient)

\* Before anything is sent: the base URL or the key cannot be used.
Misconfigured == Connecting /\ Fails(FALSE)

\* httpx.RequestError, before or during the response.
NetworkFails == (Connecting \/ Reading) /\ Fails(TRUE)

\* Mutant: only the read timeout of the connection, which comments restart.
NoDeadline == FALSE

\* asyncio.timeout around the whole attempt; it may be billed, so no retry.
Deadline == (Connecting \/ Reading) /\ Fails(FALSE)

\* A payload with an error object.
ErrorPayload(transient) == Reading /\ Fails(transient)

\* No JSON object, content of another type, or half a surrogate pair.
Malformed == Reading /\ Fails(FALSE)

FinishReason(reason) ==
    /\ Reading
    /\ http' = [http EXCEPT !.finish = reason]
    /\ UNCHANGED decoding

\* A piece of content: on_delta passes it to the decoder.
Content(ls, half) ==
    /\ Reading /\ Feed(ls, half)
    /\ http' = [http EXCEPT !.emitted = TRUE]

\* The call that follows a refused answer, if there is one.
CallAgain ==
    http' = IF attempt < MaxAttempts THEN NewCall ELSE [http EXCEPT !.pc = "over"]

\* The decoder's ProtocolError leaves stream_chat as it is.
ContentRefused(ls) == Reading /\ FeedRefused(ls) /\ CallAgain

\* After the loop: the answer was cut short or filtered, or the response ended
\* without [DONE].
EndedBadly(done) == Reading /\ (http.finish \in {"length", "content_filter"} \/ ~done)

Ends(done) ==
    /\ EndedBadly(done)
    /\ Fails(http.finish \notin {"length", "content_filter"})

\* The ProviderCompletion; the caller finishes its decoder.
Completes(rest) ==
    /\ Reading /\ ~EndedBadly(TRUE) /\ Finish(rest)
    /\ http' = [http EXCEPT !.pc = "over"]

CompletionRefused(rest) ==
    Reading /\ ~EndedBadly(TRUE) /\ FinishRefused(rest) /\ CallAgain

UpToTwo == {<<>>} \cup {<<l>> : l \in Lines} \cup (Lines \X Lines)

Next ==
    \/ Opened \/ Misconfigured \/ NetworkFails \/ Deadline \/ Malformed \/ Retry
    \/ \E transient \in BOOLEAN : Refused(transient) \/ ErrorPayload(transient)
    \/ \E reason \in {"stop", "length", "content_filter"} : FinishReason(reason)
    \/ \E done \in BOOLEAN : Ends(done)
    \/ \E ls \in UpToTwo, half \in BOOLEAN : Content(ls, half)
    \/ \E ls \in UpToTwo : ContentRefused(ls)
    \/ \E rest \in Rest : Completes(rest) \/ CompletionRefused(rest)

\* The timer of an attempt and the delay between two are the code's own;
\* nothing is assumed of the provider.
Spec == Init /\ [][Next]_vars /\ WF_vars(Deadline) /\ WF_vars(Retry)
-----------------------------------------------------------------------------

\* Every way to cut a text into pieces.
Cuts(t) ==
    LET ends(at) == SetToSortSeq(at \cup {Len(t)}, <)
        before(e, k) == IF k = 1 THEN 0 ELSE e[k - 1]
    IN  {[k \in DOMAIN ends(at) |-> SubSeq(t, before(ends(at), k) + 1, ends(at)[k])] :
           at \in SUBSET (1 .. Len(t) - 1)}

\* Where the network cuts the response makes no difference: the event lines are
\* those of the whole text (_sse_lines), and a character whose halves came in
\* two payloads is heard, a lone half refused (_joined_surrogates).
CutsDoNotMatter ==
    http.pc = "connecting" /\ attempt = 1 /\ http.try = 1 =>
      /\ \A t \in BoundedSeq({"r", "n", "x"}, MaxText) : \A pieces \in Cuts(t) :
           SseLines(pieces) = Front(SplitLines(t))
      /\ \A t \in BoundedSeq({"H", "L", "x"}, MaxText) : \A pieces \in Cuts(t) :
           Heard(pieces) = IF Lone(t) THEN "malformed" ELSE Joined(t)

\* A call ends, with an answer or a failure, whatever the provider does: also
\* when it keeps the connection alive with comments (asyncio.timeout).
AnswerEnds == <>(outcome # "streaming")
=============================================================================
