-------------------------- MODULE ContextCompaction --------------------------
(***************************************************************************)
(* What the model is shown of a long conversation: _respond composes the   *)
(* request; when it exceeds the budget, _compact_chat_context replaces the *)
(* older turns by a stored summary, and _compact_handoff_context condenses *)
(* the user's own turns in rounds (src/src/oveo/generation.py).            *)
(*                                                                         *)
(* A message is a role and a size in tokens; its ordinal is its position.  *)
(* Texts are left out: a summary or an extract is its size and the set of  *)
(* ordinals it was made from.  Sizes add up, with a fixed part for prompts,*)
(* canonical work and the pinned reference.                                *)
(***************************************************************************)
EXTENDS Integers, Sequences, SequencesExt, FiniteSets, FiniteSetsExt

CONSTANTS
    Sizes,        \* sizes of messages
    NoteSizes,    \* sizes of summaries and extracts
    Budget,       \* settings.context_compaction_tokens
    FixedChat,    \* the fixed part of a chat request
    FixedSummary, \* of a summary request
    FixedHandoff, \* of a handoff or merge request
    Recent,       \* settings.context_recent_messages
    MinRecent,    \* _MIN_RECENT_MESSAGES (4 in the code)
    MaxMessages   \* bound: length of the conversation

\* An extract fits a merge request by itself: it has at most 16,384 tokens and
\* the budget is 240,000 unless it is set (the least setting is 1,000).
ASSUME CompactionAssumption ==
    /\ Sizes \cup NoteSizes \subseteq Nat \ {0}
    /\ {Budget, FixedChat, FixedSummary, FixedHandoff, MaxMessages} \subseteq Nat
    /\ MinRecent \in Nat \ {0} /\ Recent \in Nat /\ Recent >= MinRecent
    /\ \A n \in NoteSizes : FixedHandoff + n <= Budget

VARIABLES
    messages,   \* the transcript: [role, size]
    summary,    \* context_summary and summary_through_ordinal of the thread
    status,     \* of the generation in progress, "none" without one
    run         \* its task: pc and local variables

vars == <<messages, summary, status, run>>

NoSummary == [through |-> 0, covers |-> {}, size |-> 0]
NoRun == [pc |-> "none", kind |-> "none", cutoff |-> 0, note |-> NoSummary,
          todo |-> <<>>, extracts |-> <<>>, from |-> 1, sent |-> {}, size |-> 0]

Init == messages = <<>> /\ summary = NoSummary /\ status = "none" /\ run = NoRun
-----------------------------------------------------------------------------
(* Requests to the provider.                                               *)

\* _snapshot_fits.
Fits(size) == size <= Budget

Ordinals == DOMAIN messages

\* The sizes of some messages, or extracts, together.
TotalSize(ms, S) == MapThenSumSet(LAMBDA i : ms[i].size, S)
Size(S) == TotalSize(messages, S)

\* _request_snapshot never goes back before the summary.
After(after) == {i \in Ordinals : i > Max({after, summary.through})}

ChatSize(after) == FixedChat + summary.size + Size(After(after))
SummarySize(cutoff) ==
    FixedSummary + summary.size + Size({i \in After(0) : i <= cutoff})

\* Handoff requests hold user turns only, whatever has been summarised.
UserOrdinals == {i \in Ordinals : messages[i].role = "user"}
Place(i) == Cardinality({j \in 1 .. i : messages[j].role = "user"})   \* among the user's turns
UserTurns(from, end) == {i \in UserOrdinals : Place(i) \in from .. end}
HandoffSize(from, end) == FixedHandoff + Size(UserTurns(from, end))

\* Mutant: the upper half is searched without its last value.
LargestFittingShort(low, high, fitting) ==
    LET search[w \in (low .. high + 1) \X (low - 1 .. high)] ==
          LET middle == (w[1] + w[2]) \div 2
              better == search[<<middle + 1, w[2] - 1>>] IN
          IF w[1] > w[2] THEN 0
          ELSE IF middle \notin fitting THEN search[<<w[1], middle - 1>>]
          ELSE IF better = 0 THEN middle ELSE better
    IN  search[<<low, high>>]

\* The binary search of both compactions; 0 when nothing it tries fits.
LargestFitting(low, high, fitting) ==
    LET search[w \in (low .. high + 1) \X (low - 1 .. high)] ==
          LET middle == (w[1] + w[2]) \div 2
              better == search[<<middle + 1, w[2]>>] IN
          IF w[1] > w[2] THEN 0
          ELSE IF middle \notin fitting THEN search[<<w[1], middle - 1>>]
          ELSE IF better = 0 THEN middle ELSE better
    IN  search[<<low, high>>]
-----------------------------------------------------------------------------
(* The task.                                                               *)

Fail == status' = "none" /\ run' = NoRun

SubmitTurn(size) ==
    /\ status = "none" /\ Len(messages) < MaxMessages
    /\ messages' = Append(messages, [role |-> "user", size |-> size])
    /\ status' = "running" /\ run' = [NoRun EXCEPT !.pc = "compose", !.kind = "chat"]
    /\ UNCHANGED summary

\* A retry runs the latest turn again; it adds no message.
Retry ==
    /\ status = "none" /\ messages # <<>> /\ Last(messages).role = "user"
    /\ status' = "running" /\ run' = [NoRun EXCEPT !.pc = "compose", !.kind = "chat"]
    /\ UNCHANGED <<messages, summary>>

SubmitHandoff ==
    /\ status = "none" /\ messages # <<>>
    /\ status' = "running" /\ run' = [NoRun EXCEPT !.pc = "compose", !.kind = "handoff"]
    /\ UNCHANGED <<messages, summary>>

\* The request with the summary as stored, when it fits.
ChatRequest ==
    [run EXCEPT !.pc = "respond", !.sent = summary.covers \cup After(0), !.size = ChatSize(0)]

\* _maybe_compact_context, and _require_compactable_floor for a chat: what
\* always stays must fit, or no summary is asked for.
ComposeChat ==
    LET floor == Max({0, Len(messages) - MinRecent}) IN
    /\ run.pc = "compose" /\ run.kind = "chat"
    /\ \/ Fits(ChatSize(0)) /\ run' = ChatRequest /\ UNCHANGED status
       \/ ~Fits(ChatSize(0)) /\ Fits(ChatSize(floor))
            /\ run' = [run EXCEPT !.pc = "select"] /\ UNCHANGED status
       \/ ~Fits(ChatSize(0)) /\ ~Fits(ChatSize(floor)) /\ Fail
    /\ UNCHANGED <<messages, summary>>

\* How many of n unsummarised messages stay as they are.
Retained(n) == IF n > Recent THEN Recent ELSE MinRecent

\* One turn of the loop, up to the call: the longest stretch of candidates
\* that fits a summary request (_largest_bounded_summary_snapshot).
SelectCandidates ==
    LET n == Cardinality(After(0))
        last == Len(messages) - Retained(n)
        fitting == {c \in summary.through + 1 .. last : Fits(SummarySize(c))}
        cutoff == LargestFitting(summary.through + 1, last, fitting) IN
    /\ run.pc = "select"
    /\ IF n <= MinRecent \/ cutoff = 0 THEN Fail
       ELSE run' = [run EXCEPT !.pc = "summarise", !.cutoff = cutoff] /\ UNCHANGED status
    /\ UNCHANGED <<messages, summary>>

\* _generate_context_summary returned, at its first or second attempt.
Summarised(size) ==
    /\ run.pc = "summarise"
    /\ run' = [run EXCEPT !.pc = "check", !.note =
                 [through |-> run.cutoff, size |-> size,
                  covers |-> summary.covers \cup {i \in After(0) : i <= run.cutoff}]]
    /\ UNCHANGED <<messages, summary, status>>

\* The row is read before the summary is written: a Stop may come between.
CheckRunning ==
    /\ run.pc = "check"
    /\ IF status = "running" THEN run' = [run EXCEPT !.pc = "store"] /\ UNCHANGED status ELSE Fail
    /\ UNCHANGED <<messages, summary>>

\* Mutant: the ordinal is stored of what may stay, not of what was summarised.
StoredAll == [run.note EXCEPT !.through = Len(messages) - Retained(Cardinality(After(0)))]

\* The columns written together.
Stored == run.note

StoreSummary ==
    /\ run.pc = "store"
    /\ summary' = Stored
    /\ run' = [run EXCEPT !.pc = "recompose"]
    /\ UNCHANGED <<messages, status>>

\* The request is composed anew, and the loop goes on while it does not fit.
Recompose ==
    /\ run.pc = "recompose"
    /\ run' = IF Fits(ChatSize(0)) THEN ChatRequest ELSE [run EXCEPT !.pc = "select"]
    /\ UNCHANGED <<messages, summary, status>>

-----------------------------------------------------------------------------
(* Prompt handoff.                                                         *)

ComposeHandoff ==
    LET end == Cardinality(UserOrdinals) IN
    /\ run.pc = "compose" /\ run.kind = "handoff"
    /\ run' = IF Fits(HandoffSize(1, end))
              THEN [run EXCEPT !.pc = "respond", !.sent = UserTurns(1, end),
                               !.size = HandoffSize(1, end)]
              ELSE [run EXCEPT !.pc = "chunk"]
    /\ UNCHANGED <<messages, summary, status>>

\* The next chunk of user turns; a turn that does not fit alone ends the run.
Chunk ==
    LET end == Cardinality(UserOrdinals)
        fitting == {k \in run.from .. end : Fits(HandoffSize(run.from, k))}
        best == LargestFitting(run.from, end, fitting) IN
    /\ run.pc = "chunk"
    /\ IF run.from > end THEN run' = [run EXCEPT !.pc = "extract"] /\ UNCHANGED status
       ELSE IF best = 0 THEN Fail
       ELSE /\ run' = [run EXCEPT !.from = best + 1, !.todo =
                         Append(@, [covers |-> UserTurns(run.from, best),
                                    size |-> HandoffSize(run.from, best)])]
            /\ UNCHANGED status
    /\ UNCHANGED <<messages, summary>>

\* _generate_handoff_extract.
Extract(size) ==
    /\ run.pc = "extract" /\ run.todo # <<>>
    /\ run' = [run EXCEPT !.todo = Tail(@),
                          !.extracts = Append(@, [covers |-> Head(run.todo).covers, size |-> size])]
    /\ UNCHANGED <<messages, summary, status>>

\* A merge request for some extracts.
Merged(es) ==
    [covers |-> UNION {es[i].covers : i \in DOMAIN es},
     size |-> FixedHandoff + TotalSize(es, DOMAIN es)]

\* Mutant: the extract that did not fit is left out.
GroupDropping(acc, e) ==
    IF Fits(Merged(Append(acc.current, e)).size) THEN [acc EXCEPT !.current = Append(@, e)]
    ELSE [groups |-> Append(acc.groups, acc.current), current |-> <<>>]

\* _bounded_handoff_groups, one extract: it joins the current group or, when
\* that would be too large, begins the next one.
Group(acc, e) ==
    IF Fits(Merged(Append(acc.current, e)).size) THEN [acc EXCEPT !.current = Append(@, e)]
    ELSE [groups |-> Append(acc.groups, acc.current), current |-> <<e>>]

Groups(es) ==
    LET acc == FoldLeft(Group, [groups |-> <<>>, current |-> <<>>], es) IN
    IF acc.current = <<>> THEN acc.groups ELSE Append(acc.groups, acc.current)

\* Mutant: as many groups as extracts are taken for progress.
NoFewerUnlessMore(groups, es) == Len(groups) > Len(es)

\* Another round would not bring the extracts together.
NoFewer(groups, es) == Len(groups) >= Len(es)

\* All extracts in one request, or another round over groups of them.
Merge ==
    LET es == run.extracts
        groups == Groups(es) IN
    /\ run.pc = "extract" /\ run.todo = <<>>
    /\ IF Fits(Merged(es).size)
       THEN /\ run' = [run EXCEPT !.pc = "respond", !.sent = Merged(es).covers,
                                  !.size = Merged(es).size]
            /\ UNCHANGED status
       ELSE IF NoFewer(groups, es) THEN Fail
       ELSE /\ run' = [run EXCEPT !.extracts = <<>>,
                                  !.todo = [i \in DOMAIN groups |-> Merged(groups[i])]]
            /\ UNCHANGED status
    /\ UNCHANGED <<messages, summary>>

-----------------------------------------------------------------------------
(* The end of a run, and what may happen to it.                            *)

Respond(size) ==
    /\ run.pc = "respond" /\ status = "running"
    /\ messages' = IF run.kind = "chat"
                   THEN Append(messages, [role |-> "assistant", size |-> size]) ELSE messages
    /\ Fail
    /\ UNCHANGED summary

\* A provider call fails, or the summary does not parse twice.
ProviderFails ==
    /\ run.pc = "summarise" \/ (run.pc = "extract" /\ run.todo # <<>>) \/ run.pc = "respond"
    /\ Fail
    /\ UNCHANGED <<messages, summary>>

\* A file of the conversation is gone: no request can be composed.  The write
\* of a summary is rolled back with the request composed in it.
AttachmentUnavailable ==
    /\ run.pc \in {"compose", "select", "store", "chunk"}
    /\ Fail
    /\ UNCHANGED <<messages, summary>>

RequestStop ==
    /\ status = "running" /\ status' = "stopping"
    /\ UNCHANGED <<messages, summary, run>>

\* The task is cancelled a moment after the Stop, wherever it waits.
Cancelled ==
    /\ status = "stopping" /\ Fail
    /\ UNCHANGED <<messages, summary>>

\* The process ends; the row is failed at the next start.
Crash ==
    /\ status # "none" /\ Fail
    /\ UNCHANGED <<messages, summary>>

TaskStep ==
    \/ Cancelled \/ ProviderFails \/ AttachmentUnavailable
    \/ ComposeChat \/ SelectCandidates \/ (\E n \in NoteSizes : Summarised(n) \/ Extract(n))
    \/ CheckRunning \/ StoreSummary \/ Recompose \/ ComposeHandoff \/ Chunk \/ Merge
    \/ (\E s \in Sizes : Respond(s))

Next ==
    \/ TaskStep
    \/ \E s \in Sizes : SubmitTurn(s)
    \/ Retry \/ SubmitHandoff \/ RequestStop \/ Crash

Spec == Init /\ [][Next]_vars

\* The task goes on: the event loop schedules it and provider calls time out.
FairSpec == Spec /\ WF_vars(TaskStep)
-----------------------------------------------------------------------------
\* Every request to the provider fits the model's context, and a summary takes
\* in as much as fits: no longer stretch of the candidates would have (each
\* call costs, and the loop makes as few as it can).
RequestsFit ==
    /\ run.size <= Budget
    /\ run.pc = "extract" => \A i \in DOMAIN run.todo : run.todo[i].size <= Budget
    /\ run.pc = "summarise" =>
         /\ SummarySize(run.cutoff) <= Budget
         /\ \A c \in run.cutoff + 1 .. Len(messages) - Retained(Cardinality(After(0))) :
                SummarySize(c) > Budget

\* The stored summary was made from exactly the turns it says it stands for,
\* and the latest turns are never among them: Stops, crashes, failed calls and
\* loops of several summaries lose no turn and count none twice.
SummaryIsExact ==
    /\ summary.covers = 1 .. summary.through
    /\ summary.through > 0 => summary.through + MinRecent <= Len(messages)

\* What the model answers from is the whole conversation: every turn, through
\* the summary or verbatim; for a handoff every user turn and nothing else.
ModelSeesEverything ==
    run.pc = "respond" =>
        run.sent = IF run.kind = "chat" THEN Ordinals ELSE UserOrdinals

\* Compaction ends: every summary takes a turn off the loop, every round of
\* merging leaves fewer extracts.
CompactionEnds == run.pc # "none" ~> run.pc = "none"
=============================================================================
