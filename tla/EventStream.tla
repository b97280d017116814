----------------------------- MODULE EventStream -----------------------------
(***************************************************************************)
(* How the draft of one generation reaches browsers: the in-memory draft   *)
(* (_LiveGeneration), one bounded queue per open event stream (_events),   *)
(* the stored row the streams fall back to, and the browser's side of the  *)
(* protocol (frontend/src/stream.ts).                                      *)
(*                                                                         *)
(* The writer is the part of Generation a reader can notice: the row's     *)
(* compare-and-sets and the draft updates that follow them, as separate    *)
(* steps, because an await lies between them.  A reader's step runs from   *)
(* one await to the next; get_snapshot awaits only when no active draft is *)
(* in memory, so the look at _live and the SELECT are two steps then.      *)
(*                                                                         *)
(* Text is the sequence of the draft's seq numbers that contributed to it. *)
(* An event is applied by the browser in the step that sends it: delivery  *)
(* is in order, and delay only keeps the view older.                       *)
(***************************************************************************)
EXTENDS Naturals, Sequences, FiniteSets

CONSTANTS
    Readers,       \* browser tabs following the generation, one account
    QueueSize,     \* _STREAM_QUEUE_SIZE (256 in the code)
    MaxStreams,    \* _MAX_STREAMS_PER_USER (8 in the code)
    MaxSeq,        \* bound: updates of the draft
    MaxDrops       \* bound: lost connections

ASSUME BoundsAssumption ==
    /\ QueueSize \in Nat \ {0} /\ MaxStreams \in Nat \ {0}
    /\ MaxSeq \in Nat /\ MaxDrops \in Nat

VARIABLES
    row,       \* status, stream_revision and partial_blocks of the stored row
    live,      \* _live: status ("none" without an entry), seq, blocks
    drafts,    \* history: the draft's blocks after each seq
    task,      \* what the generation's task does next
    stop,      \* a Stop request in flight: "none" | "signal" | "finish"
    session,   \* "in", "revoked" (logout committed), "closed" (streams closed)
    reader,    \* the streams and the browsers behind them
    drops      \* lost connections so far

vars == <<row, live, drafts, task, stop, session, reader, drops>>

Active == {"queued", "running", "stopping"}
Terminal == {"completed", "failed", "stopped"}

\* Queue items: a _Delta (its op abstracted), _RESYNC, _CLOSE; and no item.
Delta(seq, op) == [kind |-> "delta", seq |-> seq, op |-> op]
Resync == [kind |-> "resync", seq |-> 0, op |-> "none"]
Close == [kind |-> "close", seq |-> 0, op |-> "none"]
Nothing == [kind |-> "none", seq |-> 0, op |-> "none"]
TextOps == {"start", "append"}

NoView == [status |-> "none", seq |-> 0, blocks |-> <<>>, draft |-> FALSE]

\* pc: "off", "open" (admitted, generator not started), "select" (first SELECT),
\* "wait", "recheck" (session check with an item in hand), "reread" (SELECT),
\* "poll" (SELECT of a poll).  mode: what the browser does.
NewReader ==
    [pc |-> "off", mode |-> "stream", queue |-> <<>>, pending |-> Nothing, item |-> Nothing,
     last |-> 0, view |-> NoView, closed |-> FALSE, sent |-> 0]

Subscribed(r) == reader[r].pc \in {"select", "wait", "recheck", "reread"}

Init ==
    /\ row = [status |-> "queued", rev |-> 0, blocks |-> <<>>]
    /\ live = [status |-> "none", seq |-> 0, blocks |-> <<>>]
    /\ drafts = <<>>
    /\ task = "unborn" /\ stop = "none" /\ session = "in" /\ drops = 0
    /\ reader = [r \in Readers |-> NewReader]

-----------------------------------------------------------------------------
(* Queues.                                                                 *)

InQueue(q, item) == \E i \in 1 .. Len(q) : q[i] = item

\* Mutant: a full queue forgets a pending close.
OfferForgetsClose(q, item) ==
    IF Len(q) < QueueSize THEN Append(q, item) ELSE <<Resync>>

\* _offer: a reader that fell behind resynchronises; a close is never lost.
Offer(q, item) ==
    IF Len(q) < QueueSize THEN Append(q, item)
    ELSE <<IF item = Close \/ InQueue(q, Close) THEN Close ELSE Resync>>

Publish(item) ==
    [r \in Readers |->
        IF Subscribed(r) THEN [reader[r] EXCEPT !.queue = Offer(@, item)] ELSE reader[r]]

-----------------------------------------------------------------------------
(* The writer.                                                             *)

\* _set_live_status / _mark_finished: a finished draft is only announced.
SetLiveStatus(s) ==
    LET quiet == live.status \in Terminal \cup {"none"} IN
    /\ live' = IF quiet THEN live
               ELSE IF s \in Terminal THEN [live EXCEPT !.status = s]
               ELSE [live EXCEPT !.status = s, !.seq = @ + 1]
    /\ drafts' = IF quiet \/ s \in Terminal THEN drafts ELSE Append(drafts, live.blocks)
    /\ reader' = IF quiet \/ s \in Terminal THEN Publish(Resync)
                 ELSE Publish(Delta(live.seq + 1, s))

\* _transition on the row.
SetRow(allowed, s, blocks) ==
    row' = IF row.status \in allowed
           THEN [status |-> s, rev |-> row.rev + 1, blocks |-> blocks] ELSE row

Schedule ==
    /\ task = "unborn"
    /\ task' = "start"
    /\ live' = [live EXCEPT !.status = "queued"]
    /\ UNCHANGED <<row, drafts, stop, session, reader, drops>>

TaskSetRunning ==
    /\ task = "start"
    /\ SetRow({"queued"}, "running", <<>>)
    /\ task' = IF row.status = "queued" THEN "announce" ELSE "finish"
    /\ UNCHANGED <<live, drafts, stop, session, reader, drops>>

TaskAnnounce ==
    /\ task = "announce"
    /\ SetLiveStatus("running")
    /\ task' = "stream"
    /\ UNCHANGED <<row, stop, session, drops>>

\* _apply_live_events: the first text of a draft starts a block.
TaskEmit(op) ==
    /\ task = "stream" /\ live.status = "running" /\ live.seq < MaxSeq
    /\ op = "append" => live.blocks # <<>>
    /\ live' = [live EXCEPT !.seq = @ + 1, !.blocks = Append(@, live.seq + 1)]
    /\ drafts' = Append(drafts, live'.blocks)
    /\ reader' = Publish(Delta(live.seq + 1, op))
    /\ UNCHANGED <<row, task, stop, session, drops>>

\* Mutant: the draft is cleared under its old seq.
TaskResetKeepsSeq ==
    /\ task = "stream" /\ live.status = "running" /\ live.seq < MaxSeq
    /\ live' = [live EXCEPT !.blocks = <<>>]
    /\ drafts' = drafts
    /\ reader' = Publish(Resync)
    /\ UNCHANGED <<row, task, stop, session, drops>>

\* _reset_draft_for_retry.
TaskReset ==
    /\ task = "stream" /\ live.status = "running" /\ live.seq < MaxSeq
    /\ live' = [live EXCEPT !.seq = @ + 1, !.blocks = <<>>]
    /\ drafts' = Append(drafts, <<>>)
    /\ reader' = Publish(Resync)
    /\ UNCHANGED <<row, task, stop, session, drops>>

\* The terminal write of the task: completed, failed, or a Stop that won.  A
\* write that took effect but reported an error is followed by `stopped'; a
\* failure that finds no row to claim is not marked.
TaskFinishRow ==
    /\ \/ /\ task = "stream" /\ row.status = "running"
          /\ SetRow({"running"}, "completed", live.blocks)
          /\ task' \in {"markCompleted", "finish"}
       \/ /\ task \in {"start", "stream"} /\ row.status \in {"queued", "running"}
          /\ \E shown \in {<<>>, live.blocks} : SetRow({"queued", "running"}, "failed", shown)
          /\ task' = "markFailed"
       \/ /\ task = "finish" \/ (task = "stream" /\ row.status = "stopping")
          /\ SetRow(Active, "stopped", <<>>)
          /\ task' = "markStopped"
       \/ /\ task = "stream" /\ row.status = "deleted"
          /\ task' \in {"markStopped", "ending"}
          /\ UNCHANGED row
    /\ UNCHANGED <<live, drafts, stop, session, reader, drops>>

Marked == [markCompleted |-> "completed", markFailed |-> "failed", markStopped |-> "stopped"]

TaskMarkFinished ==
    /\ task \in DOMAIN Marked
    /\ SetLiveStatus(Marked[task])
    /\ task' = "ending"
    /\ UNCHANGED <<row, stop, session, drops>>

\* The done-callback.
Forget ==
    /\ task' = "done"
    /\ live' = [status |-> "none", seq |-> 0, blocks |-> <<>>]
    /\ reader' = Publish(Resync)
    /\ UNCHANGED <<row, drafts, stop, session, drops>>

TaskEnds == task = "ending" /\ Forget

\* The terminal write failed through all its retries.
TaskLost == task \in {"start", "stream", "finish"} /\ Forget

StopRow ==
    /\ stop = "none" /\ row.status \in Active /\ live.seq <= MaxSeq
    /\ SetRow({"queued", "running"}, "stopping", row.blocks)
    /\ stop' = "signal"
    /\ UNCHANGED <<live, drafts, task, session, reader, drops>>

\* The draft is marked; a row whose task is gone is finished by the request.
StopSignal ==
    /\ stop = "signal"
    /\ SetLiveStatus("stopping")
    /\ stop' = IF task = "done" THEN "finish" ELSE "none"
    /\ UNCHANGED <<row, task, session, drops>>

StopFinish ==
    /\ stop = "finish"
    /\ SetRow(Active, "stopped", <<>>)
    /\ reader' = Publish(Resync)
    /\ stop' = "none"
    /\ UNCHANGED <<live, drafts, task, session, drops>>

\* The conversation is deleted, the row with it.
RowRemoved ==
    /\ row.status # "deleted"
    /\ row' = [row EXCEPT !.status = "deleted", !.blocks = <<>>]
    /\ UNCHANGED <<live, drafts, task, stop, session, reader, drops>>

-----------------------------------------------------------------------------
(* The streams (_events) and what the browser makes of their events.       *)

\* The stream ends: its queue is discarded.
Off(rd) ==
    [rd EXCEPT !.pc = "off", !.queue = <<>>, !.pending = Nothing, !.item = Nothing,
               !.last = 0, !.closed = FALSE]

\* Content events sent since sign-out closed the streams (2 means more).
Sent(rd) == IF session = "closed" /\ rd.sent < 2 THEN rd.sent + 1 ELSE rd.sent

\* A snapshot event.  After a final one both sides stop.
Show(rd, snap) ==
    LET shown == [rd EXCEPT !.view = snap, !.last = snap.seq, !.pc = "wait",
                            !.item = Nothing, !.sent = Sent(rd)]
    IN  IF snap.status \in Terminal THEN [Off(shown) EXCEPT !.mode = "done"] ELSE shown

DraftSnapshot == [status |-> live.status, seq |-> live.seq, blocks |-> live.blocks, draft |-> TRUE]
RowSnapshot == [status |-> row.status, seq |-> row.rev, blocks |-> row.blocks, draft |-> FALSE]

\* Mutant: a finished draft is still served from memory.
ServedFromMemoryAlways == live.status # "none"

\* get_snapshot answers from memory while the draft is active.
ServedFromMemory == live.status \in Active

\* How many queued deltas directly continue `item'.
Following(q, item) ==
    CHOOSE n \in 0 .. Len(q) :
        /\ \A i \in 1 .. n : q[i].kind = "delta" /\ q[i].seq = item.seq + i
        /\ n < Len(q) => ~(q[n + 1].kind = "delta" /\ q[n + 1].seq = item.seq + n + 1)

\* One op of a delta event: text goes into the blocks, a status replaces it.
Apply(view, d) ==
    IF d.op \in TextOps THEN [view EXCEPT !.blocks = Append(@, d.seq), !.seq = d.seq, !.draft = TRUE]
    ELSE [view EXCEPT !.status = d.op, !.seq = d.seq, !.draft = TRUE]

\* The view after each op.
After(view, deltas) ==
    LET after[i \in 0 .. Len(deltas)] == IF i = 0 THEN view ELSE Apply(after[i - 1], deltas[i])
    IN  after

\* applyDelta refuses what does not follow the view, and text that would
\* append to no block.
Refused(view, deltas) ==
    \/ deltas[1].seq # view.seq + 1
    \/ \E i \in DOMAIN deltas : deltas[i].op = "append" /\ After(view, deltas)[i - 1].blocks = <<>>

\* One delta event, coalesced from the queue, and what the browser makes of
\* it: a refused one sends it polling.
SendDelta(rd, item) ==
    LET n == Following(rd.queue, item)
        deltas == <<item>> \o SubSeq(rd.queue, 1, n)
        view == After(rd.view, deltas)[n + 1]
        sent == [rd EXCEPT !.sent = Sent(rd)]
    IN  IF Refused(rd.view, deltas) THEN [Off(sent) EXCEPT !.mode = "poll"]
        ELSE [sent EXCEPT !.view = view, !.last = view.seq, !.pc = "wait", !.item = Nothing,
                !.pending = IF n < Len(rd.queue) THEN rd.queue[n + 1] ELSE Nothing,
                !.queue = SubSeq(rd.queue, n + 2, Len(rd.queue))]

\* What the loop does with the item in hand (Nothing: the wait timed out).
Serve(rd, item) ==
    CASE item = Nothing /\ live.status # "none" -> [rd EXCEPT !.pc = "wait", !.item = Nothing]
      [] item.kind = "delta" /\ item.seq <= rd.last -> [rd EXCEPT !.pc = "wait", !.item = Nothing]
      [] item.kind = "delta" /\ item.seq = rd.last + 1 -> SendDelta(rd, item)
      [] OTHER -> IF ~ServedFromMemory THEN [rd EXCEPT !.pc = "reread", !.item = Nothing]
                  ELSE IF live.seq # rd.last THEN Show(rd, DraftSnapshot)
                  ELSE [rd EXCEPT !.pc = "wait", !.item = Nothing]

Read(r, rd) ==
    /\ reader' = [reader EXCEPT ![r] = rd]
    /\ UNCHANGED <<row, live, drafts, task, stop, session, drops>>

\* Mutant: a refused stream is tried again and never replaced by polling.
ConnectAgain(r) ==
    /\ reader[r].pc = "off" /\ reader[r].mode = "stream"
    /\ IF session = "in" /\ row.status # "deleted"
             /\ Cardinality({q \in Readers : Subscribed(q)}) < MaxStreams
       THEN Read(r, [reader[r] EXCEPT !.pc = "open"])
       ELSE Read(r, reader[r])

\* generation_events and open_event_stream; a refused EventSource is closed
\* for good and the browser polls.
Connect(r) ==
    /\ reader[r].pc = "off" /\ reader[r].mode = "stream"
    /\ IF session = "in" /\ row.status # "deleted"
             /\ Cardinality({q \in Readers : Subscribed(q)}) < MaxStreams
       THEN Read(r, [reader[r] EXCEPT !.pc = "open"])
       ELSE Read(r, [reader[r] EXCEPT !.mode = "poll"])

\* The generator starts: subscribe, then the first snapshot.
Subscribe(r) ==
    /\ reader[r].pc = "open"
    /\ Read(r, IF ServedFromMemory THEN Show(reader[r], DraftSnapshot)
               ELSE [reader[r] EXCEPT !.pc = "select"])

FirstSelect(r) ==
    /\ reader[r].pc = "select"
    /\ Read(r, IF row.status = "deleted" THEN Off(reader[r]) ELSE Show(reader[r], RowSnapshot))

\* Take the pending item, the next one, or time out on an empty queue; every
\* few seconds the session is checked before the item is used.
Take(r) ==
    LET rd == reader[r]
        item == IF rd.pending # Nothing THEN rd.pending
                ELSE IF rd.queue # <<>> THEN Head(rd.queue) ELSE Nothing
        rest == IF rd.pending # Nothing THEN [rd EXCEPT !.pending = Nothing]
                ELSE IF rd.queue # <<>> THEN [rd EXCEPT !.queue = Tail(@)] ELSE rd
    IN
    /\ rd.pc = "wait"
    /\ IF item = Close THEN Read(r, Off(rd))
       ELSE \/ Read(r, Serve(rest, item))
            \/ Read(r, [rest EXCEPT !.pc = "recheck", !.item = item])

Recheck(r) ==
    /\ reader[r].pc = "recheck"
    /\ Read(r, IF session = "in" THEN Serve(reader[r], reader[r].item) ELSE Off(reader[r]))

\* A snapshot is repeated only when it says something new.
Reread(r) ==
    LET rd == reader[r] IN
    /\ rd.pc = "reread"
    /\ Read(r, IF row.status = "deleted" THEN Off(rd)
               ELSE IF row.status \in Terminal \/ row.rev # rd.last THEN Show(rd, RowSnapshot)
               ELSE [rd EXCEPT !.pc = "wait"])

\* The connection breaks; EventSource connects again by itself.
Drop(r) ==
    /\ reader[r].pc # "off" /\ reader[r].mode = "stream" /\ drops < MaxDrops
    /\ drops' = drops + 1
    /\ reader' = [reader EXCEPT ![r] = Off(@)]
    /\ UNCHANGED <<row, live, drafts, task, stop, session>>

\* poll(): 401 and 404 end it; a final snapshot does too.
Poll(r) ==
    LET rd == reader[r]
        snap(s) == [rd EXCEPT !.view = s, !.pc = "off",
                              !.mode = IF s.status \in Terminal THEN "done" ELSE "poll"]
    IN
    /\ rd.mode = "poll"
    /\ \/ /\ rd.pc = "off"
          /\ Read(r, IF session # "in" \/ row.status = "deleted" THEN [rd EXCEPT !.mode = "gone"]
                     ELSE IF ServedFromMemory THEN snap(DraftSnapshot)
                     ELSE [rd EXCEPT !.pc = "poll"])
       \/ /\ rd.pc = "poll"
          /\ Read(r, IF row.status = "deleted" THEN [rd EXCEPT !.mode = "gone", !.pc = "off"]
                     ELSE snap(RowSnapshot))

-----------------------------------------------------------------------------
(* logout: the session is revoked in the database, then its streams closed.*)

SignOut ==
    /\ session = "in" /\ session' = "revoked"
    /\ UNCHANGED <<row, live, drafts, task, stop, reader, drops>>

CloseStreams ==
    /\ session = "revoked" /\ session' = "closed"
    /\ reader' = [r \in Readers |->
                    IF Subscribed(r)
                    THEN [reader[r] EXCEPT !.queue = <<Close>>, !.closed = TRUE]
                    ELSE reader[r]]
    /\ UNCHANGED <<row, live, drafts, task, stop, drops>>

WriterStep ==
    \/ Schedule \/ TaskSetRunning \/ TaskAnnounce \/ (\E op \in TextOps : TaskEmit(op))
    \/ TaskReset \/ TaskFinishRow \/ TaskMarkFinished \/ TaskEnds \/ TaskLost
    \/ StopSignal \/ StopFinish

ReaderStep(r) ==
    Connect(r) \/ Subscribe(r) \/ FirstSelect(r) \/ Take(r) \/ Recheck(r) \/ Reread(r) \/ Poll(r)

Next ==
    \/ WriterStep \/ StopRow \/ RowRemoved \/ SignOut \/ CloseStreams
    \/ \E r \in Readers : ReaderStep(r) \/ Drop(r)

Spec == Init /\ [][Next]_vars

\* Streams and polls are timed, connections are tried again, a provider call
\* times out and the task that wrote its end announces it.  Users owe nothing.
FairSpec ==
    /\ Spec
    /\ WF_vars(TaskSetRunning \/ TaskAnnounce \/ TaskFinishRow \/ TaskMarkFinished \/ TaskEnds)
    /\ WF_vars(CloseStreams)
    /\ \A r \in Readers : WF_vars(ReaderStep(r))
-----------------------------------------------------------------------------
(* Properties.                                                             *)

DraftAt(seq) == IF seq = 0 THEN <<>> ELSE drafts[seq]

ShowsDraft(v) == v.draft => v.blocks = DraftAt(v.seq)

\* Until a Stop, what a browser shows is the draft as it was at the seq it
\* shows: no text is missing, doubled or left over from a discarded attempt,
\* whatever queues overflowed and connections broke (_offer, _events).
ViewIsDraft ==
    row.status \in {"queued", "running"} => \A r \in Readers : ShowsDraft(reader[r].view)

\* A browser that shows an end shows the stored one: the draft in memory may
\* say `stopped' of a row whose answer was committed (get_snapshot).
FinalViewIsStored ==
    \A r \in Readers :
        reader[r].view.status \in Terminal =>
            \/ row.status = "deleted"
            \/ reader[r].view.status = row.status /\ reader[r].view.blocks = row.blocks

\* Once sign-out closed a stream, at most the event already in hand is sent.
CloseEndsStream == \A r \in Readers : reader[r].closed => reader[r].sent <= 1

\* Every browser learns how the generation ended, or that it may not know.
EveryoneLearnsTheEnd ==
    row.status \in Terminal \cup {"deleted"} ~>
        \A r \in Readers : reader[r].mode \in {"done", "gone"}
=============================================================================
