------------------------------ MODULE Generation ------------------------------
(***************************************************************************)
(* The life of a generation in src/src/oveo/generation.py: the database    *)
(* rows, the in-process task that drives each row, and the HTTP requests   *)
(* (submit, handoff, retry, stop, delete) that race with it.               *)
(*                                                                         *)
(* What one step is.  SQLite runs every SELECT outside the write lock and  *)
(* serialises writers, so a request is two steps: what it reads, and the   *)
(* write transaction that follows.  Between two awaits a coroutine runs    *)
(* alone, so a block of in-memory bookkeeping is one step.  A compare-and- *)
(* set (_transition) is the guard and the effect of one write step.        *)
(*                                                                         *)
(* Data.  One account sends all requests (ownership checks always pass).   *)
(* A message is its ordinal: `asked' is the ordinal of the user message a  *)
(* generation was submitted with, `answer' that of its assistant message.  *)
(***************************************************************************)
EXTENDS Naturals, FiniteSets

CONSTANTS
    Gens,          \* generation ids (uuid), never reused
    Threads,       \* conversation ids (uuid), never reused
    Requests,      \* HTTP requests that can be in flight at once
    Keys,          \* client_request_id values
    None,          \* no generation, no thread, no key
    MaxAttempts,   \* protocol attempts per generation (3 in the code)
    MaxFaults,     \* bound: writes that fail, or take effect and report an error
    MaxRestarts    \* bound: times the process ends

ASSUME IdsAssumption ==
    /\ None \notin Gens /\ None \notin Threads /\ None \notin Keys
    /\ MaxAttempts \in Nat \ {0} /\ MaxFaults \in Nat /\ MaxRestarts \in Nat

VARIABLES
    \* the database
    threadState,   \* [Threads -> "none" | "open" | "deleted"]
    count,         \* highest message ordinal of a thread
    latest,        \* newest chat generation of a thread (created_at order)
    status,        \* generations.status; "unused" before, "deleted" after
    row,           \* the columns written once, by the INSERT
    answer,        \* ordinal of result_message_id, 0 while NULL
    fatal,         \* failed rows whose error_code is in _NOT_RETRYABLE_CODES
    \* the process
    process,       \* "up" | "ending" (shutdown) | "down"
    task,          \* where the task of a generation is, "none" without one
    live,          \* _live[g].status, "none" without an entry
    cancel,        \* generations whose cancel_event is set
    attempt,       \* protocol attempts already failed
    context,       \* highest ordinal the composed request context holds
    req,           \* the requests in flight
    \* fault injection
    abandoned,     \* rows a failed or unacknowledged write left without a task
    faults, restarts

database == <<threadState, count, latest, status, row, answer, fatal>>
memory == <<task, live, cancel, attempt, context>>
bounds == <<faults, restarts>>
vars == <<database, process, memory, req, abandoned, bounds>>

ActiveStatus == {"queued", "running", "stopping"}
TerminalStatus == {"completed", "failed", "stopped"}
Status == ActiveStatus \cup TerminalStatus \cup {"unused", "deleted"}

\* Where a task can be.  InTry: inside _run's try block; the others are its
\* exception handlers, whose own failure ends the task.
InTry == {"start", "announce", "compose", "respond", "commit", "stopInTry", "title"}
InHandler == {"stopInHandler", "fail", "failFinal"}
TaskState == InTry \cup InHandler \cup {"none"}

NoRow == [thread |-> None, turn |-> None, purpose |-> "chat", key |-> None, asked |-> 0]
Idle == [kind |-> "none", pc |-> "idle", gen |-> None, thread |-> None,
         turn |-> None, key |-> None, toStop |-> {}, toFail |-> {}]

Exists(g) == status[g] \in ActiveStatus \cup TerminalStatus
Active(g) == status[g] \in ActiveStatus
RowsOf(t) == {g \in Gens : Exists(g) /\ row[g].thread = t}

\* _starting: ids of requests between new_id() and their return.
Starting == {req[r].gen : r \in {q \in Requests : req[q].pc \in {"checked", "committed"}}}

\* Mutant: _starting is forgotten.
IsLiveTaskOnly(g) == task[g] # "none"

\* _is_live: a request is about to schedule the task, or the task is not done.
IsLive(g) == g \in Starting \/ task[g] # "none"

Init ==
    /\ threadState = [t \in Threads |-> "none"]
    /\ count = [t \in Threads |-> 0]
    /\ latest = [t \in Threads |-> None]
    /\ status = [g \in Gens |-> "unused"]
    /\ row = [g \in Gens |-> NoRow]
    /\ answer = [g \in Gens |-> 0]
    /\ fatal = {}
    /\ process = "up"
    /\ task = [g \in Gens |-> "none"]
    /\ live = [g \in Gens |-> "none"]
    /\ cancel = {}
    /\ attempt = [g \in Gens |-> 0]
    /\ context = [g \in Gens |-> 0]
    /\ req = [r \in Requests |-> Idle]
    /\ abandoned = {} /\ faults = 0 /\ restarts = 0

-----------------------------------------------------------------------------
(* Requests that start a generation: submit_turn, submit_handoff, retry.   *)

ExistingRequest(k) == \E g \in Gens : Exists(g) /\ row[g].key = k

\* The SELECT of _finalize_orphans: active rows of the thread no task owns.
Orphans(t, S) == {g \in RowsOf(t) : status[g] \in S /\ ~IsLive(g)}

\* The reads of a starting request.  A key that already has a row is answered
\* with that row and starts nothing.
Check(r, kind, t, turn, k) ==
    /\ process = "up" /\ req[r].pc = "idle" /\ ~ExistingRequest(k)
    /\ \E g \in {h \in Gens : status[h] = "unused"} \ Starting :
         req' = [req EXCEPT ![r] =
                   [kind |-> kind, pc |-> "checked", gen |-> g, thread |-> t,
                    turn |-> (IF kind = "turn" THEN g ELSE turn), key |-> k,
                    toStop |-> Orphans(t, {"stopping"}),
                    toFail |-> Orphans(t, {"queued", "running"})]]
    /\ UNCHANGED <<database, process, memory, abandoned, bounds>>

\* submit_turn into an open thread, or into one the transaction will create.
SubmitTurn(r, t, k) ==
    /\ \/ threadState[t] = "open"
       \/ threadState[t] = "none" /\ \A q \in Requests : req[q].thread # t
    /\ Check(r, "turn", t, None, k)

SubmitHandoff(r, t, k) ==
    /\ threadState[t] = "open"
    /\ Check(r, "handoff", t, None, k)

\* _is_retryable: the latest chat generation, unanswered, with no assistant
\* message after its turn.
IsRetryable(g) ==
    LET t == row[g].thread IN
    /\ row[g].purpose = "chat"
    /\ status[g] \in {"failed", "stopped"} /\ g \notin fatal
    /\ answer[g] = 0
    /\ latest[t] = g
    /\ \A h \in RowsOf(t) : answer[h] <= row[row[g].turn].asked

Retry(r, g, k) ==
    /\ Exists(g) /\ IsRetryable(g)
    /\ Check(r, "retry", row[g].thread, row[g].turn, k)

\* What _finalize_orphans' compare-and-sets leave in the transaction.
Finalized(q) ==
    [g \in Gens |->
       IF g \in q.toStop /\ status[g] = "stopping" THEN "stopped"
       ELSE IF g \in q.toFail /\ status[g] \in {"queued", "running"} THEN "failed"
       ELSE status[g]]

\* Mutant: no partial unique index on active generations.
InsertableNoIndex(q, settled) ==
    /\ threadState[q.thread] = "open" \/ (q.kind = "turn" /\ threadState[q.thread] = "none")
    /\ ~ExistingRequest(q.key)

\* The unique and foreign-key constraints the INSERTs meet.
Insertable(q, settled) ==
    /\ threadState[q.thread] = "open" \/ (q.kind = "turn" /\ threadState[q.thread] = "none")
    /\ ~ExistingRequest(q.key)
    /\ \A g \in RowsOf(q.thread) : settled[g] \notin ActiveStatus

\* The write transaction takes effect: orphans, message, generation row.  What
\* its commit then reports to the request decides between Schedule and
\* CommitUnacknowledged.
Commit(r) ==
    LET q == req[r]
        settled == Finalized(q)
        asks == q.kind = "turn"
    IN
    /\ q.pc = "checked"
    /\ Insertable(q, settled)
    /\ threadState' = [threadState EXCEPT ![q.thread] = "open"]
    /\ count' = IF asks THEN [count EXCEPT ![q.thread] = @ + 1] ELSE count
    /\ latest' = IF q.kind = "handoff" THEN latest ELSE [latest EXCEPT ![q.thread] = q.gen]
    /\ status' = [settled EXCEPT ![q.gen] = "queued"]
    /\ row' = [row EXCEPT ![q.gen] =
                 [thread |-> q.thread, turn |-> q.turn,
                  purpose |-> (IF q.kind = "handoff" THEN "prompt_handoff" ELSE "chat"),
                  key |-> q.key,
                  asked |-> (IF asks THEN count[q.thread] + 1 ELSE 0)]]
    /\ req' = [req EXCEPT ![r].pc = "committed", ![r].toStop = {}, ![r].toFail = {}]
    /\ abandoned' = abandoned \ (q.toStop \cup q.toFail)
    /\ UNCHANGED <<answer, fatal, process, memory, bounds>>

\* A constraint, a size limit or a locked database ends the request before its
\* commit takes effect; the transaction, the finished orphans included, is
\* rolled back.
Reject(r) ==
    /\ req[r].pc = "checked"
    /\ req' = [req EXCEPT ![r] = Idle]
    /\ UNCHANGED <<database, process, memory, abandoned, bounds>>

\* _schedule, then the request returns (and leaves _starting).
Schedule(r) ==
    LET g == req[r].gen IN
    /\ req[r].pc = "committed"
    /\ task' = [task EXCEPT ![g] = "start"]
    /\ live' = [live EXCEPT ![g] = "queued"]
    /\ req' = [req EXCEPT ![r] = Idle]
    /\ UNCHANGED <<database, process, cancel, attempt, context, abandoned, bounds>>

\* The commit took effect but raised or was cancelled: _schedule is skipped and
\* the finally block leaves _starting, so the new row has no task.
CommitUnacknowledged(r) ==
    LET g == req[r].gen IN
    /\ req[r].pc = "committed"
    /\ faults < MaxFaults /\ faults' = faults + 1
    /\ req' = [req EXCEPT ![r] = Idle]
    /\ abandoned' = IF Active(g) THEN abandoned \cup {g} ELSE abandoned
    /\ UNCHANGED <<database, process, memory, restarts>>

-----------------------------------------------------------------------------
(* The task of a generation: _run and what it calls.                       *)

\* _transition: rows of `allowed' status move to `to', others stay.
Transition(g, allowed, to) ==
    IF status[g] \in allowed THEN [status EXCEPT ![g] = to] ELSE status

\* _set_live_status: a finished draft never becomes active again.
SetLive(g, s) ==
    IF live[g] \in TerminalStatus \cup {"none"} THEN live ELSE [live EXCEPT ![g] = s]

\* The task ends and its done-callback drops what the process kept for it.
EndTask(g) ==
    /\ task' = [task EXCEPT ![g] = "none"]
    /\ live' = [live EXCEPT ![g] = "none"]
    /\ cancel' = cancel \ {g}
    /\ attempt' = [attempt EXCEPT ![g] = 0]
    /\ context' = [context EXCEPT ![g] = 0]

Goto(g, pc) == task' = [task EXCEPT ![g] = pc]

\* Mutant: a task that finds its row stopped before it started just returns.
TaskSetRunningReturns(g) ==
    /\ task[g] = "start"
    /\ status' = Transition(g, {"queued"}, "running")
    /\ IF status[g] = "queued"
       THEN Goto(g, "announce") /\ UNCHANGED <<live, cancel, attempt, context>>
       ELSE EndTask(g)
    /\ UNCHANGED <<threadState, count, latest, row, answer, fatal, process, req, abandoned,
                   bounds>>

TaskSetRunning(g) ==
    /\ task[g] = "start"
    /\ status' = Transition(g, {"queued"}, "running")
    /\ Goto(g, IF status[g] = "queued" THEN "announce" ELSE "stopInTry")
    /\ UNCHANGED <<threadState, count, latest, row, answer, fatal, process, live, cancel,
                   attempt, context, req, abandoned, bounds>>

\* After the commit of `running': a Stop may already have marked the draft.
TaskAnnounce(g) ==
    /\ task[g] = "announce"
    /\ live' = SetLive(g, "running")
    /\ Goto(g, "compose")
    /\ UNCHANGED <<database, process, cancel, attempt, context, req, abandoned, bounds>>

\* _compose reads the conversation once, for all attempts.
TaskCompose(g) ==
    /\ task[g] = "compose"
    /\ Exists(g)
    /\ context' = [context EXCEPT ![g] = count[row[g].thread]]
    /\ Goto(g, "respond")
    /\ UNCHANGED <<database, process, live, cancel, attempt, req, abandoned, bounds>>

\* The provider answered and the decoder accepted the whole response.
TaskDecoded(g) ==
    /\ task[g] = "respond"
    /\ Goto(g, "commit")
    /\ UNCHANGED <<database, process, live, cancel, attempt, context, req, abandoned, bounds>>

\* Mutant: failed attempts are not counted.
TaskProtocolErrorUncounted(g) ==
    /\ task[g] = "respond" \/ (task[g] = "commit" /\ status[g] = "running")
    /\ Goto(g, IF live[g] = "running" THEN "respond" ELSE "fail")
    /\ UNCHANGED <<database, process, live, cancel, attempt, context, req, abandoned, bounds>>

\* A ProtocolError of the decoder, or of a state operation inside the success
\* transaction (which rolls back): _reset_draft_for_retry, or give up.
TaskProtocolError(g) ==
    /\ task[g] = "respond" \/ (task[g] = "commit" /\ status[g] = "running")
    /\ IF attempt[g] < MaxAttempts - 1 /\ live[g] = "running"
       THEN /\ attempt' = [attempt EXCEPT ![g] = @ + 1]
            /\ Goto(g, "respond")
       ELSE /\ Goto(g, "fail")
            /\ UNCHANGED attempt
    /\ UNCHANGED <<database, process, live, cancel, context, req, abandoned, bounds>>

\* Any other error of composing, calling the provider or saving state; only
\* composing meets the codes a retry would repeat.
TaskError(g) ==
    /\ \/ task[g] \in {"compose", "respond", "commit"} /\ Goto(g, "fail")
       \/ task[g] = "compose" /\ Goto(g, "failFinal")
    /\ UNCHANGED <<database, process, live, cancel, attempt, context, req, abandoned, bounds>>

\* CancelledError: the cancel event or the draft's status at a safe point, or
\* shutdown forcing what outlived its grace period.
TaskCancelled(g) ==
    /\ \/ task[g] \in {"compose", "respond", "title"} /\ g \in cancel
       \/ task[g] = "respond" /\ live[g] # "running"
       \/ task[g] \in InTry /\ process = "ending"
    /\ Goto(g, IF process = "ending" THEN "fail" ELSE "stopInHandler")
    /\ UNCHANGED <<database, process, live, cancel, attempt, context, req, abandoned, bounds>>

\* Mutant: the answer is written without claiming `running' first.
AnsweredUnclaimed(g) ==
    LET t == row[g].thread IN
    /\ task[g] = "commit" /\ Exists(g)
    /\ status' = [status EXCEPT ![g] = "completed"]
    /\ count' = [count EXCEPT ![t] = @ + 1]
    /\ answer' = [answer EXCEPT ![g] = count[t] + 1]
    /\ UNCHANGED <<threadState, latest, row, fatal, process, cancel, attempt, context, req,
                   abandoned, restarts>>

\* _commit_success_once: the claim, the assistant message and its id.
Answered(g) ==
    LET t == row[g].thread IN
    /\ task[g] = "commit" /\ status[g] = "running"
    /\ status' = Transition(g, {"running"}, "completed")
    /\ IF row[g].purpose = "chat"
       THEN /\ count' = [count EXCEPT ![t] = @ + 1]
            /\ answer' = [answer EXCEPT ![g] = count[t] + 1]
       ELSE UNCHANGED <<count, answer>>
    /\ UNCHANGED <<threadState, latest, row, fatal, process, cancel, attempt, context, req,
                   abandoned, restarts>>

TaskCommit(g) ==
    /\ Answered(g)
    /\ live' = SetLive(g, "completed")
    /\ Goto(g, "title")
    /\ UNCHANGED faults

\* The commit took effect but reported an error: _with_write_retries runs the
\* write again.
TaskCommitUnacknowledged(g) ==
    /\ faults < MaxFaults
    /\ Answered(g)
    /\ faults' = faults + 1
    /\ UNCHANGED <<task, live>>

\* The claim found another status: a Stop, a deletion or its own first write.
TaskUnclaimed(g) ==
    /\ task[g] = "commit" /\ status[g] # "running"
    /\ Goto(g, "stopInTry")
    /\ UNCHANGED <<database, process, live, cancel, attempt, context, req, abandoned, bounds>>

TaskFinishStopped(g) ==
    /\ task[g] \in {"stopInTry", "stopInHandler"}
    /\ status' = Transition(g, ActiveStatus, "stopped")
    /\ EndTask(g)
    /\ UNCHANGED <<threadState, count, latest, row, answer, fatal, process, req, abandoned,
                   bounds>>

\* Mutant: a late failure relabels a row that is being stopped.
TaskFailRelabels(g) ==
    /\ task[g] \in {"fail", "failFinal"}
    /\ status' = Transition(g, ActiveStatus, "failed")
    /\ EndTask(g)
    /\ UNCHANGED <<threadState, count, latest, row, answer, fatal, process, req, abandoned,
                   bounds>>

\* _fail: a pending Stop wins over a late failure.
TaskFail(g) ==
    /\ task[g] \in {"fail", "failFinal"}
    /\ status' = IF status[g] = "stopping" THEN Transition(g, {"stopping"}, "stopped")
                 ELSE Transition(g, {"queued", "running"}, "failed")
    /\ fatal' = IF task[g] = "failFinal" /\ status[g] \in {"queued", "running"}
                THEN fatal \cup {g} ELSE fatal
    /\ EndTask(g)
    /\ UNCHANGED <<threadState, count, latest, row, answer, process, req, abandoned, bounds>>

\* The title call, whatever its outcome, touches neither row nor transcript.
TaskTitle(g) ==
    /\ task[g] = "title"
    /\ EndTask(g)
    /\ UNCHANGED <<database, process, req, abandoned, bounds>>

\* A write failed through all its retries, or (from "announce") the commit of
\* `running' took effect and raised.  In the try block that is one more error to
\* record; in a handler it ends the task with the row still active.
TaskWriteFails(g) ==
    /\ faults < MaxFaults /\ faults' = faults + 1
    /\ \/ /\ task[g] \in {"start", "announce", "stopInTry", "commit"}
          /\ Goto(g, "fail")
          /\ UNCHANGED <<live, cancel, attempt, context, abandoned>>
       \/ /\ task[g] \in InHandler
          /\ EndTask(g)
          /\ abandoned' = IF Active(g) THEN abandoned \cup {g} ELSE abandoned
    /\ UNCHANGED <<database, process, req, restarts>>

-----------------------------------------------------------------------------
(* stop and delete_thread (cancel_thread stops the active row first).      *)

RequestStop(r, g) ==
    /\ process = "up" /\ req[r].pc = "idle" /\ Exists(g)
    /\ req' = [req EXCEPT ![r] = [Idle EXCEPT !.kind = "stop", !.pc = "stop", !.gen = g]]
    /\ UNCHANGED <<database, process, memory, abandoned, bounds>>

RequestDelete(r, t) ==
    /\ process = "up" /\ req[r].pc = "idle" /\ threadState[t] = "open"
    /\ LET q == [Idle EXCEPT !.kind = "delete", !.thread = t] IN
       \/ \E g \in RowsOf(t) :
             /\ Active(g)
             /\ req' = [req EXCEPT ![r] = [q EXCEPT !.pc = "stop", !.gen = g]]
       \/ /\ \A g \in RowsOf(t) : ~Active(g)
          /\ req' = [req EXCEPT ![r] = [q EXCEPT !.pc = "remove"]]
    /\ UNCHANGED <<database, process, memory, abandoned, bounds>>

AfterStop(q) == IF q.kind = "delete" THEN [q EXCEPT !.pc = "remove"] ELSE Idle

\* Mutant: Stop overwrites whatever status it finds.
StopWriteUnconditional(r) ==
    LET g == req[r].gen IN
    /\ req[r].pc = "stop"
    /\ status' = IF Exists(g) THEN [status EXCEPT ![g] = "stopping"] ELSE status
    /\ req' = [req EXCEPT ![r] = IF Exists(g) THEN [@ EXCEPT !.pc = "signal"] ELSE Idle]
    /\ UNCHANGED <<threadState, count, latest, row, answer, fatal, process, memory, abandoned,
                   bounds>>

\* The compare-and-set; a missing row answers 404, a finished one is left alone.
StopWrite(r) ==
    LET g == req[r].gen IN
    /\ req[r].pc = "stop"
    /\ status' = Transition(g, {"queued", "running"}, "stopping")
    /\ req' = [req EXCEPT ![r] = IF Active(g) THEN [@ EXCEPT !.pc = "signal"]
                                 ELSE IF Exists(g) THEN AfterStop(@)
                                 ELSE Idle]
    /\ UNCHANGED <<threadState, count, latest, row, answer, fatal, process, memory, abandoned,
                   bounds>>

\* Mark the draft and cancel the task, or find that no task will finish the row.
StopSignal(r) ==
    LET g == req[r].gen IN
    /\ req[r].pc = "signal"
    /\ live' = SetLive(g, "stopping")
    /\ cancel' = IF task[g] # "none" THEN cancel \cup {g} ELSE cancel
    /\ req' = [req EXCEPT ![r] = IF IsLive(g) THEN AfterStop(@) ELSE [@ EXCEPT !.pc = "finish"]]
    /\ UNCHANGED <<database, process, task, attempt, context, abandoned, bounds>>

StopFinish(r) ==
    LET g == req[r].gen IN
    /\ req[r].pc = "finish"
    /\ status' = Transition(g, ActiveStatus, "stopped")
    /\ live' = SetLive(g, "stopped")
    /\ abandoned' = abandoned \ {g}
    /\ req' = [req EXCEPT ![r] = AfterStop(@)]
    /\ UNCHANGED <<threadState, count, latest, row, answer, fatal, process, task, cancel,
                   attempt, context, bounds>>

\* A write of the request reports an error and the request ends there.  Either
\* it changed nothing, or (at the step after it) it took effect: at "signal" the
\* Stop is recorded and no task hears of it.  A DELETE that took effect and
\* raised ends the request as RemoveThread does.
RequestFails(r) ==
    /\ req[r].pc \in {"stop", "signal", "finish", "remove"}
    /\ faults < MaxFaults /\ faults' = faults + 1
    /\ req' = [req EXCEPT ![r] = Idle]
    /\ UNCHANGED <<database, process, memory, abandoned, restarts>>

\* After at most a second of waiting for the task: the DELETE and its cascade.
RemoveThread(r) ==
    LET t == req[r].thread IN
    /\ req[r].pc = "remove"
    /\ threadState' = [threadState EXCEPT ![t] = "deleted"]
    /\ count' = [count EXCEPT ![t] = 0]
    /\ latest' = [latest EXCEPT ![t] = None]
    /\ status' = [g \in Gens |-> IF g \in RowsOf(t) THEN "deleted" ELSE status[g]]
    /\ answer' = [g \in Gens |-> IF g \in RowsOf(t) THEN 0 ELSE answer[g]]
    /\ fatal' = fatal \ RowsOf(t)
    /\ abandoned' = abandoned \ RowsOf(t)
    /\ req' = [req EXCEPT ![r] = Idle]
    /\ UNCHANGED <<row, process, memory, bounds>>

-----------------------------------------------------------------------------
(* The process: shutdown, its end (orderly or not), and startup.           *)

Shutdown ==
    /\ process = "up" /\ restarts < MaxRestarts
    /\ process' = "ending"
    /\ cancel' = {g \in Gens : task[g] # "none"}
    /\ UNCHANGED <<database, task, live, attempt, context, req, abandoned, bounds>>

\* Everything in memory is lost; an open transaction is rolled back.
ProcessEnds ==
    /\ process # "down" /\ restarts < MaxRestarts
    /\ process' = "down"
    /\ restarts' = restarts + 1
    /\ task' = [g \in Gens |-> "none"]
    /\ live' = [g \in Gens |-> "none"]
    /\ cancel' = {}
    /\ attempt' = [g \in Gens |-> 0]
    /\ context' = [g \in Gens |-> 0]
    /\ req' = [r \in Requests |-> Idle]
    /\ UNCHANGED <<database, abandoned, faults>>

\* reconcile_orphans, before the first request is served.
Restart ==
    /\ process = "down"
    /\ process' = "up"
    /\ status' = [g \in Gens |->
                    IF ~Exists(g) THEN status[g]
                    ELSE IF answer[g] # 0 THEN "completed"
                    ELSE IF status[g] = "stopping" THEN "stopped"
                    ELSE IF status[g] \in {"queued", "running"} THEN "failed"
                    ELSE status[g]]
    /\ abandoned' = {}
    /\ UNCHANGED <<threadState, count, latest, row, answer, fatal, memory, req, bounds>>

TaskStep(g) ==
    \/ TaskSetRunning(g) \/ TaskAnnounce(g) \/ TaskCompose(g) \/ TaskDecoded(g)
    \/ TaskProtocolError(g) \/ TaskError(g) \/ TaskCancelled(g) \/ TaskCommit(g)
    \/ TaskCommitUnacknowledged(g) \/ TaskUnclaimed(g) \/ TaskFinishStopped(g)
    \/ TaskFail(g) \/ TaskTitle(g) \/ TaskWriteFails(g)

RequestStep(r) ==
    \/ Commit(r) \/ Reject(r) \/ Schedule(r) \/ CommitUnacknowledged(r)
    \/ StopWrite(r) \/ StopSignal(r) \/ StopFinish(r) \/ RequestFails(r) \/ RemoveThread(r)

NewRequest(r) ==
    \/ \E t \in Threads, k \in Keys : SubmitTurn(r, t, k) \/ SubmitHandoff(r, t, k)
    \/ \E g \in Gens, k \in Keys : Retry(r, g, k)
    \/ \E g \in Gens : RequestStop(r, g)
    \/ \E t \in Threads : RequestDelete(r, t)

Next ==
    \/ \E g \in Gens : TaskStep(g)
    \/ \E r \in Requests : RequestStep(r) \/ NewRequest(r)
    \/ Shutdown \/ ProcessEnds \/ Restart

\* Coroutines are scheduled by the event loop and provider calls time out;
\* users owe nothing.  A process that ended is started again.
Fairness ==
    /\ \A g \in Gens : WF_vars(TaskStep(g))
    /\ \A r \in Requests : WF_vars(RequestStep(r))
    /\ WF_vars(Restart)

Spec == Init /\ [][Next]_vars
FairSpec == Spec /\ Fairness
-----------------------------------------------------------------------------
(* Properties.                                                             *)

RequestType ==
    [kind : {"none", "turn", "handoff", "retry", "stop", "delete"},
     pc : {"idle", "checked", "committed", "stop", "signal", "finish", "remove"},
     gen : Gens \cup {None}, thread : Threads \cup {None}, turn : Gens \cup {None},
     key : Keys \cup {None}, toStop : SUBSET Gens, toFail : SUBSET Gens]

RowType ==
    [thread : Threads \cup {None}, turn : Gens \cup {None},
     purpose : {"chat", "prompt_handoff"}, key : Keys \cup {None}, asked : Nat]

\* Every variable keeps its type.
TypeOK ==
    /\ threadState \in [Threads -> {"none", "open", "deleted"}]
    /\ count \in [Threads -> Nat]
    /\ latest \in [Threads -> Gens \cup {None}]
    /\ status \in [Gens -> Status]
    /\ row \in [Gens -> RowType]
    /\ answer \in [Gens -> Nat]
    /\ fatal \subseteq Gens
    /\ process \in {"up", "ending", "down"}
    /\ task \in [Gens -> TaskState]
    /\ live \in [Gens -> ActiveStatus \cup TerminalStatus \cup {"none"}]
    /\ cancel \subseteq Gens
    /\ attempt \in [Gens -> 0 .. MaxAttempts - 1]
    /\ context \in [Gens -> Nat]
    /\ req \in [Requests -> RequestType]
    /\ abandoned \subseteq Gens
    /\ faults \in 0 .. MaxFaults
    /\ restarts \in 0 .. MaxRestarts

\* Restart, Stop and retried commits agree on one thing: a chat generation has
\* an assistant message exactly when it is completed (_commit_success_once).
AnswerIffCompleted ==
    \A g \in Gens : Exists(g) =>
        (answer[g] # 0 <=> status[g] = "completed" /\ row[g].purpose = "chat")

\* The transcript holds each generation's question and answer and nothing else:
\* a commit that is repeated after a lost acknowledgement adds no message.
MessagesAccounted ==
    \A t \in Threads : threadState[t] = "open" =>
        count[t] = Cardinality({g \in RowsOf(t) : row[g].asked # 0})
                     + Cardinality({g \in RowsOf(t) : answer[g] # 0})

\* _respond composes the context once and relies on nothing else changing the
\* conversation until its answer is committed.
ContextIsCurrent ==
    \A g \in Gens : Active(g) /\ task[g] \in {"respond", "commit"} =>
        context[g] = count[row[g].thread]

\* _is_live: while the process serves, an active row has a task that will
\* finish it or a request about to schedule one, unless that task lost its
\* terminal write or that request the acknowledgement of its commit; without a
\* failed write there is no such row.
NoSilentOrphan ==
    /\ \A g \in Gens : process # "down" /\ Active(g) => IsLive(g) \/ g \in abandoned
    /\ faults = 0 => abandoned = {}

\* The row of a live task is finished by that task alone: no request's orphan
\* handling and no direct Stop takes it away (_finalize_orphans, stop).
LiveRowsFinishedByTask ==
    [][\A g \in Gens :
          (process # "down" /\ Active(g) /\ IsLive(g) /\ status'[g] \in TerminalStatus)
             => /\ task[g] \in {"commit", "stopInTry"} \cup InHandler
                /\ req' = req]_vars

\* What clients may rely on, whatever the interleaving (see that module).
Lifecycle == INSTANCE GenerationLifecycle WITH
    answered <- {g \in Gens : answer[g] # 0},
    thread <- [g \in Gens |-> row[g].thread]

LifecycleSpec == Lifecycle!Spec

\* A generation reaches an end unless a failed write, or a commit whose request
\* was told of an error, abandoned it.
EventuallyFinal ==
    \A g \in Gens : Active(g) ~> (~Active(g) \/ g \in abandoned)

\* A Stop that was recorded ends as stopped (or with its thread), never left
\* hanging by a task that missed the signal.
StopTakesEffect ==
    \A g \in Gens :
        status[g] = "stopping" ~> (status[g] \in {"stopped", "deleted"} \/ g \in abandoned)

\* generation.py:1885: "Retrying an older or already answered generation would
\* append a second answer to a turn that has one."
OneAnswerPerTurn ==
    \A g, h \in Gens :
        (/\ g # h /\ Exists(g) /\ Exists(h)
         /\ row[g].turn = row[h].turn /\ answer[g] # 0) => answer[h] = 0
=============================================================================
