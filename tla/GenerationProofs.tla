--------------------------- MODULE GenerationProofs ---------------------------
(***************************************************************************)
(* Generation, proved for every set of conversations, generations and      *)
(* requests: the inductive invariant, and from it the type invariant and   *)
(* the safety invariants the TLC runs check; at the end, from the same     *)
(* invariant, that Generation implements GenerationLifecycle.              *)
(***************************************************************************)
EXTENDS Generation, FiniteSetTheorems, TLAPS

\* Not yet at an end and not claimed by a Stop: the only rows a success or a
\* failure may still take.
Unclaimed(g) == status[g] \in {"queued", "running"}

IsStarting(r) == req[r].pc \in {"checked", "committed"}

\* What a request in flight knows about the generation it will start...
StartingInv(r) ==
    IsStarting(r) =>
        /\ req[r].gen \in Gens /\ req[r].thread \in Threads /\ req[r].key \in Keys
        /\ req[r].kind \in {"turn", "handoff", "retry"}
        /\ task[req[r].gen] = "none"
        /\ req[r].pc = "checked" => status[req[r].gen] = "unused"
        /\ req[r].pc = "committed" => status[req[r].gen] \in {"queued", "stopping", "deleted"}
        /\ \A q \in Requests : q # r /\ IsStarting(q) => req[q].gen # req[r].gen

\* ... the rows it read as orphans: no task will ever touch them again ...
OrphanInv(r) ==
    req[r].pc = "checked" =>
        \A h \in req[r].toStop \cup req[r].toFail :
            /\ row[h].thread = req[r].thread
            /\ status[h] # "unused"
            /\ task[h] = "none"
            /\ \A q \in Requests : IsStarting(q) => req[q].gen # h

\* ... and what a Stop or a deletion in flight knows about its row.
StoppingInv(r) ==
    /\ req[r].pc \in {"stop", "signal", "finish"} =>
           req[r].gen \in Gens /\ status[req[r].gen] # "unused"
    /\ req[r].pc \in {"signal", "finish"} => ~Unclaimed(req[r].gen)
    /\ req[r].pc = "finish" =>
           /\ task[req[r].gen] = "none"
           /\ \A q \in Requests : IsStarting(q) => req[q].gen # req[r].gen
    /\ (req[r].pc = "remove" \/ req[r].kind = "delete") => req[r].thread \in Threads

RowInv(g) ==
    /\ status[g] = "unused" => answer[g] = 0 /\ task[g] = "none" /\ row[g] = NoRow
    /\ Exists(g) => row[g].thread \in Threads /\ threadState[row[g].thread] = "open"

OneActive ==
    \A g, h \in Gens : g # h /\ Active(g) /\ Active(h) => row[g].thread # row[h].thread

\* A task that is about to write `stopped' has lost its claim to a Stop.
TaskInv(g) ==
    /\ task[g] = "start" => status[g] \in {"queued", "stopping", "deleted"}
    /\ task[g] \in {"announce", "compose", "respond", "commit"} => status[g] # "queued"
    /\ task[g] \in {"stopInTry", "stopInHandler"} => ~Unclaimed(g)
    /\ task[g] = "title" => status[g] \in {"completed", "deleted"}
    /\ task[g] = "none" <=> live[g] = "none"
    /\ live[g] \in TerminalStatus \cup {"stopping"} => ~Unclaimed(g)
    /\ task[g] \in {"compose", "respond", "commit"} => live[g] # "queued"
    /\ g \in cancel => task[g] # "none" /\ (process = "ending" \/ ~Unclaimed(g))

DownInv ==
    process = "down" =>
        (\A g \in Gens : task[g] = "none") /\ (\A r \in Requests : req[r] = Idle)

\* The inductive invariant.
IInv ==
    /\ TypeOK
    /\ \A r \in Requests : StartingInv(r) /\ OrphanInv(r) /\ StoppingInv(r)
    /\ \A g \in Gens : RowInv(g) /\ TaskInv(g)
    /\ OneActive
    /\ DownInv
    /\ AnswerIffCompleted
    /\ ContextIsCurrent
    /\ NoSilentOrphan
-----------------------------------------------------------------------------
(* One lemma per action: it preserves the inductive invariant.             *)

USE DEF ActiveStatus, TerminalStatus, Exists, Active, Unclaimed, IsStarting,
        database, memory, bounds

\* The fields of an idle request.
LEMMA IdleFacts ==
    /\ Idle \in RequestType
    /\ Idle.pc = "idle" /\ Idle.kind = "none"
BY DEF Idle, RequestType

\* What a request does after its Stop: nothing, or a deletion's last step.
LEMMA AfterStopFacts ==
    ASSUME NEW q \in RequestType
    PROVE  /\ AfterStop(q) \in RequestType
           /\ AfterStop(q).pc \in {"idle", "remove"}
           /\ (AfterStop(q).kind = "delete" \/ AfterStop(q).pc = "remove") =>
                  q.kind = "delete" /\ AfterStop(q).thread = q.thread
BY IdleFacts DEF AfterStop, RequestType

\* _set_running: queued becomes running, or a Stop got there first.
LEMMA TaskSetRunningStep ==
    ASSUME IInv, NEW g \in Gens, TaskSetRunning(g)
    PROVE  IInv'
<1>1. TypeOK'
  BY DEF IInv, TypeOK, TaskState, InTry, Status, TaskSetRunning, Transition, Goto
<1>2. \A q \in Requests : StartingInv(q)' /\ OrphanInv(q)' /\ StoppingInv(q)'
  BY DEF IInv, TypeOK, StartingInv, OrphanInv, StoppingInv, TaskSetRunning, Transition, Goto
<1>3. \A h \in Gens : RowInv(h)' /\ TaskInv(h)'
  BY DEF IInv, TypeOK, RowInv, TaskInv, TaskSetRunning, Transition, Goto
<1>4. OneActive'
  BY DEF IInv, TypeOK, OneActive, TaskSetRunning, Transition, Goto
<1>5. DownInv'
  BY DEF IInv, TypeOK, DownInv, TaskSetRunning, Transition, Goto
<1>6. AnswerIffCompleted'
  BY DEF IInv, TypeOK, AnswerIffCompleted, TaskSetRunning, Transition, Goto
<1>7. ContextIsCurrent'
  BY DEF IInv, TypeOK, ContextIsCurrent, TaskSetRunning, Transition, Goto
<1>8. NoSilentOrphan'
  BY DEF IInv, TypeOK, NoSilentOrphan, IsLive, Starting, TaskSetRunning, Transition, Goto
<1> QED
  BY <1>1, <1>2, <1>3, <1>4, <1>5, <1>6, <1>7, <1>8 DEF IInv

\* The live status follows the committed row.
LEMMA TaskAnnounceStep ==
    ASSUME IInv, NEW g \in Gens, TaskAnnounce(g)
    PROVE  IInv'
<1>1. TypeOK'
  BY DEF IInv, TypeOK, TaskState, InTry, TaskAnnounce, SetLive, Goto
<1>2. \A q \in Requests : StartingInv(q)' /\ OrphanInv(q)' /\ StoppingInv(q)'
  BY DEF IInv, TypeOK, StartingInv, OrphanInv, StoppingInv, TaskAnnounce, SetLive, Goto
<1>3. \A h \in Gens : RowInv(h)' /\ TaskInv(h)'
  BY DEF IInv, TypeOK, RowInv, TaskInv, TaskAnnounce, SetLive, Goto
<1>4. OneActive'
  BY DEF IInv, TypeOK, OneActive, TaskAnnounce, SetLive, Goto
<1>5. DownInv'
  BY DEF IInv, TypeOK, DownInv, TaskAnnounce, SetLive, Goto
<1>6. AnswerIffCompleted'
  BY DEF IInv, TypeOK, AnswerIffCompleted, TaskAnnounce, SetLive, Goto
<1>7. ContextIsCurrent'
  BY DEF IInv, TypeOK, ContextIsCurrent, TaskAnnounce, SetLive, Goto
<1>8. NoSilentOrphan'
  BY DEF IInv, TypeOK, NoSilentOrphan, IsLive, Starting, TaskAnnounce, SetLive, Goto
<1> QED
  BY <1>1, <1>2, <1>3, <1>4, <1>5, <1>6, <1>7, <1>8 DEF IInv

\* _compose reads the conversation once.
LEMMA TaskComposeStep ==
    ASSUME IInv, NEW g \in Gens, TaskCompose(g)
    PROVE  IInv'
<1>1. TypeOK'
  BY DEF IInv, TypeOK, TaskState, InTry, RowInv, TaskCompose, Goto
<1>2. \A q \in Requests : StartingInv(q)' /\ OrphanInv(q)' /\ StoppingInv(q)'
  BY DEF IInv, TypeOK, StartingInv, OrphanInv, StoppingInv, TaskCompose, Goto
<1>3. \A h \in Gens : RowInv(h)' /\ TaskInv(h)'
  BY DEF IInv, TypeOK, RowInv, TaskInv, TaskCompose, Goto
<1>4. OneActive'
  BY DEF IInv, TypeOK, OneActive, TaskCompose, Goto
<1>5. DownInv'
  BY DEF IInv, TypeOK, DownInv, TaskCompose, Goto
<1>6. AnswerIffCompleted'
  BY DEF IInv, TypeOK, AnswerIffCompleted, TaskCompose, Goto
<1>7. ContextIsCurrent'
  BY DEF IInv, TypeOK, ContextIsCurrent, TaskCompose, Goto
<1>8. NoSilentOrphan'
  BY DEF IInv, TypeOK, NoSilentOrphan, IsLive, Starting, TaskCompose, Goto
<1> QED
  BY <1>1, <1>2, <1>3, <1>4, <1>5, <1>6, <1>7, <1>8 DEF IInv

\* The provider answered with a valid document.
LEMMA TaskDecodedStep ==
    ASSUME IInv, NEW g \in Gens, TaskDecoded(g)
    PROVE  IInv'
<1>1. TypeOK'
  BY DEF IInv, TypeOK, TaskState, InTry, TaskDecoded, Goto
<1>2. \A q \in Requests : StartingInv(q)' /\ OrphanInv(q)' /\ StoppingInv(q)'
  BY DEF IInv, TypeOK, StartingInv, OrphanInv, StoppingInv, TaskDecoded, Goto
<1>3. \A h \in Gens : RowInv(h)' /\ TaskInv(h)'
  BY DEF IInv, TypeOK, RowInv, TaskInv, TaskDecoded, Goto
<1>4. OneActive'
  BY DEF IInv, TypeOK, OneActive, TaskDecoded, Goto
<1>5. DownInv'
  BY DEF IInv, TypeOK, DownInv, TaskDecoded, Goto
<1>6. AnswerIffCompleted'
  BY DEF IInv, TypeOK, AnswerIffCompleted, TaskDecoded, Goto
<1>7. ContextIsCurrent'
  BY DEF IInv, TypeOK, ContextIsCurrent, TaskDecoded, Goto
<1>8. NoSilentOrphan'
  BY DEF IInv, TypeOK, NoSilentOrphan, IsLive, Starting, TaskDecoded, Goto
<1> QED
  BY <1>1, <1>2, <1>3, <1>4, <1>5, <1>6, <1>7, <1>8 DEF IInv

\* The draft is reset and the attempt repeated, or the task fails.
LEMMA TaskProtocolErrorStep ==
    ASSUME IInv, NEW g \in Gens, TaskProtocolError(g)
    PROVE  IInv'
<1>1. TypeOK'
  BY IdsAssumption DEF IInv, TypeOK, TaskState, InTry, InHandler, TaskProtocolError, Goto
<1>2. \A q \in Requests : StartingInv(q)' /\ OrphanInv(q)' /\ StoppingInv(q)'
  BY DEF IInv, TypeOK, StartingInv, OrphanInv, StoppingInv, RequestType, TaskProtocolError,
         Goto
<1>3. \A h \in Gens : RowInv(h)' /\ TaskInv(h)'
  BY DEF IInv, TypeOK, RowInv, TaskInv, TaskProtocolError, Goto
<1>4. OneActive'
  BY DEF IInv, TypeOK, OneActive, TaskProtocolError, Goto
<1>5. DownInv'
  BY DEF IInv, TypeOK, DownInv, TaskProtocolError, Goto
<1>6. AnswerIffCompleted'
  BY DEF IInv, TypeOK, AnswerIffCompleted, TaskProtocolError, Goto
<1>7. ContextIsCurrent'
  BY DEF IInv, TypeOK, ContextIsCurrent, TaskProtocolError, Goto
<1>8. NoSilentOrphan'
  BY DEF IInv, TypeOK, NoSilentOrphan, IsLive, Starting, TaskProtocolError, Goto
<1> QED
  BY <1>1, <1>2, <1>3, <1>4, <1>5, <1>6, <1>7, <1>8 DEF IInv

\* Any other exception in the try block of _run.
LEMMA TaskErrorStep ==
    ASSUME IInv, NEW g \in Gens, TaskError(g)
    PROVE  IInv'
<1>1. TypeOK'
  BY DEF IInv, TypeOK, TaskState, InHandler, TaskError, Goto
<1>2. \A q \in Requests : StartingInv(q)' /\ OrphanInv(q)' /\ StoppingInv(q)'
  BY DEF IInv, TypeOK, StartingInv, OrphanInv, StoppingInv, RequestType, TaskError, Goto
<1>3. \A h \in Gens : RowInv(h)' /\ TaskInv(h)'
  BY DEF IInv, TypeOK, RowInv, TaskInv, TaskError, Goto
<1>4. OneActive'
  BY DEF IInv, TypeOK, OneActive, TaskError, Goto
<1>5. DownInv'
  BY DEF IInv, TypeOK, DownInv, TaskError, Goto
<1>6. AnswerIffCompleted'
  BY DEF IInv, TypeOK, AnswerIffCompleted, TaskError, Goto
<1>7. ContextIsCurrent'
  BY DEF IInv, TypeOK, ContextIsCurrent, TaskError, Goto
<1>8. NoSilentOrphan'
  BY DEF IInv, TypeOK, NoSilentOrphan, IsLive, Starting, TaskError, Goto
<1> QED
  BY <1>1, <1>2, <1>3, <1>4, <1>5, <1>6, <1>7, <1>8 DEF IInv

\* A Stop or a shutdown cancels the task.
LEMMA TaskCancelledStep ==
    ASSUME IInv, NEW g \in Gens, TaskCancelled(g)
    PROVE  IInv'
<1>1. TypeOK'
  BY DEF IInv, TypeOK, TaskState, InHandler, TaskCancelled, Goto
<1>2. \A q \in Requests : StartingInv(q)' /\ OrphanInv(q)' /\ StoppingInv(q)'
  BY DEF IInv, TypeOK, StartingInv, OrphanInv, StoppingInv, TaskCancelled, Goto, InTry
<1>3. \A h \in Gens : RowInv(h)' /\ TaskInv(h)'
  BY DEF IInv, TypeOK, RowInv, TaskInv, TaskCancelled, Goto, InTry
<1>4. OneActive'
  BY DEF IInv, TypeOK, OneActive, TaskCancelled, Goto, InTry
<1>5. DownInv'
  BY DEF IInv, TypeOK, DownInv, TaskCancelled, Goto, InTry
<1>6. AnswerIffCompleted'
  BY DEF IInv, TypeOK, AnswerIffCompleted, TaskCancelled, Goto, InTry
<1>7. ContextIsCurrent'
  BY DEF IInv, TypeOK, ContextIsCurrent, TaskCancelled, Goto, InTry
<1>8. NoSilentOrphan'
  BY DEF IInv, TypeOK, NoSilentOrphan, IsLive, Starting, TaskCancelled, Goto, InTry
<1> QED
  BY <1>1, <1>2, <1>3, <1>4, <1>5, <1>6, <1>7, <1>8 DEF IInv

\* _commit_success: the claim, the message and the row in one commit.
LEMMA TaskCommitStep ==
    ASSUME IInv, NEW g \in Gens, TaskCommit(g)
    PROVE  IInv'
<1>0. row[g].thread \in Threads /\ status[g] = "running"
  BY DEF IInv, RowInv, TaskCommit, Answered
<1>1. TypeOK'
  <2>1. /\ count' \in [Threads -> Nat] /\ answer' \in [Gens -> Nat]
    BY <1>0 DEF IInv, TypeOK, TaskCommit, Answered
  <2>2. status' \in [Gens -> Status]
    BY DEF IInv, TypeOK, TaskCommit, Answered, Transition, Status
  <2>3. /\ live' \in [Gens -> ActiveStatus \cup TerminalStatus \cup {"none"}]
        /\ task' \in [Gens -> TaskState]
    BY DEF IInv, TypeOK, TaskCommit, SetLive, Goto, TaskState, InTry
  <2> QED
    BY <2>1, <2>2, <2>3 DEF IInv, TypeOK, TaskCommit, Answered
<1>2. \A q \in Requests : StartingInv(q)' /\ OrphanInv(q)' /\ StoppingInv(q)'
  BY DEF IInv, TypeOK, StartingInv, OrphanInv, StoppingInv, TaskCommit, Answered,
         Transition, SetLive, Goto
<1>3. \A h \in Gens : RowInv(h)' /\ TaskInv(h)'
  BY DEF IInv, TypeOK, RowInv, TaskInv, TaskCommit, Answered, Transition, SetLive, Goto
<1>4. OneActive'
  BY DEF IInv, TypeOK, OneActive, TaskCommit, Answered, Transition, SetLive, Goto
<1>5. DownInv'
  BY DEF IInv, TypeOK, DownInv, TaskCommit, Answered, Transition, SetLive, Goto
<1>6. AnswerIffCompleted'
  BY DEF IInv, TypeOK, AnswerIffCompleted, RowInv, TaskCommit, Answered, Transition,
         SetLive, Goto
<1>7. ContextIsCurrent'
  BY DEF IInv, TypeOK, ContextIsCurrent, OneActive, RowInv, TaskCommit, Answered,
         Transition, SetLive, Goto
<1>8. NoSilentOrphan'
  BY DEF IInv, TypeOK, NoSilentOrphan, IsLive, Starting, TaskCommit, Answered, Transition,
         SetLive, Goto
<1> QED
  BY <1>1, <1>2, <1>3, <1>4, <1>5, <1>6, <1>7, <1>8 DEF IInv

\* The same commit, its acknowledgement lost and the write retried.
LEMMA TaskCommitUnacknowledgedStep ==
    ASSUME IInv, NEW g \in Gens, TaskCommitUnacknowledged(g)
    PROVE  IInv'
<1>1. TypeOK'
  BY IdsAssumption
     DEF IInv, TypeOK, Status, RowInv, TaskCommitUnacknowledged, Answered, Transition
<1>2. \A q \in Requests : StartingInv(q)' /\ OrphanInv(q)' /\ StoppingInv(q)'
  BY DEF IInv, TypeOK, StartingInv, OrphanInv, StoppingInv, TaskCommitUnacknowledged,
         Answered, Transition
<1>3. \A h \in Gens : RowInv(h)' /\ TaskInv(h)'
  BY DEF IInv, TypeOK, RowInv, TaskInv, TaskCommitUnacknowledged, Answered, Transition
<1>4. OneActive'
  BY DEF IInv, TypeOK, OneActive, TaskCommitUnacknowledged, Answered, Transition
<1>5. DownInv'
  BY DEF IInv, TypeOK, DownInv, TaskCommitUnacknowledged, Answered, Transition
<1>6. AnswerIffCompleted'
  BY DEF IInv, TypeOK, AnswerIffCompleted, RowInv, TaskCommitUnacknowledged, Answered,
         Transition
<1>7. ContextIsCurrent'
  BY DEF IInv, TypeOK, ContextIsCurrent, OneActive, RowInv, TaskCommitUnacknowledged,
         Answered, Transition
<1>8. NoSilentOrphan'
  BY DEF IInv, TypeOK, NoSilentOrphan, IsLive, Starting, TaskCommitUnacknowledged, Answered,
         Transition
<1> QED
  BY <1>1, <1>2, <1>3, <1>4, <1>5, <1>6, <1>7, <1>8 DEF IInv

\* The row was no longer running: nothing is written.
LEMMA TaskUnclaimedStep ==
    ASSUME IInv, NEW g \in Gens, TaskUnclaimed(g)
    PROVE  IInv'
<1>1. TypeOK'
  BY DEF IInv, TypeOK, TaskState, InTry, TaskUnclaimed, Goto
<1>2. \A q \in Requests : StartingInv(q)' /\ OrphanInv(q)' /\ StoppingInv(q)'
  BY DEF IInv, TypeOK, StartingInv, OrphanInv, StoppingInv, TaskUnclaimed, Goto
<1>3. \A h \in Gens : RowInv(h)' /\ TaskInv(h)'
  BY DEF IInv, TypeOK, RowInv, TaskInv, TaskUnclaimed, Goto
<1>4. OneActive'
  BY DEF IInv, TypeOK, OneActive, TaskUnclaimed, Goto
<1>5. DownInv'
  BY DEF IInv, TypeOK, DownInv, TaskUnclaimed, Goto
<1>6. AnswerIffCompleted'
  BY DEF IInv, TypeOK, AnswerIffCompleted, TaskUnclaimed, Goto
<1>7. ContextIsCurrent'
  BY DEF IInv, TypeOK, ContextIsCurrent, TaskUnclaimed, Goto
<1>8. NoSilentOrphan'
  BY DEF IInv, TypeOK, NoSilentOrphan, IsLive, Starting, TaskUnclaimed, Goto
<1> QED
  BY <1>1, <1>2, <1>3, <1>4, <1>5, <1>6, <1>7, <1>8 DEF IInv

\* _finish_stopped.
LEMMA TaskFinishStoppedStep ==
    ASSUME IInv, NEW g \in Gens, TaskFinishStopped(g)
    PROVE  IInv'
<1>1. TypeOK'
  BY IdsAssumption
     DEF IInv, TypeOK, TaskState, Status, TaskFinishStopped, Transition, EndTask
<1>2. \A q \in Requests : StartingInv(q)' /\ OrphanInv(q)' /\ StoppingInv(q)'
  BY DEF IInv, TypeOK, StartingInv, OrphanInv, StoppingInv, TaskFinishStopped, Transition,
         EndTask
<1>3. \A h \in Gens : RowInv(h)' /\ TaskInv(h)'
  BY DEF IInv, TypeOK, RowInv, TaskInv, TaskFinishStopped, Transition, EndTask
<1>4. OneActive'
  BY DEF IInv, TypeOK, OneActive, TaskFinishStopped, Transition, EndTask
<1>5. DownInv'
  BY DEF IInv, TypeOK, DownInv, TaskFinishStopped, Transition, EndTask
<1>6. AnswerIffCompleted'
  BY DEF IInv, TypeOK, AnswerIffCompleted, TaskFinishStopped, Transition, EndTask
<1>7. ContextIsCurrent'
  BY DEF IInv, TypeOK, ContextIsCurrent, TaskFinishStopped, Transition, EndTask
<1>8. NoSilentOrphan'
  BY DEF IInv, TypeOK, NoSilentOrphan, IsLive, Starting, TaskFinishStopped, Transition,
         EndTask
<1> QED
  BY <1>1, <1>2, <1>3, <1>4, <1>5, <1>6, <1>7, <1>8 DEF IInv

\* _fail.
LEMMA TaskFailStep ==
    ASSUME IInv, NEW g \in Gens, TaskFail(g)
    PROVE  IInv'
<1>1. TypeOK'
  BY IdsAssumption DEF IInv, TypeOK, TaskState, Status, TaskFail, Transition, EndTask
<1>2. \A q \in Requests : StartingInv(q)' /\ OrphanInv(q)' /\ StoppingInv(q)'
  BY DEF IInv, TypeOK, StartingInv, OrphanInv, StoppingInv, TaskFail, Transition, EndTask
<1>3. \A h \in Gens : RowInv(h)' /\ TaskInv(h)'
  BY DEF IInv, TypeOK, RowInv, TaskInv, TaskFail, Transition, EndTask
<1>4. OneActive'
  BY DEF IInv, TypeOK, OneActive, TaskFail, Transition, EndTask
<1>5. DownInv'
  BY DEF IInv, TypeOK, DownInv, TaskFail, Transition, EndTask
<1>6. AnswerIffCompleted'
  BY DEF IInv, TypeOK, AnswerIffCompleted, TaskFail, Transition, EndTask
<1>7. ContextIsCurrent'
  BY DEF IInv, TypeOK, ContextIsCurrent, TaskFail, Transition, EndTask
<1>8. NoSilentOrphan'
  BY DEF IInv, TypeOK, NoSilentOrphan, IsLive, Starting, TaskFail, Transition, EndTask
<1> QED
  BY <1>1, <1>2, <1>3, <1>4, <1>5, <1>6, <1>7, <1>8 DEF IInv

\* The title is made after the answer; the task ends.
LEMMA TaskTitleStep ==
    ASSUME IInv, NEW g \in Gens, TaskTitle(g)
    PROVE  IInv'
<1>1. TypeOK'
  BY IdsAssumption DEF IInv, TypeOK, TaskState, TaskTitle, EndTask
<1>2. \A q \in Requests : StartingInv(q)' /\ OrphanInv(q)' /\ StoppingInv(q)'
  BY DEF IInv, TypeOK, StartingInv, OrphanInv, StoppingInv, TaskTitle, EndTask
<1>3. \A h \in Gens : RowInv(h)' /\ TaskInv(h)'
  BY DEF IInv, TypeOK, RowInv, TaskInv, TaskTitle, EndTask
<1>4. OneActive'
  BY DEF IInv, TypeOK, OneActive, TaskTitle, EndTask
<1>5. DownInv'
  BY DEF IInv, TypeOK, DownInv, TaskTitle, EndTask
<1>6. AnswerIffCompleted'
  BY DEF IInv, TypeOK, AnswerIffCompleted, TaskTitle, EndTask
<1>7. ContextIsCurrent'
  BY DEF IInv, TypeOK, ContextIsCurrent, TaskTitle, EndTask
<1>8. NoSilentOrphan'
  BY DEF IInv, TypeOK, NoSilentOrphan, IsLive, Starting, TaskInv, TaskTitle, EndTask
<1> QED
  BY <1>1, <1>2, <1>3, <1>4, <1>5, <1>6, <1>7, <1>8 DEF IInv

\* The terminal write fails for good.
LEMMA TaskWriteFailsStep ==
    ASSUME IInv, NEW g \in Gens, TaskWriteFails(g)
    PROVE  IInv'
<1>1. TypeOK'
  BY IdsAssumption DEF IInv, TypeOK, TaskState, InHandler, TaskWriteFails, EndTask, Goto
<1>2. \A q \in Requests : StartingInv(q)' /\ OrphanInv(q)' /\ StoppingInv(q)'
  BY DEF IInv, TypeOK, StartingInv, OrphanInv, StoppingInv, RequestType, TaskWriteFails,
         EndTask, Goto, InHandler
<1>3. \A h \in Gens : RowInv(h)' /\ TaskInv(h)'
  BY DEF IInv, TypeOK, RowInv, TaskInv, TaskWriteFails, EndTask, Goto, InHandler
<1>4. OneActive'
  BY DEF IInv, TypeOK, OneActive, TaskWriteFails, EndTask, Goto, InHandler
<1>5. DownInv'
  BY DEF IInv, TypeOK, DownInv, TaskWriteFails, EndTask, Goto, InHandler
<1>6. AnswerIffCompleted'
  BY DEF IInv, TypeOK, AnswerIffCompleted, TaskWriteFails, EndTask, Goto, InHandler
<1>7. ContextIsCurrent'
  BY DEF IInv, TypeOK, ContextIsCurrent, TaskWriteFails, EndTask, Goto, InHandler
<1>8. NoSilentOrphan'
  BY DEF IInv, TypeOK, NoSilentOrphan, IsLive, Starting, TaskWriteFails, EndTask, Goto,
         InHandler
<1> QED
  BY <1>1, <1>2, <1>3, <1>4, <1>5, <1>6, <1>7, <1>8 DEF IInv

\* The insert of a new generation, orphans of its conversation settled.
LEMMA CommitStep ==
    ASSUME IInv, NEW r \in Requests, Commit(r)
    PROVE  IInv'
<1> DEFINE q == req[r]
           orphans == q.toStop \cup q.toFail
<1>1. /\ q \in RequestType /\ q.pc = "checked" /\ q.gen \in Gens /\ q.thread \in Threads
      /\ q.key \in Keys /\ q.kind \in {"turn", "handoff", "retry"}
      /\ status[q.gen] = "unused" /\ task[q.gen] = "none" /\ answer[q.gen] = 0
      /\ q.gen \notin orphans
  BY DEF IInv, TypeOK, StartingInv, OrphanInv, RowInv, Commit
\* Outside the new row only orphans move, and only to their end.
<1>2. \A h \in Gens : h # q.gen =>
          \/ status'[h] = status[h]
          \/ h \in orphans /\ status[h] = "stopping" /\ status'[h] = "stopped"
          \/ h \in orphans /\ status[h] \in {"queued", "running"} /\ status'[h] = "failed"
  BY <1>1 DEF Commit, Finalized
<1>3. status' \in [Gens -> Status] /\ status'[q.gen] = "queued"
  BY <1>1 DEF Commit, Finalized, IInv, TypeOK, Status
\* The unique index: no other row of the thread is active afterwards.
<1>4. \A h \in Gens : h # q.gen /\ status'[h] \in ActiveStatus => row[h].thread # q.thread
  <2> SUFFICES ASSUME NEW h \in Gens, h # q.gen, status'[h] \in ActiveStatus,
                      row[h].thread = q.thread
               PROVE  FALSE
    OBVIOUS
  <2>1. h \in RowsOf(q.thread)
    BY <1>2 DEF RowsOf
  <2>2. Finalized(q)[h] \notin ActiveStatus
    BY <2>1 DEF Commit, Insertable
  <2>3. Finalized(q)[h] = status'[h]
    BY <1>1 DEF Commit, Finalized
  <2> QED
    BY <2>2, <2>3
<1>5. /\ row' \in [Gens -> RowType] /\ row'[q.gen].thread = q.thread
      /\ \A h \in Gens : h # q.gen => row'[h] = row[h]
  BY <1>1 DEF Commit, IInv, TypeOK, RequestType, RowType
<1>6. /\ req' \in [Requests -> RequestType]
      /\ req'[r].pc = "committed" /\ req'[r].gen = q.gen /\ req'[r].thread = q.thread
      /\ req'[r].key = q.key /\ req'[r].kind = q.kind
      /\ \A p \in Requests : p # r => req'[p] = req[p]
  BY <1>1 DEF Commit, IInv, TypeOK, RequestType
<1>7. /\ threadState' \in [Threads -> {"none", "open", "deleted"}]
      /\ threadState'[q.thread] = "open"
      /\ \A t \in Threads : t # q.thread => threadState'[t] = threadState[t]
      /\ count' \in [Threads -> Nat]
      /\ \A t \in Threads : t # q.thread => count'[t] = count[t]
      /\ latest' \in [Threads -> Gens \cup {None}]
  BY <1>1 DEF Commit, IInv, TypeOK
<1>8. /\ answer' = answer /\ fatal' = fatal /\ process' = process /\ memory' = memory
      /\ bounds' = bounds /\ abandoned' = abandoned \ orphans
  BY DEF Commit
<1>9. TypeOK'
  BY <1>3, <1>5, <1>6, <1>7, <1>8 DEF IInv, TypeOK
<1>10. \A p \in Requests : StartingInv(p)' /\ OrphanInv(p)' /\ StoppingInv(p)'
  <2> SUFFICES ASSUME NEW p \in Requests
               PROVE  StartingInv(p)' /\ OrphanInv(p)' /\ StoppingInv(p)'
    OBVIOUS
  <2>1. \A o \in Requests : IsStarting(o)' <=> IsStarting(o)
    BY <1>1, <1>6
  <2>2. \A o \in Requests : req'[o].gen = req[o].gen
    BY <1>6
  <2>3. StartingInv(p)'
    BY <1>1, <1>2, <1>3, <1>6, <1>8 DEF IInv, StartingInv, OrphanInv
  <2>4. OrphanInv(p)'
    <3> SUFFICES ASSUME req'[p].pc = "checked",
                        NEW h \in req'[p].toStop \cup req'[p].toFail
                 PROVE  /\ row'[h].thread = req'[p].thread
                        /\ status'[h] # "unused" /\ task'[h] = "none"
                        /\ \A o \in Requests : IsStarting(o)' => req'[o].gen # h
      BY DEF OrphanInv
    <3>1. p # r /\ req'[p] = req[p] /\ req[p] \in RequestType
      BY <1>6 DEF IInv, TypeOK
    <3>2. h \in Gens /\ h # q.gen
      BY <1>1, <3>1 DEF IInv, OrphanInv, RequestType
    <3> QED
      BY <1>2, <1>5, <1>8, <2>1, <2>2, <3>1, <3>2 DEF IInv, OrphanInv
  <2>5. StoppingInv(p)'
    <3>1. CASE p = r
      BY <1>1, <1>6, <3>1 DEF StoppingInv
    <3>2. CASE p # r
      BY <1>1, <1>2, <1>6, <1>8 DEF IInv, StoppingInv
    <3> QED
      BY <3>1, <3>2
  <2> QED
    BY <2>3, <2>4, <2>5
<1>11. \A h \in Gens : RowInv(h)'
  BY <1>1, <1>2, <1>3, <1>5, <1>7, <1>8 DEF IInv, RowInv
<1>12. \A h \in Gens : TaskInv(h)'
  <2> SUFFICES ASSUME NEW h \in Gens
               PROVE  TaskInv(h)'
    OBVIOUS
  <2>1. /\ task'[h] = task[h] /\ live'[h] = live[h] /\ cancel' = cancel /\ process' = process
    BY <1>8
  <2>2. CASE h = q.gen
    BY <1>1, <2>1, <2>2 DEF IInv, TaskInv
  <2>3. CASE h # q.gen
    BY <1>1, <1>2, <2>1 DEF IInv, TaskInv, OrphanInv
  <2> QED
    BY <2>2, <2>3
<1>13. OneActive'
  BY <1>2, <1>4, <1>5 DEF IInv, OneActive
<1>14. DownInv'
  BY <1>1, <1>8, IdleFacts DEF IInv, DownInv
<1>15. AnswerIffCompleted'
  BY <1>1, <1>2, <1>3, <1>5, <1>8 DEF IInv, AnswerIffCompleted
<1>16. ContextIsCurrent'
  BY <1>1, <1>2, <1>4, <1>5, <1>7, <1>8 DEF IInv, ContextIsCurrent, RowInv
<1>17. NoSilentOrphan'
  BY <1>1, <1>2, <1>4, <1>6, <1>8 DEF IInv, NoSilentOrphan, OrphanInv, IsLive, Starting
<1> QED
  BY <1>9, <1>10, <1>11, <1>12, <1>13, <1>14, <1>15, <1>16, <1>17 DEF IInv

\* The insert is refused by a constraint.
LEMMA RejectStep ==
    ASSUME IInv, NEW r \in Requests, Reject(r)
    PROVE  IInv'
<1>1. TypeOK'
  BY DEF IInv, TypeOK, RequestType, Idle, Reject
<1>2. \A q \in Requests : StartingInv(q)' /\ OrphanInv(q)' /\ StoppingInv(q)'
  BY DEF IInv, TypeOK, StartingInv, OrphanInv, StoppingInv, Idle, Reject
<1>3. \A h \in Gens : RowInv(h)' /\ TaskInv(h)'
  BY DEF IInv, TypeOK, RowInv, TaskInv, Reject
<1>4. OneActive'
  BY DEF IInv, TypeOK, OneActive, Reject
<1>5. DownInv'
  BY DEF IInv, TypeOK, DownInv, Reject
<1>6. AnswerIffCompleted'
  BY DEF IInv, TypeOK, AnswerIffCompleted, Reject
<1>7. ContextIsCurrent'
  BY DEF IInv, TypeOK, ContextIsCurrent, Reject
<1>8. NoSilentOrphan'
  BY DEF IInv, TypeOK, NoSilentOrphan, IsLive, Starting, StartingInv, Reject
<1> QED
  BY <1>1, <1>2, <1>3, <1>4, <1>5, <1>6, <1>7, <1>8 DEF IInv

\* The committed row gets its task.
LEMMA ScheduleStep ==
    ASSUME IInv, NEW r \in Requests, Schedule(r)
    PROVE  IInv'
<1>1. TypeOK'
  BY DEF IInv, TypeOK, RequestType, TaskState, InTry, Idle, Schedule
<1>2. \A q \in Requests : StartingInv(q)' /\ OrphanInv(q)' /\ StoppingInv(q)'
  BY DEF IInv, TypeOK, StartingInv, OrphanInv, StoppingInv, Idle, Schedule
<1>3. \A h \in Gens : RowInv(h)' /\ TaskInv(h)'
  BY DEF IInv, TypeOK, RowInv, TaskInv, StartingInv, Schedule
<1>4. OneActive'
  BY DEF IInv, TypeOK, OneActive, Schedule
<1>5. DownInv'
  BY DEF IInv, TypeOK, DownInv, Idle, Schedule
<1>6. AnswerIffCompleted'
  BY DEF IInv, TypeOK, AnswerIffCompleted, Schedule
<1>7. ContextIsCurrent'
  BY DEF IInv, TypeOK, ContextIsCurrent, Schedule
<1>8. NoSilentOrphan'
  BY DEF IInv, TypeOK, NoSilentOrphan, IsLive, Starting, Schedule
<1> QED
  BY <1>1, <1>2, <1>3, <1>4, <1>5, <1>6, <1>7, <1>8 DEF IInv

\* The commit took effect, the request ends with an error: the row is left
\* without a task, and is counted as abandoned.
LEMMA CommitUnacknowledgedStep ==
    ASSUME IInv, NEW r \in Requests, CommitUnacknowledged(r)
    PROVE  IInv'
<1>1. TypeOK'
  BY IdsAssumption
     DEF IInv, TypeOK, RequestType, Idle, StartingInv, CommitUnacknowledged
<1>2. \A q \in Requests : StartingInv(q)' /\ OrphanInv(q)' /\ StoppingInv(q)'
  BY DEF IInv, TypeOK, StartingInv, OrphanInv, StoppingInv, Idle, CommitUnacknowledged
<1>3. \A h \in Gens : RowInv(h)' /\ TaskInv(h)'
  BY DEF IInv, TypeOK, RowInv, TaskInv, CommitUnacknowledged
<1>4. OneActive'
  BY DEF IInv, TypeOK, OneActive, CommitUnacknowledged
<1>5. DownInv'
  BY DEF IInv, TypeOK, DownInv, Idle, CommitUnacknowledged
<1>6. AnswerIffCompleted'
  BY DEF IInv, TypeOK, AnswerIffCompleted, CommitUnacknowledged
<1>7. ContextIsCurrent'
  BY DEF IInv, TypeOK, ContextIsCurrent, CommitUnacknowledged
<1>8. NoSilentOrphan'
  BY DEF IInv, TypeOK, NoSilentOrphan, IsLive, Starting, CommitUnacknowledged
<1> QED
  BY <1>1, <1>2, <1>3, <1>4, <1>5, <1>6, <1>7, <1>8 DEF IInv

\* The first write of stop.
LEMMA StopWriteStep ==
    ASSUME IInv, NEW r \in Requests, StopWrite(r)
    PROVE  IInv'
<1>a. req[r] \in RequestType
  BY DEF IInv, TypeOK
<1>b. /\ req'[r] = IF Active(req[r].gen) THEN [req[r] EXCEPT !.pc = "signal"]
                    ELSE IF Exists(req[r].gen) THEN AfterStop(req[r]) ELSE Idle
      /\ req' = [req EXCEPT ![r] = req'[r]]
  BY DEF IInv, TypeOK, StopWrite
<1>0. /\ req' \in [Requests -> RequestType]
      /\ \A q \in Requests : q # r => req'[q] = req[q]
      /\ (req'[r].kind = "delete" \/ req'[r].pc = "remove") =>
             req[r].kind = "delete" /\ req'[r].thread = req[r].thread
      /\ \/ req'[r].pc \in {"idle", "remove"}
         \/ req'[r].pc = "signal" /\ req'[r].gen = req[r].gen
  <2>1. /\ req'[r] \in RequestType
        /\ (req'[r].kind = "delete" \/ req'[r].pc = "remove") =>
             req[r].kind = "delete" /\ req'[r].thread = req[r].thread
        /\ \/ req'[r].pc \in {"idle", "remove"}
           \/ req'[r].pc = "signal" /\ req'[r].gen = req[r].gen
    <3> DEFINE p == [req[r] EXCEPT !.pc = "signal"]
    <3>1. /\ p \in RequestType /\ p.pc = "signal" /\ p.gen = req[r].gen
          /\ p.kind = req[r].kind /\ p.thread = req[r].thread
      BY <1>a DEF RequestType
    <3>2. /\ AfterStop(req[r]) \in RequestType
          /\ AfterStop(req[r]).pc \in {"idle", "remove"}
          /\ (AfterStop(req[r]).kind = "delete" \/ AfterStop(req[r]).pc = "remove") =>
                 req[r].kind = "delete" /\ AfterStop(req[r]).thread = req[r].thread
      BY <1>a, AfterStopFacts
    <3>3. req'[r] \in {p, AfterStop(req[r]), Idle}
      BY <1>b
    <3> HIDE DEF p
    <3> QED
      BY <3>1, <3>2, <3>3, IdleFacts
  <2> QED
    BY <1>b, <2>1 DEF IInv, TypeOK
<1>1. TypeOK'
  BY <1>0 DEF IInv, TypeOK, Status, StopWrite, Transition
<1>c. \A h \in Gens : \/ status'[h] = status[h]
                      \/ status[h] \in {"queued", "running"} /\ status'[h] = "stopping"
  <2>1. status' = IF status[req[r].gen] \in {"queued", "running"}
                  THEN [status EXCEPT ![req[r].gen] = "stopping"] ELSE status
    BY DEF StopWrite, Transition
  <2>2. status \in [Gens -> Status]
    BY DEF IInv, TypeOK
  <2> QED
    BY <2>1, <2>2
<1>d. UNCHANGED <<row, task>> /\ \A q \in Requests : IsStarting(q)' => q # r /\ IsStarting(q)
  BY <1>0 DEF StopWrite
<1>2. \A q \in Requests : StartingInv(q)' /\ OrphanInv(q)' /\ StoppingInv(q)'
  <2> SUFFICES ASSUME NEW q \in Requests
               PROVE  StartingInv(q)' /\ OrphanInv(q)' /\ StoppingInv(q)'
    OBVIOUS
  <2>1. StartingInv(q) /\ OrphanInv(q) /\ StoppingInv(q) /\ q \in Requests
    BY DEF IInv
  <2>2. CASE q = r
    <3>1. StartingInv(q)' /\ OrphanInv(q)'
      BY <1>0, <2>2 DEF StartingInv, OrphanInv
    <3>2. req[r].pc = "stop" /\ req[r].gen \in Gens /\ status[req[r].gen] # "unused"
      BY <2>1, <2>2 DEF StoppingInv, StopWrite
    <3>3. status'[req[r].gen] \notin {"queued", "running", "unused"}
      BY <3>2 DEF IInv, TypeOK, StopWrite, Transition
    <3>4. StoppingInv(q)'
      BY <1>0, <2>1, <2>2, <3>2, <3>3 DEF StoppingInv
    <3> QED
      BY <3>1, <3>4
  <2>3. CASE q # r
    <3>1. req'[q] = req[q]
      BY <1>0, <2>3
    <3>2. StartingInv(q)'
      BY <1>0, <1>c, <1>d, <2>1 DEF StartingInv
    <3>3. OrphanInv(q)'
      BY <1>0, <1>c, <1>d DEF OrphanInv, IInv, TypeOK, RequestType
    <3>4. StoppingInv(q)'
      BY <1>0, <1>c, <1>d, <2>1, <3>1 DEF StoppingInv
    <3> QED
      BY <3>2, <3>3, <3>4
  <2> QED
    BY <2>2, <2>3
<1>3. \A h \in Gens : RowInv(h)' /\ TaskInv(h)'
  BY DEF IInv, TypeOK, RowInv, TaskInv, StopWrite, Transition
<1>4. OneActive'
  BY DEF IInv, TypeOK, OneActive, StopWrite, Transition
<1>5. DownInv'
  BY DEF IInv, TypeOK, DownInv, Idle, StopWrite, Transition
<1>6. AnswerIffCompleted'
  BY DEF IInv, TypeOK, AnswerIffCompleted, StopWrite, Transition
<1>7. ContextIsCurrent'
  BY DEF IInv, TypeOK, ContextIsCurrent, StopWrite, Transition
<1>8. NoSilentOrphan'
  BY DEF IInv, TypeOK, NoSilentOrphan, IsLive, Starting, StopWrite, Transition
<1> QED
  BY <1>1, <1>2, <1>3, <1>4, <1>5, <1>6, <1>7, <1>8 DEF IInv

\* stop cancels the live task, or goes on to finish the row itself.
LEMMA StopSignalStep ==
    ASSUME IInv, NEW r \in Requests, StopSignal(r)
    PROVE  IInv'
<1>a. req[r] \in RequestType
  BY DEF IInv, TypeOK
<1>b. /\ req'[r] = IF IsLive(req[r].gen) THEN AfterStop(req[r])
                    ELSE [req[r] EXCEPT !.pc = "finish"]
      /\ req' = [req EXCEPT ![r] = req'[r]]
  BY DEF IInv, TypeOK, StopSignal
<1>0. /\ req' \in [Requests -> RequestType]
      /\ \A q \in Requests : q # r => req'[q] = req[q]
      /\ (req'[r].kind = "delete" \/ req'[r].pc = "remove") =>
             req[r].kind = "delete" /\ req'[r].thread = req[r].thread
      /\ \/ req'[r].pc \in {"idle", "remove"}
         \/ req'[r].pc = "finish" /\ req'[r].gen = req[r].gen
  <2>1. /\ req'[r] \in RequestType
        /\ (req'[r].kind = "delete" \/ req'[r].pc = "remove") =>
             req[r].kind = "delete" /\ req'[r].thread = req[r].thread
        /\ \/ req'[r].pc \in {"idle", "remove"}
           \/ req'[r].pc = "finish" /\ req'[r].gen = req[r].gen
    <3> DEFINE p == [req[r] EXCEPT !.pc = "finish"]
    <3>1. /\ p \in RequestType /\ p.pc = "finish" /\ p.gen = req[r].gen
          /\ p.kind = req[r].kind /\ p.thread = req[r].thread
      BY <1>a DEF RequestType
    <3>2. /\ AfterStop(req[r]) \in RequestType
          /\ AfterStop(req[r]).pc \in {"idle", "remove"}
          /\ (AfterStop(req[r]).kind = "delete" \/ AfterStop(req[r]).pc = "remove") =>
                 req[r].kind = "delete" /\ AfterStop(req[r]).thread = req[r].thread
      BY <1>a, AfterStopFacts
    <3>3. req'[r] \in {p, AfterStop(req[r]), Idle}
      BY <1>b
    <3> HIDE DEF p
    <3> QED
      BY <3>1, <3>2, <3>3, IdleFacts
  <2> QED
    BY <1>b, <2>1 DEF IInv, TypeOK
<1>c. req[r].gen \in Gens /\ status[req[r].gen] # "unused" /\ ~Unclaimed(req[r].gen)
  BY DEF IInv, StoppingInv, StopSignal
<1>1. TypeOK'
  BY <1>0, <1>c DEF IInv, TypeOK, StopSignal, SetLive
<1>d. UNCHANGED <<row, task, status>> /\ \A q \in Requests : IsStarting(q)' => q # r /\ IsStarting(q)
  BY <1>0 DEF StopSignal
<1>e. req'[r].pc = "finish" => /\ task[req[r].gen] = "none"
                               /\ \A q \in Requests : IsStarting(q) => req[q].gen # req[r].gen
  <2>1. req'[r].pc = "finish" => ~IsLive(req[r].gen)
    BY <1>a, <1>b, AfterStopFacts
  <2> QED
    BY <2>1 DEF IsLive, Starting
<1>2. \A q \in Requests : StartingInv(q)' /\ OrphanInv(q)' /\ StoppingInv(q)'
  <2>1. \A q \in Requests : StartingInv(q)'
    BY <1>0, <1>d DEF IInv, StartingInv
  <2>2. \A q \in Requests : OrphanInv(q)'
    BY <1>0, <1>d DEF IInv, TypeOK, OrphanInv
  <2>3. \A q \in Requests : StoppingInv(q)'
    BY <1>0, <1>c, <1>d, <1>e DEF IInv, StoppingInv
  <2> QED
    BY <2>1, <2>2, <2>3
<1>3. \A h \in Gens : RowInv(h)' /\ TaskInv(h)'
  BY DEF IInv, TypeOK, RowInv, TaskInv, StoppingInv, StopSignal, SetLive, IsLive, Starting
<1>4. OneActive'
  BY DEF IInv, TypeOK, OneActive, StopSignal, SetLive, IsLive, Starting
<1>5. DownInv'
  BY DEF IInv, TypeOK, DownInv, Idle, StopSignal, SetLive, IsLive, Starting
<1>6. AnswerIffCompleted'
  BY DEF IInv, TypeOK, AnswerIffCompleted, StopSignal, SetLive, IsLive, Starting
<1>7. ContextIsCurrent'
  BY DEF IInv, TypeOK, ContextIsCurrent, StopSignal, SetLive, IsLive, Starting
<1>8. NoSilentOrphan'
  BY DEF IInv, TypeOK, NoSilentOrphan, IsLive, Starting, StopSignal, SetLive
<1> QED
  BY <1>1, <1>2, <1>3, <1>4, <1>5, <1>6, <1>7, <1>8 DEF IInv

\* stop finishes a row that has no task.
LEMMA StopFinishStep ==
    ASSUME IInv, NEW r \in Requests, StopFinish(r)
    PROVE  IInv'
<1>a. req[r] \in RequestType
  BY DEF IInv, TypeOK
<1>0. /\ req' \in [Requests -> RequestType]
      /\ \A q \in Requests : q # r => req'[q] = req[q]
      /\ (req'[r].kind = "delete" \/ req'[r].pc = "remove") => req[r].kind = "delete" /\ req'[r].thread = req[r].thread
      /\ req'[r].pc \in {"idle", "remove"}
  BY AfterStopFacts DEF IInv, TypeOK, RequestType, StopFinish
<1>1. TypeOK'
  BY <1>0 DEF IInv, TypeOK, Status, StopFinish, Transition, SetLive
<1>c. /\ req[r].gen \in Gens /\ ~Unclaimed(req[r].gen) /\ task[req[r].gen] = "none"
      /\ \A q \in Requests : IsStarting(q) => req[q].gen # req[r].gen
  BY DEF IInv, StoppingInv, StopFinish
<1>d. \A h \in Gens : \/ status'[h] = status[h]
                      \/ h = req[r].gen /\ status[h] = "stopping" /\ status'[h] = "stopped"
  <2>1. status' = IF status[req[r].gen] \in ActiveStatus
                  THEN [status EXCEPT ![req[r].gen] = "stopped"] ELSE status
    BY DEF StopFinish, Transition
  <2>2. status \in [Gens -> Status]
    BY DEF IInv, TypeOK
  <2> QED
    BY <1>c, <2>1, <2>2
<1>e. UNCHANGED <<row, task, process, cancel, answer, threadState>>
      /\ \A q \in Requests : IsStarting(q)' => q # r /\ IsStarting(q)
  BY <1>0 DEF StopFinish
<1>2. \A q \in Requests : StartingInv(q)' /\ OrphanInv(q)' /\ StoppingInv(q)'
  <2>1. \A q \in Requests : StartingInv(q)'
    BY <1>0, <1>c, <1>d, <1>e DEF IInv, StartingInv
  <2>2. \A q \in Requests : OrphanInv(q)'
    BY <1>0, <1>d, <1>e DEF IInv, TypeOK, RequestType, OrphanInv
  <2>3. \A q \in Requests : StoppingInv(q)'
    BY <1>0, <1>d, <1>e DEF IInv, StoppingInv
  <2> QED
    BY <2>1, <2>2, <2>3
<1>f. live' = live
  BY <1>c DEF IInv, TaskInv, StopFinish, SetLive
<1>3. \A h \in Gens : RowInv(h)' /\ TaskInv(h)'
  BY <1>c, <1>d, <1>e, <1>f DEF IInv, RowInv, TaskInv
<1>4. OneActive'
  BY DEF IInv, TypeOK, OneActive, StopFinish, Transition, SetLive
<1>5. DownInv'
  BY DEF IInv, TypeOK, DownInv, Idle, StopFinish, Transition, SetLive
<1>6. AnswerIffCompleted'
  BY DEF IInv, TypeOK, AnswerIffCompleted, StopFinish, Transition, SetLive
<1>7. ContextIsCurrent'
  BY DEF IInv, TypeOK, ContextIsCurrent, StopFinish, Transition, SetLive
<1>8. NoSilentOrphan'
  BY DEF IInv, TypeOK, NoSilentOrphan, IsLive, Starting, StopFinish, Transition, SetLive
<1> QED
  BY <1>1, <1>2, <1>3, <1>4, <1>5, <1>6, <1>7, <1>8 DEF IInv

\* A request ends with an error.
LEMMA RequestFailsStep ==
    ASSUME IInv, NEW r \in Requests, RequestFails(r)
    PROVE  IInv'
<1>1. TypeOK'
  BY IdsAssumption DEF IInv, TypeOK, RequestType, Idle, RequestFails
<1>2. \A q \in Requests : StartingInv(q)' /\ OrphanInv(q)' /\ StoppingInv(q)'
  BY DEF IInv, TypeOK, StartingInv, OrphanInv, StoppingInv, Idle, RequestFails
<1>3. \A h \in Gens : RowInv(h)' /\ TaskInv(h)'
  BY DEF IInv, TypeOK, RowInv, TaskInv, RequestFails
<1>4. OneActive'
  BY DEF IInv, TypeOK, OneActive, RequestFails
<1>5. DownInv'
  BY DEF IInv, TypeOK, DownInv, RequestFails
<1>6. AnswerIffCompleted'
  BY DEF IInv, TypeOK, AnswerIffCompleted, RequestFails
<1>7. ContextIsCurrent'
  BY DEF IInv, TypeOK, ContextIsCurrent, RequestFails
<1>8. NoSilentOrphan'
  BY DEF IInv, TypeOK, NoSilentOrphan, IsLive, Starting, RequestFails
<1> QED
  BY <1>1, <1>2, <1>3, <1>4, <1>5, <1>6, <1>7, <1>8 DEF IInv

\* The conversation and its rows are deleted.
LEMMA RemoveThreadStep ==
    ASSUME IInv, NEW r \in Requests, RemoveThread(r)
    PROVE  IInv'
<1>1. TypeOK'
  BY DEF IInv, TypeOK, RequestType, Status, Idle, RemoveThread, RowsOf
<1>2. \A q \in Requests : StartingInv(q)' /\ OrphanInv(q)' /\ StoppingInv(q)'
  BY <1>1
     DEF IInv, TypeOK, StartingInv, OrphanInv, StoppingInv, RequestType, Idle, RowInv,
         RemoveThread, RowsOf
<1>3. \A h \in Gens : RowInv(h)' /\ TaskInv(h)'
  BY DEF IInv, TypeOK, RowInv, TaskInv, RemoveThread, RowsOf
<1>4. OneActive'
  BY DEF IInv, TypeOK, OneActive, RemoveThread, RowsOf
<1>5. DownInv'
  BY DEF IInv, TypeOK, DownInv, RemoveThread, RowsOf
<1>6. AnswerIffCompleted'
  BY DEF IInv, TypeOK, AnswerIffCompleted, RemoveThread, RowsOf
<1>7. ContextIsCurrent'
  BY DEF IInv, TypeOK, ContextIsCurrent, RemoveThread, RowsOf
<1>8. NoSilentOrphan'
  BY DEF IInv, TypeOK, NoSilentOrphan, IsLive, Starting, RemoveThread, RowsOf
<1> QED
  BY <1>1, <1>2, <1>3, <1>4, <1>5, <1>6, <1>7, <1>8 DEF IInv

\* What the three ways to start a generation have in common.
LEMMA CheckStep ==
    ASSUME IInv, NEW r \in Requests, NEW kind \in {"turn", "handoff", "retry"},
           NEW t \in Threads, NEW turn \in Gens \cup {None}, NEW k \in Keys,
           Check(r, kind, t, turn, k)
    PROVE  IInv'
<1>1. PICK g \in {h \in Gens : status[h] = "unused"} \ Starting :
        req' = [req EXCEPT ![r] =
                   [kind |-> kind, pc |-> "checked", gen |-> g, thread |-> t,
                    turn |-> (IF kind = "turn" THEN g ELSE turn), key |-> k,
                    toStop |-> Orphans(t, {"stopping"}),
                    toFail |-> Orphans(t, {"queued", "running"})]]
  BY DEF Check
<1>2. /\ \A h \in Orphans(t, {"stopping"}) \cup Orphans(t, {"queued", "running"}) :
             /\ h \in Gens /\ row[h].thread = t /\ status[h] # "unused"
             /\ task[h] = "none" /\ h \notin Starting
  BY DEF Orphans, RowsOf, IsLive
<1>3. /\ req' \in [Requests -> RequestType]
      /\ req'[r].pc = "checked" /\ req'[r].gen = g /\ req'[r].thread = t /\ req'[r].key = k
      /\ req'[r].kind = kind
      /\ req'[r].toStop = Orphans(t, {"stopping"})
      /\ req'[r].toFail = Orphans(t, {"queued", "running"})
      /\ \A p \in Requests : p # r => req'[p] = req[p]
  <2>1. /\ Orphans(t, {"stopping"}) \in SUBSET Gens
        /\ Orphans(t, {"queued", "running"}) \in SUBSET Gens
    BY DEF Orphans, RowsOf
  <2> QED
    BY <1>1, <2>1 DEF IInv, TypeOK, RequestType
<1>4. /\ UNCHANGED <<database, process, memory, abandoned, bounds>>
      /\ process = "up" /\ req[r].pc = "idle" /\ g \in Gens /\ status[g] = "unused"
  BY <1>1 DEF Check
<1>5. \A p \in Requests : IsStarting(p) => req[p].gen # g
  BY <1>1 DEF Starting
<1>6. \A p \in Requests : IsStarting(p) => req[p].gen \notin
          Orphans(t, {"stopping"}) \cup Orphans(t, {"queued", "running"})
  BY <1>2 DEF Starting
<1>7. TypeOK'
  BY <1>3, <1>4 DEF IInv, TypeOK
<1>8. \A p \in Requests : StartingInv(p)'
  BY <1>3, <1>4, <1>5 DEF IInv, StartingInv, RowInv
<1>9. \A p \in Requests : OrphanInv(p)'
  <2> SUFFICES ASSUME NEW p \in Requests, req'[p].pc = "checked",
                      NEW h \in req'[p].toStop \cup req'[p].toFail
               PROVE  /\ row'[h].thread = req'[p].thread
                      /\ status'[h] # "unused" /\ task'[h] = "none"
                      /\ \A o \in Requests : IsStarting(o)' => req'[o].gen # h
    BY DEF OrphanInv
  <2>1. CASE p = r
    BY <1>2, <1>3, <1>4, <1>6, <2>1
  <2>2. CASE p # r
    BY <1>3, <1>4, <2>2 DEF IInv, OrphanInv
  <2> QED
    BY <2>1, <2>2
<1>10. \A p \in Requests : StoppingInv(p)'
  BY <1>3, <1>4 DEF IInv, StoppingInv
<1>11. (\A h \in Gens : RowInv(h)' /\ TaskInv(h)') /\ OneActive' /\ AnswerIffCompleted'
         /\ ContextIsCurrent'
  BY <1>4 DEF IInv, RowInv, TaskInv, OneActive, AnswerIffCompleted, ContextIsCurrent
<1>12. DownInv' /\ NoSilentOrphan'
  BY <1>3, <1>4 DEF IInv, DownInv, NoSilentOrphan, IsLive, Starting
<1> QED
  BY <1>7, <1>8, <1>9, <1>10, <1>11, <1>12 DEF IInv

\* A request of any kind begins.
LEMMA NewRequestStep ==
    ASSUME IInv, NEW r \in Requests, NewRequest(r)
    PROVE  IInv'
<1>1. ASSUME NEW t \in Threads, NEW k \in Keys, SubmitTurn(r, t, k) \/ SubmitHandoff(r, t, k)
      PROVE  IInv'
  BY <1>1, CheckStep DEF SubmitTurn, SubmitHandoff
<1>2. ASSUME NEW g \in Gens, NEW k \in Keys, Retry(r, g, k)
      PROVE  IInv'
  <2>1. row[g].thread \in Threads /\ row[g].turn \in Gens \cup {None}
    BY <1>2 DEF Retry, IInv, RowInv, TypeOK, RowType
  <2> QED
    BY <1>2, <2>1, CheckStep DEF Retry
<1>3. ASSUME NEW q \in RequestType, q.pc \in {"stop", "remove"}, q.kind \in {"stop", "delete"},
             req[r].pc = "idle",
             q.pc = "stop" => q.gen \in Gens /\ Exists(q.gen),
             q.kind = "delete" => q.thread \in Threads,
             q.pc = "remove" => q.kind = "delete",
             process = "up",
             req' = [req EXCEPT ![r] = q],
             UNCHANGED <<database, process, memory, abandoned, bounds>>
      PROVE  IInv'
  <2>1. /\ req' \in [Requests -> RequestType] /\ req'[r] = q
        /\ \A p \in Requests : p # r => req'[p] = req[p]
    BY <1>3 DEF IInv, TypeOK
  <2>2. TypeOK'
    BY <1>3, <2>1 DEF IInv, TypeOK
  <2>3. \A p \in Requests : StartingInv(p)' /\ OrphanInv(p)' /\ StoppingInv(p)'
    BY <1>3, <2>1 DEF IInv, TypeOK, StartingInv, OrphanInv, StoppingInv
  <2>4. (\A h \in Gens : RowInv(h)' /\ TaskInv(h)') /\ OneActive' /\ AnswerIffCompleted'
           /\ ContextIsCurrent'
    BY <1>3 DEF IInv, RowInv, TaskInv, OneActive, AnswerIffCompleted, ContextIsCurrent
  <2>5. DownInv' /\ NoSilentOrphan'
    BY <1>3 DEF IInv, DownInv, NoSilentOrphan, IsLive, Starting
  <2> QED
    BY <2>2, <2>3, <2>4, <2>5 DEF IInv
<1>4. ASSUME NEW g \in Gens, RequestStop(r, g)
      PROVE  IInv'
  <2> DEFINE q == [Idle EXCEPT !.kind = "stop", !.pc = "stop", !.gen = g]
  <2>1. q \in RequestType /\ q.pc = "stop" /\ q.kind = "stop" /\ q.gen = g
    BY DEF Idle, RequestType
  <2> HIDE DEF q
  <2> QED
    BY <1>3, <1>4, <2>1 DEF RequestStop, q
<1>5. ASSUME NEW t \in Threads, RequestDelete(r, t)
      PROVE  IInv'
  <2> DEFINE d == [Idle EXCEPT !.kind = "delete", !.thread = t]
             p == [d EXCEPT !.pc = "remove"]
  <2>1. /\ p \in RequestType /\ p.pc = "remove" /\ p.kind = "delete" /\ p.thread = t
        /\ \A g \in Gens : LET q == [d EXCEPT !.pc = "stop", !.gen = g] IN
              /\ q \in RequestType /\ q.pc = "stop" /\ q.kind = "delete" /\ q.thread = t
              /\ q.gen = g
    BY DEF Idle, RequestType
  <2>2. CASE req' = [req EXCEPT ![r] = p]
    BY <1>3, <1>5, <2>1, <2>2 DEF RequestDelete
  <2>3. ASSUME NEW g \in RowsOf(t), req' = [req EXCEPT ![r] = [d EXCEPT !.pc = "stop", !.gen = g]]
        PROVE  IInv'
    <3> DEFINE q == [d EXCEPT !.pc = "stop", !.gen = g]
    <3>1. g \in Gens /\ Exists(g)
      BY DEF RowsOf
    <3>2. q \in RequestType /\ q.pc = "stop" /\ q.kind = "delete" /\ q.thread = t /\ q.gen = g
      BY <2>1, <3>1
    <3>3. /\ req' = [req EXCEPT ![r] = q] /\ req[r].pc = "idle" /\ process = "up"
          /\ UNCHANGED <<database, process, memory, abandoned, bounds>>
      BY <1>5, <2>3 DEF RequestDelete
    <3> HIDE DEF q
    <3> QED
      BY <1>3, <3>1, <3>2, <3>3
  <2> QED
    BY <1>5, <2>2, <2>3 DEF RequestDelete
<1> QED
  BY <1>1, <1>2, <1>4, <1>5 DEF NewRequest

\* Shutdown, the end of the process, and the restart that settles orphans.
LEMMA ProcessStep ==
    ASSUME IInv, Shutdown \/ ProcessEnds \/ Restart
    PROVE  IInv'
<1>1. CASE Shutdown
  BY <1>1
     DEF IInv, TypeOK, Shutdown, StartingInv, OrphanInv, StoppingInv, RowInv, TaskInv,
         OneActive, DownInv, AnswerIffCompleted, ContextIsCurrent, NoSilentOrphan, IsLive,
         Starting
<1>2. CASE ProcessEnds
  <2>1. TypeOK'
    BY <1>2, IdleFacts, IdsAssumption DEF IInv, TypeOK, ProcessEnds, TaskState
  <2>2. \A r \in Requests : StartingInv(r)' /\ OrphanInv(r)' /\ StoppingInv(r)'
    BY <1>2, IdleFacts DEF ProcessEnds, StartingInv, OrphanInv, StoppingInv
  <2>3. \A g \in Gens : RowInv(g)' /\ TaskInv(g)'
    BY <1>2 DEF IInv, ProcessEnds, RowInv, TaskInv
  <2> QED
    BY <1>2, <2>1, <2>2, <2>3
       DEF IInv, ProcessEnds, OneActive, DownInv, AnswerIffCompleted, ContextIsCurrent,
           NoSilentOrphan
<1>3. CASE Restart
  <2>1. /\ \A g \in Gens : task[g] = "none"
        /\ \A r \in Requests : req[r].pc = "idle" /\ req[r].kind = "none"
    BY <1>3, IdleFacts DEF IInv, DownInv, Restart
  <2>2. \A g \in Gens : /\ status'[g] \notin ActiveStatus
                        /\ Exists(g)' <=> Exists(g)
                        /\ status'[g] = "completed" <=> status[g] = "completed"
                        /\ ~Active(g) => status'[g] = status[g]
    BY <1>3 DEF IInv, TypeOK, Restart, AnswerIffCompleted
  <2>3. TypeOK'
    BY <1>3 DEF IInv, TypeOK, Restart, Status
  <2>4. \A g \in Gens : RowInv(g)' /\ TaskInv(g)'
    BY <1>3, <2>1 DEF IInv, TypeOK, Restart, RowInv, TaskInv
  <2>5. \A r \in Requests : StartingInv(r)' /\ OrphanInv(r)' /\ StoppingInv(r)'
    BY <1>3, <2>1 DEF Restart, StartingInv, OrphanInv, StoppingInv
  <2> QED
    BY <1>3, <2>3, <2>4, <2>5
       DEF IInv, Restart, OneActive, DownInv, AnswerIffCompleted, ContextIsCurrent,
           NoSilentOrphan
<1> QED
  BY <1>1, <1>2, <1>3

-----------------------------------------------------------------------------
(* The invariant, and what follows from it.                                *)

\* The first start of the application satisfies the invariant.
LEMMA InitInv == Init => IInv
<1> SUFFICES ASSUME Init PROVE IInv
  OBVIOUS
<1>1. TypeOK
  BY IdleFacts, IdsAssumption DEF Init, TypeOK, Status, TaskState, RowType, NoRow
<1> QED
  BY <1>1, IdleFacts
     DEF Init, IInv, StartingInv, OrphanInv, StoppingInv, RowInv, TaskInv, OneActive,
         DownInv, AnswerIffCompleted, ContextIsCurrent, NoSilentOrphan

\* Every step preserves it.
LEMMA NextInv == IInv /\ [Next]_vars => IInv'
<1> SUFFICES ASSUME IInv, [Next]_vars PROVE IInv'
  OBVIOUS
<1>1. ASSUME NEW g \in Gens, TaskStep(g) PROVE IInv'
  BY <1>1, TaskSetRunningStep, TaskAnnounceStep, TaskComposeStep, TaskDecodedStep,
     TaskProtocolErrorStep, TaskErrorStep, TaskCancelledStep, TaskCommitStep,
     TaskCommitUnacknowledgedStep, TaskUnclaimedStep, TaskFinishStoppedStep, TaskFailStep,
     TaskTitleStep, TaskWriteFailsStep
     DEF TaskStep
<1>2. ASSUME NEW r \in Requests, RequestStep(r) PROVE IInv'
  BY <1>2, CommitStep, RejectStep, ScheduleStep, CommitUnacknowledgedStep, StopWriteStep,
     StopSignalStep, StopFinishStep, RequestFailsStep, RemoveThreadStep
     DEF RequestStep
<1>3. CASE UNCHANGED vars
  BY <1>3
     DEF vars, IInv, TypeOK, StartingInv, OrphanInv, StoppingInv, RowInv, TaskInv,
         OneActive, DownInv, AnswerIffCompleted, ContextIsCurrent, NoSilentOrphan, IsLive,
         Starting
<1> QED
  BY <1>1, <1>2, <1>3, NewRequestStep, ProcessStep DEF Next

\* The inductive invariant holds in every reachable state.
THEOREM Invariance == Spec => []IInv
  BY InitInv, NextInv, PTL DEF Spec

\* Type correctness of the generation manager.
THEOREM TypeCorrect == Spec => []TypeOK
<1>1. IInv => TypeOK
  BY DEF IInv
<1> QED
  BY <1>1, Invariance, PTL

\* A chat generation is completed exactly when its answer is stored, for any
\* number of racing requests, failed writes and restarts.
THEOREM AnswersMatchStatus == Spec => []AnswerIffCompleted
<1>1. IInv => AnswerIffCompleted
  BY DEF IInv
<1> QED
  BY <1>1, Invariance, PTL

\* The context a generation composed is still the whole conversation when its
\* answer is committed.
THEOREM ContextStaysCurrent == Spec => []ContextIsCurrent
<1>1. IInv => ContextIsCurrent
  BY DEF IInv
<1> QED
  BY <1>1, Invariance, PTL

\* No active row is ever without an owner unless a terminal write failed, or the
\* commit of the row took effect and its request was told of an error.
THEOREM OrphansNeedAFault == Spec => []NoSilentOrphan
<1>1. IInv => NoSilentOrphan
  BY DEF IInv
<1> QED
  BY <1>1, Invariance, PTL
-----------------------------------------------------------------------------
(* The transcript, on top of that invariant.                               *)

Questions(t) == {g \in RowsOf(t) : row[g].asked # 0}
Answers(t) == {g \in RowsOf(t) : answer[g] # 0}

\* Finitely many ids are in use, and a conversation that does not exist yet
\* has no messages.
Transcript ==
    /\ IsFiniteSet({g \in Gens : status[g] # "unused"})
    /\ \A t \in Threads : threadState[t] = "none" => count[t] = 0
    /\ MessagesAccounted

\* Questions and answers of a conversation can be counted.
LEMMA CountableMessages ==
    ASSUME Transcript, NEW t
    PROVE  /\ IsFiniteSet(Questions(t)) /\ IsFiniteSet(Answers(t))
           /\ Cardinality(Questions(t)) \in Nat /\ Cardinality(Answers(t)) \in Nat
<1>1. /\ Questions(t) \subseteq {g \in Gens : status[g] # "unused"}
      /\ Answers(t) \subseteq {g \in Gens : status[g] # "unused"}
  BY DEF Questions, Answers, RowsOf
<1> QED BY <1>1, FS_Subset, FS_CardinalityType DEF Transcript

\* A step that writes no message and makes no row appear or go leaves the
\* transcript alone.
LEMMA SameTranscript ==
    ASSUME Transcript, UNCHANGED <<threadState, count, row, answer>>,
           \A g \in Gens : /\ Exists(g)' <=> Exists(g)
                           /\ status'[g] # "unused" <=> status[g] # "unused"
    PROVE  Transcript'
<1>1. {g \in Gens : status[g] # "unused"}' = {g \in Gens : status[g] # "unused"}
  OBVIOUS
<1>2. \A t \in Threads : Questions(t)' = Questions(t) /\ Answers(t)' = Answers(t)
  BY DEF Questions, Answers, RowsOf
<1>3. MessagesAccounted'
  BY <1>2 DEF Transcript, MessagesAccounted, Questions, Answers
<1> QED BY <1>1, <1>3 DEF Transcript

\* A submitted turn adds its question; a handoff or a retry adds nothing.
LEMMA CommitTranscript ==
    ASSUME IInv, Transcript, NEW r \in Requests, Commit(r)
    PROVE  Transcript'
<1>1. PICK q, n, u : q = req[r] /\ n = req[r].gen /\ u = req[r].thread
  OBVIOUS
<1>2. n \in Gens /\ u \in Threads /\ status[n] = "unused" /\ answer[n] = 0
  BY <1>1 DEF IInv, StartingInv, RowInv, Commit
<1>3. /\ \A g \in Gens : g # n => (Exists(g)' <=> Exists(g))
      /\ \A g \in Gens : g # n => (status'[g] # "unused" <=> status[g] # "unused")
      /\ status'[n] = "queued"
  BY <1>1, <1>2 DEF Commit, Finalized, IInv, TypeOK
<1>4. /\ row'[n].thread = u /\ \A g \in Gens : g # n => row'[g] = row[g]
      /\ row'[n].asked = IF q.kind = "turn" THEN count[u] + 1 ELSE 0
      /\ answer' = answer
  BY <1>1, <1>2 DEF Commit, IInv, TypeOK
<1>5. /\ \A t \in Threads : t # u => threadState'[t] = threadState[t] /\ count'[t] = count[t]
      /\ threadState'[u] = "open" /\ threadState[u] \in {"open", "none"}
      /\ count'[u] = IF q.kind = "turn" THEN count[u] + 1 ELSE count[u]
  BY <1>1, <1>2 DEF Commit, Insertable, IInv, TypeOK
<1>6. {g \in Gens : status'[g] # "unused"} = {g \in Gens : status[g] # "unused"} \cup {n}
  BY <1>2, <1>3
<1>7. IsFiniteSet({g \in Gens : status'[g] # "unused"})
  BY <1>6, FS_AddElement DEF Transcript
<1>8. \A t \in Threads : t # u => Questions(t)' = Questions(t)
  BY <1>2, <1>3, <1>4 DEF Questions, RowsOf
<1>9. \A t \in Threads : Answers(t)' = Answers(t)
  BY <1>2, <1>3, <1>4 DEF Answers, RowsOf
<1>10. count[u] \in Nat
  BY <1>2 DEF IInv, TypeOK
<1>11. n \notin Questions(u) /\ n \notin RowsOf(u)
  BY <1>2 DEF Questions, RowsOf
<1>12. Questions(u)' = IF q.kind = "turn" THEN Questions(u) \cup {n} ELSE Questions(u)
  BY <1>2, <1>3, <1>4, <1>10 DEF Questions, RowsOf
<1>13. count[u] = Cardinality(Questions(u)) + Cardinality(Answers(u))
  <2>1. CASE threadState[u] = "open"
    BY <2>1, <1>2 DEF Transcript, MessagesAccounted, Questions, Answers
  <2>2. CASE threadState[u] = "none"
    <3>1. RowsOf(u) = {}
      BY <2>2 DEF RowsOf, IInv, RowInv
    <3>2. Questions(u) = {} /\ Answers(u) = {}
      BY <3>1 DEF Questions, Answers
    <3>3. count[u] = 0
      BY <2>2, <1>2 DEF Transcript
    <3> QED BY <3>2, <3>3, FS_EmptySet
  <2> QED BY <2>1, <2>2, <1>5
<1>14. count'[u] = Cardinality(Questions(u)') + Cardinality(Answers(u)')
  <2>1. /\ Cardinality(Questions(u)) \in Nat /\ Cardinality(Answers(u)) \in Nat
        /\ IsFiniteSet(Questions(u))
    BY CountableMessages
  <2>2. Cardinality(Questions(u) \cup {n}) = Cardinality(Questions(u)) + 1
    BY <2>1, <1>11, FS_AddElement
  <2>3. Answers(u)' = Answers(u)
    BY <1>2, <1>9
  <2>4. CASE q.kind = "turn"
    BY <2>1, <2>2, <2>3, <2>4, <1>5, <1>12, <1>13
  <2>5. CASE q.kind # "turn"
    BY <2>3, <2>5, <1>5, <1>12, <1>13
  <2> QED BY <2>4, <2>5
<1>15. ASSUME NEW t \in Threads, threadState'[t] = "open"
       PROVE  count'[t] = Cardinality(Questions(t)') + Cardinality(Answers(t)')
  <2>1. CASE t = u
    BY <2>1, <1>14
  <2>2. CASE t # u
    BY <2>2, <1>5, <1>8, <1>9, <1>15 DEF Transcript, MessagesAccounted, Questions, Answers
  <2> QED BY <2>1, <2>2
<1>16. MessagesAccounted'
  BY <1>15 DEF MessagesAccounted, Questions, Answers
<1>17. \A t \in Threads : threadState'[t] = "none" => count'[t] = 0
  BY <1>5 DEF Transcript
<1> QED BY <1>7, <1>16, <1>17 DEF Transcript

\* A chat generation that succeeds adds its one answer; what a lost
\* acknowledgement makes it write again finds the row completed.
LEMMA AnsweredTranscript ==
    ASSUME IInv, Transcript, NEW n \in Gens, Answered(n)
    PROVE  Transcript'
<1>1. PICK u : u = row[n].thread
  OBVIOUS
<1>2. status[n] = "running" /\ u \in Threads /\ answer[n] = 0 /\ threadState[u] = "open"
  BY <1>1 DEF Answered, IInv, RowInv, AnswerIffCompleted
<1>3. \A g \in Gens : /\ Exists(g)' <=> Exists(g)
                      /\ status'[g] # "unused" <=> status[g] # "unused"
  BY <1>2 DEF Answered, Transition, IInv, TypeOK
<1>4. UNCHANGED <<threadState, row>>
  BY DEF Answered
<1>5. CASE row[n].purpose # "chat"
  BY <1>3, <1>4, <1>5, SameTranscript DEF Answered
<1>6. CASE row[n].purpose = "chat"
  <2>1. count[u] \in Nat
    BY <1>2 DEF IInv, TypeOK
  <2>2. /\ count'[u] = count[u] + 1 /\ \A t \in Threads : t # u => count'[t] = count[t]
        /\ answer'[n] = count[u] + 1 /\ \A g \in Gens : g # n => answer'[g] = answer[g]
    BY <1>1, <1>2, <1>6 DEF Answered, IInv, TypeOK
  <2>3. \A t \in Threads : Questions(t)' = Questions(t)
    BY <1>3, <1>4 DEF Questions, RowsOf
  <2>4. \A t \in Threads : t # u => Answers(t)' = Answers(t)
    BY <1>1, <1>3, <1>4, <2>2 DEF Answers, RowsOf
  <2>5. Answers(u)' = Answers(u) \cup {n} /\ n \notin Answers(u)
    BY <1>1, <1>2, <1>3, <1>4, <2>1, <2>2 DEF Answers, RowsOf
  <2>6. count[u] = Cardinality(Questions(u)) + Cardinality(Answers(u))
    BY <1>2 DEF Transcript, MessagesAccounted, Questions, Answers
  <2>7. /\ Cardinality(Questions(u)) \in Nat /\ Cardinality(Answers(u)) \in Nat
        /\ IsFiniteSet(Answers(u))
    BY CountableMessages
  <2>8. Cardinality(Answers(u) \cup {n}) = Cardinality(Answers(u)) + 1
    BY <2>5, <2>7, FS_AddElement
  <2>9. count'[u] = Cardinality(Questions(u)') + Cardinality(Answers(u)')
    <3>1. Questions(u)' = Questions(u)
      BY <1>2, <2>3
    <3> QED BY <3>1, <2>2, <2>5, <2>6, <2>7, <2>8
  <2>10. ASSUME NEW t \in Threads, threadState'[t] = "open"
         PROVE  count'[t] = Cardinality(Questions(t)') + Cardinality(Answers(t)')
    <3>1. CASE t = u
      BY <3>1, <2>9
    <3>2. CASE t # u
      BY <3>2, <1>4, <2>2, <2>3, <2>4, <2>10 DEF Transcript, MessagesAccounted, Questions, Answers
    <3> QED BY <3>1, <3>2
  <2>11. MessagesAccounted'
    BY <2>10 DEF MessagesAccounted, Questions, Answers
  <2>12. \A t \in Threads : threadState'[t] = "none" => count'[t] = 0
    BY <1>2, <1>4, <2>2 DEF Transcript
  <2>13. {g \in Gens : status[g] # "unused"}' = {g \in Gens : status[g] # "unused"}
    BY <1>3
  <2> QED BY <2>11, <2>12, <2>13 DEF Transcript
<1> QED BY <1>5, <1>6

\* A deleted conversation takes its rows along; the others keep theirs.
LEMMA RemoveTranscript ==
    ASSUME IInv, Transcript, NEW r \in Requests, RemoveThread(r)
    PROVE  Transcript'
<1>1. PICK u : u = req[r].thread
  OBVIOUS
<1>2. u \in Threads
  BY <1>1 DEF IInv, StoppingInv, RemoveThread
<1>3. /\ row' = row /\ \A g \in Gens : g \notin RowsOf(u) => status'[g] = status[g] /\ answer'[g] = answer[g]
      /\ \A g \in RowsOf(u) : status'[g] = "deleted" /\ status[g] # "unused"
  BY <1>1 DEF RemoveThread, RowsOf
<1>4. /\ threadState'[u] = "deleted"
      /\ \A t \in Threads : t # u => threadState'[t] = threadState[t] /\ count'[t] = count[t]
  BY <1>1, <1>2 DEF RemoveThread, IInv, TypeOK
<1>5. \A t \in Threads : t # u => Questions(t)' = Questions(t) /\ Answers(t)' = Answers(t)
  BY <1>3 DEF Questions, Answers, RowsOf
<1>6. {g \in Gens : status[g] # "unused"}' = {g \in Gens : status[g] # "unused"}
  BY <1>3
<1>7. MessagesAccounted'
  BY <1>4, <1>5 DEF Transcript, MessagesAccounted, Questions, Answers
<1>8. \A t \in Threads : threadState'[t] = "none" => count'[t] = 0
  BY <1>4 DEF Transcript
<1> QED BY <1>6, <1>7, <1>8 DEF Transcript

\* Every other step of a task or a request changes at most the status of rows
\* that exist.
LEMMA QuietTranscript ==
    ASSUME IInv, Transcript,
           \/ \E g \in Gens :
                \/ TaskSetRunning(g) \/ TaskAnnounce(g) \/ TaskCompose(g) \/ TaskDecoded(g)
                \/ TaskProtocolError(g) \/ TaskError(g) \/ TaskCancelled(g) \/ TaskUnclaimed(g)
                \/ TaskFinishStopped(g) \/ TaskFail(g) \/ TaskTitle(g) \/ TaskWriteFails(g)
           \/ \E r \in Requests :
                \/ Reject(r) \/ Schedule(r) \/ CommitUnacknowledged(r) \/ StopWrite(r)
                \/ StopSignal(r) \/ StopFinish(r) \/ RequestFails(r) \/ NewRequest(r)
           \/ Shutdown \/ ProcessEnds \/ Restart \/ UNCHANGED vars
    PROVE  Transcript'
<1> DEFINE Same == \A g \in Gens : /\ Exists(g)' <=> Exists(g)
                                   /\ status'[g] # "unused" <=> status[g] # "unused"
<1>1. CASE UNCHANGED database
  BY <1>1, SameTranscript
<1>2. ASSUME NEW n \in Gens, NEW from \in SUBSET ActiveStatus,
             NEW to \in ActiveStatus \cup TerminalStatus, status' = Transition(n, from, to)
      PROVE  Same
  BY <1>2 DEF Transition, IInv, TypeOK
<1>3. ASSUME NEW n \in Gens, TaskSetRunning(n) \/ TaskFinishStopped(n) \/ TaskFail(n)
      PROVE  Transcript'
  <2>1. Same
    BY <1>2, <1>3 DEF TaskSetRunning, TaskFinishStopped, TaskFail
  <2>2. UNCHANGED <<threadState, count, row, answer>>
    BY <1>3 DEF TaskSetRunning, TaskFinishStopped, TaskFail
  <2> QED BY <2>1, <2>2, SameTranscript
<1>4. ASSUME NEW n \in Gens,
             \/ TaskAnnounce(n) \/ TaskCompose(n) \/ TaskDecoded(n) \/ TaskProtocolError(n)
             \/ TaskError(n) \/ TaskCancelled(n) \/ TaskUnclaimed(n) \/ TaskTitle(n)
             \/ TaskWriteFails(n)
      PROVE  UNCHANGED database
  BY <1>4 DEF TaskAnnounce, TaskCompose, TaskDecoded, TaskProtocolError, TaskError,
     TaskCancelled, TaskUnclaimed, TaskTitle, TaskWriteFails
<1>5. ASSUME NEW r \in Requests, StopWrite(r) \/ StopFinish(r)
      PROVE  Transcript'
  <2>1. req[r].gen \in Gens
    BY <1>5 DEF StopWrite, StopFinish, IInv, StoppingInv
  <2>2. Same
    BY <2>1, <1>2, <1>5 DEF StopWrite, StopFinish
  <2>3. UNCHANGED <<threadState, count, row, answer>>
    BY <1>5 DEF StopWrite, StopFinish
  <2> QED BY <2>2, <2>3, SameTranscript
<1>6. ASSUME NEW r \in Requests,
             \/ Reject(r) \/ Schedule(r) \/ CommitUnacknowledged(r) \/ StopSignal(r)
             \/ RequestFails(r) \/ NewRequest(r)
      PROVE  UNCHANGED database
  <2>1. ASSUME NEW kind, NEW t, NEW turn, NEW k, Check(r, kind, t, turn, k)
        PROVE  UNCHANGED database
    BY <2>1 DEF Check
  <2>2. CASE NewRequest(r)
    <3>1. CASE \E t \in Threads, k \in Keys : SubmitTurn(r, t, k) \/ SubmitHandoff(r, t, k)
      BY <3>1, <2>1 DEF SubmitTurn, SubmitHandoff
    <3>2. CASE \E g \in Gens, k \in Keys : Retry(r, g, k)
      BY <3>2, <2>1 DEF Retry
    <3>3. CASE (\E g \in Gens : RequestStop(r, g)) \/ (\E t \in Threads : RequestDelete(r, t))
      BY <3>3 DEF RequestStop, RequestDelete
    <3> QED BY <2>2, <3>1, <3>2, <3>3 DEF NewRequest
  <2> QED BY <1>6, <2>2 DEF Reject, Schedule, CommitUnacknowledged, StopSignal, RequestFails
<1>7. CASE Restart
  <2>1. Same
    BY <1>7 DEF Restart, IInv, TypeOK
  <2>2. UNCHANGED <<threadState, count, row, answer>>
    BY <1>7 DEF Restart
  <2> QED BY <2>1, <2>2, SameTranscript
<1>8. ASSUME Shutdown \/ ProcessEnds \/ UNCHANGED vars
      PROVE  UNCHANGED database
  BY <1>8 DEF Shutdown, ProcessEnds, vars
<1> HIDE DEF Same
<1> QED BY <1>1, <1>3, <1>4, <1>5, <1>6, <1>7, <1>8

\* The transcript of a conversation is the question of every turn and the
\* answer of every chat generation that completed, each once, whatever was
\* retried, stopped, restarted or deleted.
THEOREM TranscriptIsAccounted == Spec => []MessagesAccounted
<1>1. Init => Transcript
  <2> SUFFICES ASSUME Init PROVE Transcript
    OBVIOUS
  <2>1. {g \in Gens : status[g] # "unused"} = {}
    BY DEF Init
  <2>2. \A t \in Threads : threadState[t] = "none" /\ count[t] = 0
    BY DEF Init
  <2> QED BY <2>1, <2>2, FS_EmptySet DEF Transcript, MessagesAccounted
<1>2. IInv /\ Transcript /\ [Next]_vars => Transcript'
  BY CommitTranscript, AnsweredTranscript, RemoveTranscript, QuietTranscript
     DEF Next, TaskStep, RequestStep, TaskCommit, TaskCommitUnacknowledged
<1>3. Transcript => MessagesAccounted
  BY DEF Transcript
<1> QED BY <1>1, <1>2, <1>3, Invariance, PTL DEF Spec
-----------------------------------------------------------------------------
(* Generation implements GenerationLifecycle, and the rows of live tasks   *)
(* are finished by those tasks alone.  Both are statements about one step; *)
(* they rest on the inductive invariant.                                   *)

\* What a step may do to row g, as GenerationLifecycle allows it.
RowMoves(g) == Lifecycle!Stays(g) \/ Lifecycle!Moved(g) \/ Lifecycle!Deleted(g)

\* The row of a live task is finished by its own task, not by a request.
FinishedByTask(g) ==
    (process # "down" /\ Active(g) /\ IsLive(g) /\ status'[g] \in TerminalStatus)
       => /\ task[g] \in {"commit", "stopInTry"} \cup InHandler
          /\ req' = req

StepIsAllowed == \A g \in Gens : RowMoves(g) /\ FinishedByTask(g)
-----------------------------------------------------------------------------
(* One lemma per kind of step.                                             *)

\* Most steps leave the rows alone.
LEMMA RowsUntouched ==
    ASSUME IInv, UNCHANGED <<status, row, answer>>
    PROVE  StepIsAllowed
BY DEF StepIsAllowed, RowMoves, Lifecycle!Stays, FinishedByTask

\* TaskSetRunning, TaskCommit, TaskFinishStopped and TaskFail move the row of
\* the task that takes them, by a compare-and-set.
LEMMA TaskRowMoves ==
    ASSUME IInv, NEW g \in Gens,
           TaskSetRunning(g) \/ TaskFinishStopped(g) \/ TaskFail(g)
    PROVE  StepIsAllowed
<1>1. /\ status' = [status EXCEPT ![g] = status'[g]] /\ UNCHANGED <<row, answer, req>>
      /\ \/ status'[g] = status[g]
         \/ Active(g) /\ <<status[g], status'[g]>> \in Lifecycle!Moves
      /\ Active(g) /\ status'[g] \in TerminalStatus => task[g] \in {"stopInTry"} \cup InHandler
  BY DEF IInv, TypeOK, TaskInv, TaskSetRunning, TaskFinishStopped, TaskFail, Transition,
         Lifecycle!Moves, InHandler
<1>2. \A h \in Gens : RowMoves(h)
  BY <1>1 DEF IInv, TypeOK, AnswerIffCompleted, RowMoves, Lifecycle!Stays, Lifecycle!Moved,
              Lifecycle!Moves
<1>3. \A h \in Gens : FinishedByTask(h)
  BY <1>1 DEF IInv, TypeOK, FinishedByTask
<1> QED
  BY <1>2, <1>3 DEF StepIsAllowed

\* The one transaction that adds an answer also completes the row.
LEMMA AnsweredMoves ==
    ASSUME IInv, NEW g \in Gens, Answered(g)
    PROVE  StepIsAllowed
<1>1. /\ status[g] = "running" /\ status' = [status EXCEPT ![g] = "completed"]
      /\ UNCHANGED <<row, req>> /\ task[g] = "commit"
      /\ \A h \in Gens : h # g => answer'[h] = answer[h]
  BY DEF IInv, TypeOK, Answered, Transition
<1>2. \A h \in Gens : RowMoves(h)
  BY <1>1 DEF IInv, TypeOK, RowMoves, Lifecycle!Stays, Lifecycle!Moved, Lifecycle!Moves
<1>3. \A h \in Gens : FinishedByTask(h)
  BY <1>1 DEF IInv, TypeOK, FinishedByTask
<1> QED
  BY <1>2, <1>3 DEF StepIsAllowed

\* Commit finishes orphans, which OrphanInv knows no task owns, and inserts.
LEMMA CommitMoves ==
    ASSUME IInv, NEW r \in Requests, Commit(r)
    PROVE  StepIsAllowed
<1> DEFINE g == req[r].gen
           orphans == req[r].toStop \cup req[r].toFail
<1>1. /\ g \in Gens /\ status[g] = "unused" /\ answer[g] = 0 /\ answer' = answer
      /\ \A h \in orphans : ~IsLive(h)
  BY DEF IInv, StartingInv, OrphanInv, RowInv, Commit, IsLive, Starting
<1>2. /\ status'[g] = "queued"
      /\ \A h \in Gens : h # g => row'[h] = row[h]
      /\ \A h \in Gens \ {g} :
            \/ status'[h] = status[h]
            \/ h \in orphans /\ status[h] = "stopping" /\ status'[h] = "stopped"
            \/ h \in orphans /\ status[h] \in {"queued", "running"} /\ status'[h] = "failed"
  BY <1>1 DEF IInv, TypeOK, Commit, Finalized
<1>3. \A h \in Gens : RowMoves(h)
  BY <1>1, <1>2 DEF IInv, AnswerIffCompleted, RowMoves, Lifecycle!Stays, Lifecycle!Moved,
                    Lifecycle!Moves
<1>4. \A h \in Gens : FinishedByTask(h)
  BY <1>1, <1>2 DEF FinishedByTask
<1> QED
  BY <1>3, <1>4 DEF StepIsAllowed

\* Stop marks an active row, and finishes only what no task will finish.
LEMMA StopMoves ==
    ASSUME IInv, NEW r \in Requests, StopWrite(r) \/ StopFinish(r)
    PROVE  StepIsAllowed
<1> DEFINE g == req[r].gen
<1>1. /\ g \in Gens
      /\ StopFinish(r) => ~IsLive(g) /\ status[g] \notin {"queued", "running"}
  BY DEF IInv, StoppingInv, StopWrite, StopFinish, IsLive, Starting
<1>2. /\ UNCHANGED <<row, answer>>
      /\ \A h \in Gens :
            \/ status'[h] = status[h]
            \/ status[h] \in {"queued", "running"} /\ status'[h] = "stopping"
            \/ ~IsLive(h) /\ status[h] = "stopping" /\ status'[h] = "stopped"
  BY <1>1 DEF IInv, TypeOK, StopWrite, StopFinish, Transition
<1>3. \A h \in Gens : RowMoves(h)
  BY <1>2 DEF IInv, AnswerIffCompleted, RowMoves, Lifecycle!Stays, Lifecycle!Moved,
              Lifecycle!Moves
<1>4. \A h \in Gens : FinishedByTask(h)
  BY <1>2 DEF FinishedByTask
<1> QED
  BY <1>3, <1>4 DEF StepIsAllowed

\* The deletion of a conversation takes its rows, finished or not.
LEMMA RemoveThreadMoves ==
    ASSUME IInv, NEW r \in Requests, RemoveThread(r)
    PROVE  StepIsAllowed
<1>1. \A h \in Gens : RowMoves(h)
  BY DEF IInv, TypeOK, RemoveThread, RowsOf, RowMoves, Lifecycle!Stays, Lifecycle!Deleted
<1>2. \A h \in Gens : FinishedByTask(h)
  BY DEF IInv, TypeOK, RemoveThread, FinishedByTask
<1> QED
  BY <1>1, <1>2 DEF StepIsAllowed

\* reconcile_orphans finds answers only on completed rows.
LEMMA RestartMoves ==
    ASSUME IInv, Restart
    PROVE  StepIsAllowed
<1>1. \A h \in Gens : RowMoves(h)
  BY DEF IInv, TypeOK, AnswerIffCompleted, Restart, RowMoves, Lifecycle!Stays, Lifecycle!Moved,
         Lifecycle!Moves
<1>2. \A h \in Gens : FinishedByTask(h)
  BY DEF Restart, FinishedByTask
<1> QED
  BY <1>1, <1>2 DEF StepIsAllowed

LEMMA NextIsAllowed ==
    ASSUME IInv, [Next]_vars
    PROVE  StepIsAllowed
<1>1. ASSUME NEW g \in Gens, TaskStep(g)
      PROVE  StepIsAllowed
  <2>1. CASE UNCHANGED <<status, row, answer>>
    BY <2>1, RowsUntouched
  <2>2. CASE TaskSetRunning(g) \/ TaskFinishStopped(g) \/ TaskFail(g)
    BY <2>2, TaskRowMoves
  <2>3. CASE Answered(g)
    BY <2>3, AnsweredMoves
  <2> QED
    BY <1>1, <2>1, <2>2, <2>3
       DEF TaskStep, TaskAnnounce, TaskCompose, TaskDecoded, TaskProtocolError, TaskError,
           TaskCancelled, TaskCommit, TaskCommitUnacknowledged, TaskUnclaimed, TaskTitle,
           TaskWriteFails
<1>2. ASSUME NEW r \in Requests, RequestStep(r) \/ NewRequest(r)
      PROVE  StepIsAllowed
  <2>1. CASE UNCHANGED <<status, row, answer>>
    BY <2>1, RowsUntouched
  <2>2. CASE Commit(r)
    BY <2>2, CommitMoves
  <2>3. CASE StopWrite(r) \/ StopFinish(r)
    BY <2>3, StopMoves
  <2>4. CASE RemoveThread(r)
    BY <2>4, RemoveThreadMoves
  <2> QED
    BY <1>2, <2>1, <2>2, <2>3, <2>4
       DEF RequestStep, NewRequest, Reject, Schedule, CommitUnacknowledged, StopSignal,
           RequestFails, SubmitTurn, SubmitHandoff, Retry, Check, RequestStop, RequestDelete
<1>3. CASE Shutdown \/ ProcessEnds \/ UNCHANGED vars
  BY <1>3, RowsUntouched DEF Shutdown, ProcessEnds, vars
<1> QED
  BY <1>1, <1>2, <1>3, RestartMoves DEF Next
-----------------------------------------------------------------------------
\* Whatever requests, tasks, failed writes and restarts do, no row moves
\* against GenerationLifecycle: final statuses stay, a Stop is never overtaken
\* by a late answer, and a conversation has one generation in progress.
THEOREM Refinement == Spec => LifecycleSpec
<1>1. Init => Lifecycle!Init
  BY DEF Init, Lifecycle!Init, NoRow
<1>2. IInv /\ IInv' /\ [Next]_vars => [Lifecycle!Next]_(Lifecycle!vars)
  <2> SUFFICES ASSUME IInv, IInv', [Next]_vars
               PROVE  Lifecycle!Next
    OBVIOUS
  <2>1. \A g \in Gens : RowMoves(g)
    BY NextIsAllowed DEF StepIsAllowed
  <2>2. \A g, h \in Gens : g # h /\ status'[g] \in ActiveStatus /\ status'[h] \in ActiveStatus
                             => row'[g].thread # row'[h].thread
    BY DEF IInv, OneActive
  <2> QED
    BY <2>1, <2>2 DEF Lifecycle!Next, RowMoves, Lifecycle!OneInProgress, Lifecycle!InProgress
<1> QED
  BY <1>1, <1>2, Invariance, PTL DEF Spec, LifecycleSpec, Lifecycle!Spec

\* A row whose task is alive is finished by that task: neither the orphan
\* handling of another request (_finalize_orphans) nor a direct Stop takes it.
THEOREM LiveRowsKeepTheirTask == Spec => LiveRowsFinishedByTask
<1>1. IInv /\ [Next]_vars => \A g \in Gens : FinishedByTask(g)
  BY NextIsAllowed DEF StepIsAllowed
<1> QED
  BY <1>1, Invariance, PTL DEF Spec, LiveRowsFinishedByTask, FinishedByTask
=============================================================================
