------------------------- MODULE GenerationLifecycle -------------------------
(***************************************************************************)
(* What the generation manager promises its clients about the stored rows, *)
(* without tasks, requests, caches or restarts: how a status may move, that*)
(* an answer appears only with `completed', and that a conversation has at *)
(* most one generation in progress.  Several rows may move in one step, as *)
(* they do at startup or when a conversation is deleted.                   *)
(***************************************************************************)
CONSTANTS Gens, None

VARIABLES
    status,     \* [Gens -> status]
    answered,   \* generations with an assistant message
    thread      \* [Gens -> conversation], None before the row exists

vars == <<status, answered, thread>>

InProgress == {"queued", "running", "stopping"}

\* A Stop only ever leads to `stopped'; only running work completes or fails
\* with an answer in sight; final rows do not move again.
Moves ==
    {<<"unused", "queued">>, <<"queued", "running">>, <<"running", "completed">>,
     <<"queued", "stopping">>, <<"running", "stopping">>, <<"stopping", "stopped">>,
     <<"queued", "failed">>, <<"running", "failed">>}

Init ==
    /\ status = [g \in Gens |-> "unused"]
    /\ answered = {}
    /\ thread = [g \in Gens |-> None]

Stays(g) ==
    /\ status'[g] = status[g] /\ thread'[g] = thread[g]
    /\ g \in answered' <=> g \in answered

Moved(g) ==
    /\ <<status[g], status'[g]>> \in Moves
    /\ status[g] = "unused" \/ thread'[g] = thread[g]
    /\ g \in answered' => status'[g] = "completed"

Deleted(g) ==
    /\ status[g] # "unused" /\ status'[g] = "deleted"
    /\ thread'[g] = thread[g] /\ g \notin answered'

OneInProgress(st, th) ==
    \A g, h \in Gens :
        (g # h /\ st[g] \in InProgress /\ st[h] \in InProgress) => th[g] # th[h]

Next ==
    /\ \A g \in Gens : Stays(g) \/ Moved(g) \/ Deleted(g)
    /\ OneInProgress(status', thread')

Spec == Init /\ [][Next]_vars
=============================================================================
