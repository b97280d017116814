------------------------------ MODULE Workspace ------------------------------
(***************************************************************************)
(* What one signed-in browser tab shows (Workspace in                      *)
(* src/frontend/src/App.tsx) against the server's answers                  *)
(* (thread_detail in src/src/oveo/api.py).  Loads, refreshes, sends,       *)
(* retries, deletions and handoffs are requests whose answers come late,   *)
(* in any order or not at all, while the user goes on and generations end. *)
(*                                                                         *)
(* The browser tells late answers by identities and counters (viewRef,     *)
(* detailRequest, generationEpoch, handoffRun) that only ever move on.     *)
(* Here a request carries the comparison instead: `newest' until the next  *)
(* load or refresh, `epoch' until the next adopted generation, `here' (of  *)
(* a retry) until the next navigation, `run' until the dialog moves on.  A *)
(* load or refresh of a view that was left changes nothing however it      *)
(* ends, so it is dropped at once; one that is not the newest can still    *)
(* fail, and keeps only what that depends on.                              *)
(*                                                                         *)
(* The server reads a conversation in three separate statements.  Draft    *)
(* texts (EventStream), titles, usage and the list are left out.           *)
(***************************************************************************)
EXTENDS Naturals, Sequences, SequencesExt, FiniteSets, FiniteSetsExt

CONSTANTS
    MaxThreads,     \* bound: conversations
    MaxGens,        \* bound: generations
    MaxDrafts,      \* bound: messages typed
    MaxHandoffs,    \* bound: times a handoff is asked for
    MaxFaults,      \* bound: answers that are lost and conversations deleted
    MaxLoads,       \* bound: loads and refreshes under way
    MaxPosts,       \* bound: other requests under way
    MaxUnderWay     \* bound: requests under way when the user makes another

ASSUME WorkspaceAssumption ==
    /\ {MaxThreads, MaxGens, MaxDrafts, MaxHandoffs, MaxLoads, MaxPosts,
      MaxUnderWay} \subseteq Nat \ {0}
    /\ MaxFaults \in Nat

VARIABLES
    gens,       \* server: generations [thread, purpose, status, draft, request]
    messages,   \* server: the messages of every conversation, <<generation, role>>
    exists,     \* server: conversations that are there
    view,       \* the conversation in view, 0 for a new one
    detail,     \* the conversation that is loaded: [thread, messages, handoff]
    shown,      \* the generation state: [id, status]
    drafts,     \* the unsent message of every view, 0 for none
    ids,        \* requestIds: [key, part, id]
    dialog,     \* the handoff dialog: [open, gen, finished]
    loads,      \* loads and refreshes under way
    posts,      \* sends, retries, handoffs and deletions under way
    stops,      \* handoffs whose stop is under way
    told,       \* the user was told that the view may be out of date
    missed,     \* history: the same, but the user was not told
    typed, requests, faults, asked,   \* counters
    known,      \* history: generations this view was told of
    torn,       \* history: this view shows an answer of the server that never was
    unseen      \* history: handoffs whose answer or stop was lost

server == <<gens, messages, exists>>
page == <<view, detail, shown, known, torn, told, missed>>
input == <<drafts, ids, typed, requests>>
handoffs == <<dialog, stops, unseen, asked>>
vars == <<server, page, input, handoffs, loads, posts, faults>>

Threads == 1 .. MaxThreads
NoDetail == [thread |-> 0, messages |-> <<>>, handoff |-> 0]
Nothing == [id |-> 0, status |-> "none"]
NoDialog == [open |-> FALSE, gen |-> 0, finished |-> FALSE]

Init ==
    /\ gens = <<>> /\ messages = [t \in Threads |-> <<>>] /\ exists = {}
    /\ view = 0 /\ detail = NoDetail /\ shown = Nothing
    /\ drafts = [v \in 0 .. MaxThreads |-> 0] /\ ids = {} /\ typed = 0 /\ requests = 0
    /\ dialog = NoDialog /\ stops = {} /\ unseen = {} /\ asked = 0
    /\ loads = {} /\ posts = {} /\ faults = 0
    /\ known = {} /\ torn = FALSE /\ told = FALSE /\ missed = FALSE
-----------------------------------------------------------------------------
(* The server.                                                             *)

Running(t) == {g \in DOMAIN gens : gens[g].thread = t /\ gens[g].status = "running"}
Chats(t) == {g \in DOMAIN gens : gens[g].thread = t /\ gens[g].purpose = "chat"}
NewThreads == Threads \ {gens[g].thread : g \in DOMAIN gens}
MoreTurns == Len(gens) < MaxGens /\ (view # 0 \/ NewThreads # {})     \* within the bounds
Terminal(status) == status \in {"completed", "failed", "over"}

\* A generation ends; an answer is stored together with the status.  How a
\* handoff ends makes no difference here; a stopped turn is a failed one.
Finish(g, status) ==
    /\ gens[g].status = "running" /\ (gens[g].purpose = "handoff") = (status = "over")
    /\ gens' = [gens EXCEPT ![g].status = status]
    /\ messages' = IF status = "completed"
                   THEN [messages EXCEPT ![gens[g].thread] = Append(@, <<g, "answer">>)]
                   ELSE messages
    /\ UNCHANGED <<exists, page, input, handoffs, loads, posts, faults>>

\* The client_request_id was accepted before: the same generation is returned.
Accepted(id) == {g \in DOMAIN gens : gens[g].request = id /\ gens[g].status # "deleted"}

NewGen(p, t) ==
    [thread |-> t, purpose |-> IF p.kind = "handoff" THEN "handoff" ELSE "chat",
     status |-> "running", draft |-> p.draft, request |-> p.id]

\* A turn needs its conversation, with nothing running; a retry the newest,
\* failed turn.
Allowed(p) ==
    /\ p.thread = 0 \/ (p.thread \in exists /\ Running(p.thread) = {})
    /\ p.kind = "retry" => p.of = Max(Chats(p.thread)) /\ gens[p.of].status = "failed"

Answered(p, q) == posts' = (posts \ {p}) \cup (IF p.waiting THEN {q} ELSE {})

\* submit, retry and create_prompt_handoff.
Handle(p) ==
    /\ p.phase = "sent" /\ p.kind # "delete"
    /\ UNCHANGED <<page, input, handoffs, loads, faults>>
    /\ \/ /\ Accepted(p.id) # {}
          /\ Answered(p, [p EXCEPT !.phase = "done", !.gen = Max(Accepted(p.id))])
          /\ UNCHANGED server
       \/ /\ Accepted(p.id) = {} /\ ~Allowed(p)
          /\ Answered(p, [p EXCEPT !.phase = IF p.thread \in exists THEN "refused" ELSE "missing"])
          /\ UNCHANGED server
       \/ /\ Accepted(p.id) = {} /\ Allowed(p) /\ Len(gens) < MaxGens /\ (p.thread = 0 => NewThreads # {})
          /\ LET t == IF p.thread # 0 THEN p.thread ELSE Min(NewThreads) IN
               /\ exists' = exists \cup {t}
               /\ gens' = Append(gens, NewGen(p, t))
               /\ messages' = IF p.kind # "send" THEN messages
                              ELSE [messages EXCEPT ![t] = Append(@, <<Len(gens) + 1, "user">>)]
          /\ Answered(p, [p EXCEPT !.phase = "done", !.gen = Len(gens) + 1])

\* delete_thread: the conversation goes, with everything that belongs to it.
HandleDelete(p) ==
    /\ p.phase = "sent" /\ p.kind = "delete"
    /\ exists' = exists \ {p.thread}
    /\ gens' = [g \in DOMAIN gens |->
                  IF gens[g].thread = p.thread THEN [gens[g] EXCEPT !.status = "deleted"] ELSE gens[g]]
    /\ messages' = [messages EXCEPT ![p.thread] = <<>>]
    /\ Answered(p, [p EXCEPT !.phase = "done"])
    /\ UNCHANGED <<page, input, handoffs, loads, faults>>

\* thread_detail, first the messages ...
ReadMessages(l) ==
    /\ l.phase = "sent"
    /\ loads' = (loads \ {l}) \cup
         {IF view \notin exists THEN [l EXCEPT !.phase = "gone"]
          ELSE IF ~l.newest THEN [l EXCEPT !.phase = "answered"]
          ELSE [l EXCEPT !.phase = "row",
                         !.messages = SubSeq(messages[view], l.after + 1, Len(messages[view]))]}
    /\ UNCHANGED <<server, page, input, handoffs, posts, faults>>

\* ... then the newest chat generation: a completed one is not returned.  Its
\* answer may have been stored after the messages were read.
ReadRow(l) ==
    LET latest == IF Chats(view) = {} THEN 0 ELSE Max(Chats(view))
        over == latest = 0 \/ gens[latest].status \in {"completed", "deleted"}
    IN
    /\ l.phase = "row"
    /\ loads' = (loads \ {l}) \cup
         {[l EXCEPT !.phase = "snapshot",
                    !.gen = IF over THEN Nothing ELSE [id |-> latest, status |-> "running"],
                    !.torn = Len(messages[view]) > l.after + Len(l.messages)]}
    /\ UNCHANGED <<server, page, input, handoffs, posts, faults>>

\* ... then its snapshot, and a running handoff.
ReadSnapshot(l) ==
    LET status == IF l.gen.id = 0 THEN "none" ELSE gens[l.gen.id].status
        running == {g \in Running(view) : gens[g].purpose = "handoff"}
    IN
    /\ l.phase = "snapshot"
    /\ loads' = (loads \ {l}) \cup
         {[l EXCEPT !.phase = "answered",
                    !.gen = IF status \in {"none", "deleted"} THEN Nothing ELSE [@ EXCEPT !.status = status],
                    !.handoff = IF running = {} THEN 0 ELSE Max(running),
                    !.torn = @ /\ status # "running"]}
    /\ UNCHANGED <<server, page, input, handoffs, posts, faults>>

\* stop.
ReadStop(g) ==
    /\ g \in stops /\ stops' = stops \ {g}
    /\ gens' = [gens EXCEPT ![g].status = IF @ = "running" THEN "over" ELSE @]
    /\ UNCHANGED <<messages, exists, page, input, dialog, unseen, loads, posts, faults, asked>>
-----------------------------------------------------------------------------
(* The page.  These operators say what becomes of it; loads and posts are  *)
(* given as they are left by the answer that is being handled.             *)

\* If a refresh that does not tell the user of its failure is made before one
\* that does was answered, nobody is told of either.
Load(kind, t, tells) ==
    [kind |-> kind, phase |-> "sent", newest |-> TRUE, epoch |-> kind = "refresh",
     after |-> IF kind = "refresh" /\ detail.thread = t THEN Len(detail.messages) ELSE 0,
     tells |-> tells,
     silences |-> kind = "refresh" /\ ~tells /\ \E l \in loads : l.newest /\ (l.tells \/ l.silences),
     messages |-> <<>>, gen |-> Nothing, handoff |-> 0, torn |-> FALSE]

\* What is left of a load when a newer one is made.
Older(l) ==
    [l EXCEPT !.newest = FALSE, !.epoch = FALSE, !.after = 0, !.silences = FALSE,
              !.messages = <<>>, !.gen = Nothing, !.handoff = 0, !.torn = FALSE,
              !.phase = IF @ \in {"sent", "gone"} THEN @ ELSE "answered"]

Requested(ls, load) == {Older(l) : l \in ls} \cup {load}
Superseded(ls) == {[l EXCEPT !.epoch = FALSE] : l \in ls}

\* enter, and the load of openView.
Enter(v, ls, ps) ==
    /\ view' = v /\ detail' = NoDetail /\ shown' = Nothing
    /\ known' = {} /\ torn' = FALSE /\ told' = FALSE /\ missed' = FALSE
    /\ loads' = ls
    /\ posts' = {[p EXCEPT !.here = FALSE] : p \in ps}

EnterNew(ps) == Enter(0, {}, ps)

\* refreshDetail, if that conversation is still in view.
Refresh(t, tells, ls) == IF view = t /\ t # 0 THEN Requested(ls, Load("refresh", t, tells)) ELSE ls

\* The user opens a conversation or a new one.
OpenView(v) ==
    /\ v = 0 \/ v \in {gens[g].thread : g \in DOMAIN gens}
    /\ ~(v = view /\ (v = 0 \/ detail.thread = v))
    /\ IF v = 0 THEN EnterNew(posts) ELSE Enter(v, {Load("open", v, FALSE)}, posts)
    /\ UNCHANGED <<server, input, handoffs, faults>>

\* mergeDetail.
Merged(l) ==
    LET seen == {detail.messages[i] : i \in DOMAIN detail.messages}
        old == IF l.after = 0 THEN <<>> ELSE detail.messages
    IN  [thread |-> view, handoff |-> l.handoff,
         messages |-> FoldLeft(LAMBDA ms, m : IF l.after = 0 \/ m \notin seen THEN Append(ms, m) ELSE ms,
                               old, l.messages)]

\* newerGeneration; of two running copies either may have the longer draft.
Newer(loaded) ==
    IF shown.id # 0 /\ shown.id = loaded.id /\ Terminal(shown.status) THEN shown ELSE loaded

\* Mutant: a refresh always brings back the generation it read.
AppliesAlways(l) == TRUE

\* The generation was not replaced since the request was made.
AppliesGeneration(l) == l.kind = "open" \/ l.epoch

\* A load or refresh answers.
LoadAnswered(l) ==
    /\ l.phase = "answered" /\ loads' = loads \ {l}
    /\ UNCHANGED <<server, view, input, handoffs, posts, faults>>
    /\ IF l.newest
       THEN /\ detail' = Merged(l)
            /\ shown' = IF ~AppliesGeneration(l) THEN shown
                        ELSE IF l.kind = "open" THEN l.gen ELSE Newer(l.gen)
            /\ known' = known \cup ({shown'.id} \ {0})
                         \cup {detail'.messages[i][1] : i \in DOMAIN detail'.messages}
            /\ torn' = l.torn
            /\ UNCHANGED <<told, missed>>
       ELSE UNCHANGED <<detail, shown, known, torn, told, missed>>

\* 404, or no answer.
LoadFails(l) ==
    /\ \/ l.phase = "gone" /\ UNCHANGED faults
       \/ l.phase # "gone" /\ faults < MaxFaults /\ faults' = faults + 1
    /\ IF l.kind = "open" \/ l.phase = "gone"
       THEN EnterNew(posts)
       ELSE /\ told' = (told \/ l.tells) /\ missed' = (missed \/ l.silences)
            /\ loads' = loads \ {l}
            /\ UNCHANGED <<view, detail, shown, known, torn, posts>>
    /\ UNCHANGED <<server, input, handoffs>>

\* followGeneration: the last update; the conversation is refreshed.
FollowEnds ==
    /\ shown.status = "running" /\ Terminal(gens[shown.id].status)
    /\ Cardinality(loads) < MaxLoads
    /\ shown' = [shown EXCEPT !.status = gens[shown.id].status]
    /\ loads' = Refresh(gens[shown.id].thread, TRUE, loads)
    /\ UNCHANGED <<server, view, detail, known, torn, told, missed, input, handoffs, posts, faults>>

\* onUnavailable: the conversation was deleted.
FollowGone ==
    /\ shown.status = "running" /\ gens[shown.id].status = "deleted"
    /\ Cardinality(loads) < MaxLoads
    /\ shown' = Nothing
    /\ loads' = Refresh(view, FALSE, loads)
    /\ UNCHANGED <<server, view, detail, known, torn, told, missed, input, handoffs, posts, faults>>
-----------------------------------------------------------------------------
(* Sending, retrying, deleting.                                            *)

Post(kind, t, draft, of, id) ==
    [kind |-> kind, thread |-> t, draft |-> draft, of |-> of, id |-> id, phase |-> "sent",
     gen |-> 0, waiting |-> TRUE, here |-> kind = "retry", run |-> kind = "handoff"]

\* Mutant: every attempt is a request of its own.
KnownIdsNone(key, part) == {}

\* requestIdFor: the id of an unanswered request with the same content.
KnownIds(key, part) == {e \in ids : e.key = key /\ e.part = part}

\* The request is made under the id that belongs to it.
Request(kind, t, draft, of, key, part, ps) ==
    LET same == KnownIds(key, part)
        id == IF same = {} THEN requests + 1 ELSE (CHOOSE e \in same : TRUE).id
    IN
    /\ ids' = {e \in ids : e.key # key} \cup {[key |-> key, part |-> part, id |-> id]}
    /\ requests' = Max({requests, id})
    /\ posts' = ps \cup {Post(kind, t, draft, of, id)}

Waiting(kind, t) == {p \in posts : p.kind = kind /\ p.thread = t /\ p.waiting}
Generating == detail.thread = view /\ shown.status = "running"
ComposerShown == view = 0 \/ detail.thread = view

\* The handoff dialog and the question before a deletion are modal: while one
\* is open, the user can only close it or go through the browser's history.
ModalOpen == dialog.open \/ \E t \in Threads : Waiting("delete", t) # {}

\* Composer: a retry of this view is under way.
Busy == \E p \in posts : p.kind = "retry" /\ p.waiting /\ p.here
Room == Cardinality(posts) < MaxPosts /\ Cardinality(posts) + Cardinality(loads) < MaxUnderWay

\* Bound: a turn is asked for while there can be one more, while one runs
\* (then it is refused) or when it was asked for before.
RoomFor(key, part) ==
    Room /\ (MoreTurns \/ Running(view) # {} \/ KnownIds(key, part) # {})

\* A draft is a new one when what it replaces was sent: until then it may
\* change without anybody noticing.
Type ==
    /\ drafts[view] = 0 \/ KnownIds(<<"send", view>>, drafts[view]) # {}
    /\ ComposerShown /\ ~Generating /\ ~ModalOpen /\ Waiting("send", view) = {}
    /\ typed < MaxDrafts /\ MoreTurns /\ typed' = typed + 1
    /\ drafts' = [drafts EXCEPT ![view] = typed + 1]
    /\ UNCHANGED <<server, page, ids, requests, handoffs, loads, posts, faults>>

Send ==
    /\ ComposerShown /\ ~Generating /\ ~ModalOpen /\ ~Busy /\ Waiting("send", view) = {}
    /\ drafts[view] # 0 /\ RoomFor(<<"send", view>>, drafts[view])
    /\ Request("send", view, drafts[view], 0, <<"send", view>>, drafts[view], posts)
    /\ UNCHANGED <<server, page, drafts, typed, handoffs, loads, faults>>

\* adoptGeneration.
Adopt(g) == shown' = [id |-> g, status |-> "running"] /\ known' = known \cup {g}

Forget(key) == ids' = {e \in ids : e.key # key}

\* The server has the turn: the draft goes, and the view follows it if the
\* user is (again) where it was sent from.
SendAnswered(p) ==
    LET t == gens[p.gen].thread IN
    /\ p.kind = "send" /\ p.phase = "done" /\ Cardinality(loads) < MaxLoads
    /\ Forget(<<"send", p.thread>>)
    /\ drafts' = [drafts EXCEPT ![p.thread] = 0]
    /\ IF view # p.thread THEN posts' = posts \ {p} /\ UNCHANGED <<page, loads>>
       ELSE IF view = 0
       THEN /\ view' = t /\ detail' = NoDetail /\ torn' = FALSE /\ told' = FALSE /\ missed' = FALSE
            /\ shown' = [id |-> p.gen, status |-> "running"] /\ known' = {p.gen}
            /\ loads' = {Load("refresh", t, TRUE)}
            /\ posts' = {[q EXCEPT !.here = FALSE] : q \in posts \ {p}}
       ELSE /\ Adopt(p.gen)
            /\ loads' = Requested(Superseded(loads), Load("refresh", t, TRUE))
            /\ posts' = posts \ {p}
            /\ UNCHANGED <<view, detail, torn, told, missed>>
    /\ UNCHANGED <<server, typed, requests, handoffs, faults>>

Retry ==
    /\ ComposerShown /\ view # 0 /\ shown.status = "failed" /\ ~ModalOpen /\ ~Busy
    /\ RoomFor(<<"retry", shown.id>>, 0)
    /\ Request("retry", view, 0, shown.id, <<"retry", shown.id>>, 0, posts)
    /\ UNCHANGED <<server, page, drafts, typed, handoffs, loads, faults>>

RetryAnswered(p) ==
    /\ p.kind = "retry" /\ p.phase = "done"
    /\ Forget(<<"retry", p.of>>)
    /\ posts' = posts \ {p}
    /\ IF p.here THEN Adopt(p.gen) /\ loads' = Superseded(loads) /\ UNCHANGED <<view, detail, torn, told, missed>>
       ELSE UNCHANGED <<page, loads>>
    /\ UNCHANGED <<server, drafts, typed, requests, handoffs, faults>>

\* Refused (409): another turn may be running, so the conversation is
\* refreshed; or it is gone (404).
TurnRefused(p) ==
    /\ p.kind \in {"send", "retry"} /\ p.phase \in {"refused", "missing"}
    /\ Cardinality(loads) < MaxLoads
    /\ posts' = posts \ {p}
    /\ loads' = IF p.phase = "refused" THEN Refresh(p.thread, FALSE, loads) ELSE loads
    /\ UNCHANGED <<server, page, input, handoffs, faults>>

Delete(t) ==
    /\ t \in exists /\ Room /\ ~ModalOpen /\ faults < MaxFaults /\ faults' = faults + 1
    /\ posts' = posts \cup {Post("delete", t, 0, 0, 0)}
    /\ UNCHANGED <<server, page, input, handoffs, loads>>

DeleteAnswered(p) ==
    /\ p.kind = "delete" /\ p.phase = "done"
    /\ drafts' = [drafts EXCEPT ![p.thread] = 0]
    /\ IF view = p.thread THEN EnterNew(posts \ {p})
       ELSE posts' = posts \ {p} /\ UNCHANGED <<page, loads>>
    /\ UNCHANGED <<server, ids, typed, requests, handoffs, faults>>

\* No answer comes.  A request that was not handled may still arrive.
PostLost(p) ==
    /\ p.waiting /\ faults < MaxFaults /\ faults' = faults + 1
    /\ posts' \in {posts \ {p}}
         \cup (IF p.phase = "sent" THEN {(posts \ {p}) \cup {[p EXCEPT !.waiting = FALSE, !.here = FALSE, !.run = FALSE]}} ELSE {})
    /\ dialog' = IF p.kind = "handoff" /\ p.run THEN NoDialog ELSE dialog
    /\ unseen' = IF p.kind = "handoff" THEN unseen \cup {p.id} ELSE unseen
    /\ UNCHANGED <<server, page, input, stops, loads, asked>>
-----------------------------------------------------------------------------
(* The handoff dialog.                                                     *)

Left(ps) == {[p EXCEPT !.run = FALSE] : p \in ps}

\* clearShownHandoff.
Cleared(g) == detail' = IF detail.handoff = g THEN [detail EXCEPT !.handoff = 0] ELSE detail

\* createHandoff: a running one is followed, otherwise one is requested.
OpenHandoff ==
    LET key == <<"handoff", view>>
        part == Len(detail.messages)
    IN
    /\ view # 0 /\ detail.thread = view /\ ~Generating /\ ~ModalOpen
    /\ dialog' = [open |-> TRUE, gen |-> detail.handoff, finished |-> FALSE]
    /\ \/ /\ detail.handoff # 0
          /\ posts' = Left(posts) /\ UNCHANGED <<ids, requests, asked>>
       \/ /\ detail.handoff = 0 /\ RoomFor(key, part)
          /\ Request("handoff", view, 0, 0, key, part, Left(posts))
          /\ asked < MaxHandoffs /\ asked' = asked + 1
    /\ UNCHANGED <<server, page, drafts, typed, stops, unseen, loads, faults>>

\* Mutant: an answer that comes after the dialog was closed is dropped.
HandoffLateDropped(p) == UNCHANGED stops

\* Closed while it was being created: it is stopped.
HandoffLate(p) == stops' = stops \cup {p.gen}

HandoffAnswered(p) ==
    /\ p.kind = "handoff" /\ p.phase = "done"
    /\ posts' = posts \ {p} /\ Forget(<<"handoff", p.thread>>)
    /\ \/ ~p.run /\ HandoffLate(p) /\ UNCHANGED dialog
       \/ p.run /\ dialog' = [dialog EXCEPT !.gen = p.gen] /\ UNCHANGED stops
    /\ UNCHANGED <<server, page, drafts, typed, requests, unseen, loads, faults, asked>>

HandoffRefused(p) ==
    /\ p.kind = "handoff" /\ p.phase \in {"refused", "missing"}
    /\ posts' = posts \ {p}
    /\ dialog' = IF p.run THEN NoDialog ELSE dialog
    /\ UNCHANGED <<server, page, input, stops, unseen, loads, faults, asked>>

\* followGeneration: the handoff ended, or its conversation was deleted.
HandoffEnds ==
    /\ dialog.gen # 0 /\ ~dialog.finished /\ gens[dialog.gen].status # "running"
    /\ dialog' = IF gens[dialog.gen].status = "deleted" THEN NoDialog
                 ELSE [dialog EXCEPT !.finished = TRUE]
    /\ Cleared(dialog.gen)
    /\ UNCHANGED <<server, view, shown, known, torn, told, missed, input, stops, unseen, loads, posts, faults, asked>>

\* closeHandoff: what is not finished is stopped.
CloseHandoff ==
    /\ dialog.open /\ dialog' = NoDialog
    /\ posts' = Left(posts)
    /\ IF dialog.gen # 0 /\ ~dialog.finished
       THEN stops' = stops \cup {dialog.gen} /\ Cleared(dialog.gen)
       ELSE UNCHANGED <<stops, detail>>
    /\ UNCHANGED <<server, view, shown, known, torn, told, missed, input, unseen, loads, faults, asked>>

StopLost(g) ==
    /\ g \in stops /\ gens[g].status = "running" /\ faults < MaxFaults /\ faults' = faults + 1
    /\ stops' = stops \ {g} /\ unseen' = unseen \cup {gens[g].request}
    /\ UNCHANGED <<server, page, input, dialog, loads, posts, asked>>
-----------------------------------------------------------------------------
ServerStep ==
    \/ \E g \in DOMAIN gens, status \in {"completed", "failed", "over"} : Finish(g, status)
    \/ \E p \in posts : Handle(p) \/ HandleDelete(p)
    \/ \E l \in loads : ReadMessages(l) \/ ReadRow(l) \/ ReadSnapshot(l)
    \/ \E g \in stops : ReadStop(g) \/ StopLost(g)

PageStep ==
    \/ \E l \in loads : LoadAnswered(l) \/ LoadFails(l)
    \/ FollowEnds \/ FollowGone \/ HandoffEnds
    \/ \E p \in posts :
         \/ SendAnswered(p) \/ RetryAnswered(p) \/ TurnRefused(p) \/ DeleteAnswered(p)
         \/ HandoffAnswered(p) \/ HandoffRefused(p) \/ PostLost(p)

UserStep ==
    \/ \E v \in 0 .. MaxThreads : OpenView(v)
    \/ Type \/ Send \/ Retry \/ OpenHandoff \/ CloseHandoff
    \/ \E t \in Threads : Delete(t)

Next == ServerStep \/ PageStep \/ UserStep

Spec == Init /\ [][Next]_vars
-----------------------------------------------------------------------------

\* Nothing is under way for this view.
Settled ==
    /\ view # 0 /\ detail.thread = view /\ view \in exists
    /\ shown.status # "running" /\ loads = {}
    /\ ~\E p \in posts : p.waiting /\ p.thread = view

\* When a view comes to rest, it shows the conversation: a gap-free beginning
\* of it, with every answer of a turn it was told of, and the last turn
\* offered for a retry if it failed.  However late the answers came; but the
\* user may have been told that a refresh failed, a silent refresh may have
\* taken the place of one that tells and failed too (missed), and an answer that
\* was put together from two states of the database (torn) may hide a new answer.
SettledViewIsComplete ==
    Settled /\ ~told /\ ~missed /\ ~torn =>
        /\ IsPrefix(detail.messages, messages[view])
        /\ \A g \in known : gens[g].status = "completed" =>
             Contains(detail.messages, <<g, "answer">>) \/ shown.id = g
        /\ \A g \in known : gens[g].status = "failed" /\ g = Max(Chats(view)) => shown.id = g

\* A message is a turn once, however often it is sent again because its outcome
\* was unknown (requestIdFor).
OneTurnPerMessage ==
    \A g, h \in {g \in DOMAIN gens : gens[g].draft # 0 /\ gens[g].status # "deleted"} :
        gens[g].draft = gens[h].draft => g = h

\* A handoff does not run unseen: it is in the dialog, about to be, or being
\* stopped, unless the browser was not told of it or its stop was lost
\* ("left running, it would be paid for without ever being seen").
HandoffSeenOrStopped ==
    \A g \in DOMAIN gens : gens[g].purpose = "handoff" /\ gens[g].status = "running" =>
        \/ dialog.gen = g \/ g \in stops \/ gens[g].request \in unseen
        \/ \E p \in posts : p.kind = "handoff" /\ p.waiting /\ p.id = gens[g].request
=============================================================================
