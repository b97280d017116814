--------------------------- MODULE WorkspaceProofs ---------------------------
(***************************************************************************)
(* Proofs about Workspace, for every number of conversations, messages,    *)
(* handoffs, lost answers and requests under way: a message becomes a turn *)
(* at most once, a handoff never runs unseen, and a view that comes to     *)
(* rest shows what it was told of.                                         *)
(*                                                                         *)
(* TurnInv says why the first holds: everything that was sent of a draft   *)
(* carries one client_request_id, and while the draft is still in the      *)
(* composer, ids remembers which.  HandoffInv does for the second: who     *)
(* is responsible for a running handoff (the dialog, a stop, an answer     *)
(* under way), and that the dialog waits for at most one answer.           *)
(*                                                                         *)
(* For the third, ServerInv says what a conversation is at the server,     *)
(* OwnerInv that an answer is a turn of the conversation it was asked for, *)
(* and ViewHere what the newest load has read: a part of the conversation, *)
(* and a generation that is still the one to show, or else one that the    *)
(* page follows has replaced it.  Then the page, when it comes to rest,    *)
(* has merged an answer that nothing has happened since.                   *)
(***************************************************************************)
EXTENDS Workspace, SequenceTheorems, WellFoundedInduction, NaturalsInduction, TLAPS

-----------------------------------------------------------------------------
(* The inductive invariant.                                                *)

PostFields == {"kind", "thread", "draft", "of", "id", "phase", "gen", "waiting", "here", "run"}
LoadFields == {"kind", "phase", "newest", "epoch", "after", "tells", "silences", "messages", "gen",
               "handoff", "torn"}
DetailFields == {"thread", "messages", "handoff"}

GenType == [thread : Threads, purpose : {"chat", "handoff"},
            status : {"running", "completed", "failed", "over", "deleted"},
            draft : Nat, request : Nat]

\* The requests under way: records, with the parts that matter here typed.
PostType(p) ==
    /\ p = [x \in PostFields |-> p[x]]
    /\ p.thread \in 0 .. MaxThreads /\ p.draft \in Nat /\ p.id \in Nat
    /\ p.waiting \in BOOLEAN /\ p.run \in BOOLEAN

\* The loads under way and the loaded conversation: n generations were there.
LoadType(l, n) == l = [x \in LoadFields |-> l[x]] /\ l.handoff \in 0 .. n
DetailType(d, n) == d = [x \in DetailFields |-> d[x]] /\ d.handoff \in 0 .. n

WorkspaceType ==
    /\ gens \in Seq(GenType)
    /\ view \in 0 .. MaxThreads
    /\ drafts \in [0 .. MaxThreads -> Nat] /\ typed \in Nat /\ requests \in Nat
    /\ ids = {[key |-> e.key, part |-> e.part, id |-> e.id] : e \in ids}
    /\ \A e \in ids : e.id \in Nat
    /\ \A p \in posts : PostType(p)
    /\ dialog \in [open : BOOLEAN, gen : 0 .. Len(gens), finished : BOOLEAN]
    /\ DetailType(detail, Len(gens)) /\ \A l \in loads : LoadType(l, Len(gens))

\* The server knows an accepted request by the generation it answered with.
AnswerInv ==
    \A p \in posts : p.phase = "done" /\ p.kind # "delete" =>
        p.gen \in DOMAIN gens /\ gens[p.gen].request = p.id

\* Draft d was sent under request id i.
SentAs(d, i) ==
    \/ \E p \in posts : p.draft = d /\ p.id = i
    \/ \E g \in DOMAIN gens : gens[g].draft = d /\ gens[g].request = i

Entry(v, d, i) == [key |-> <<"send", v>>, part |-> d, id |-> i]

\* One id per draft, remembered while the draft is unsent; one generation per id.
TurnInv ==
    /\ \A d \in Nat \ {0} : \A i, j \in Nat : SentAs(d, i) /\ SentAs(d, j) => i = j
    /\ \A d \in Nat \ {0} : \A i \in Nat : SentAs(d, i) => d <= typed
    /\ \A v \in 0 .. MaxThreads : drafts[v] <= typed
    /\ \A v, w \in 0 .. MaxThreads : drafts[v] = drafts[w] /\ drafts[v] # 0 => v = w
    /\ \A v \in 0 .. MaxThreads : \A i \in Nat :
         drafts[v] # 0 /\ SentAs(drafts[v], i) => Entry(v, drafts[v], i) \in ids
    /\ \A e, f \in ids : e.key = f.key => e = f
    /\ \A g, h \in DOMAIN gens :
         gens[g].status # "deleted" /\ gens[h].status # "deleted"
           /\ gens[g].request = gens[h].request => g = h

\* The dialog waits for at most one answer.
RunsOnce(ps) == \A p, q \in ps : p.run /\ q.run => p = q

\* Somebody will show or stop handoff g, or could not be told of it.
Seen(g) ==
    \/ dialog.gen = g \/ g \in stops \/ gens[g].request \in unseen
    \/ \E p \in posts : p.kind = "handoff" /\ p.waiting /\ p.phase = "done" /\ p.gen = g

HandoffInv ==
    /\ \A g \in DOMAIN gens :
         gens[g].purpose = "handoff" /\ gens[g].status = "running" => Seen(g)
    /\ \A p \in posts : p.kind = "handoff" /\ ~p.waiting => p.id \in unseen
    /\ \A p \in posts : p.run => dialog.open /\ dialog.gen = 0
    /\ RunsOnce(posts)
    /\ ~dialog.open => dialog.gen = 0
    /\ dialog.finished => dialog.gen # 0 /\ gens[dialog.gen].status # "running"

IInv == WorkspaceType /\ AnswerInv /\ TurnInv /\ HandoffInv

-----------------------------------------------------------------------------
(* Choices, records and sequences.                                         *)

\* Every non-empty set of numbers has a least element ...
LEMMA Least ==
    ASSUME NEW S \in SUBSET Nat, S # {}
    PROVE  \E m \in S : \A k \in S : m <= k
<1> DEFINE R == OpToRel(<, Nat)
<1>1. IsWellFoundedOn(R, Nat)
  BY NatLessThanWellFounded
<1>2. PICK m \in S : \A k \in S : <<k, m>> \notin R
  <2> HIDE DEF R
  <2> QED BY <1>1, WFMin
<1>3. \A k \in S : ~(k < m)
  BY <1>2 DEF OpToRel
<1> QED BY <1>3

\* ... so Min picks one of its elements, ...
LEMMA MinIn ==
    ASSUME NEW S \in SUBSET Nat, S # {}
    PROVE  Min(S) \in S
<1>1. PICK m \in S : \A k \in S : m <= k
  BY Least
<1> QED BY <1>1 DEF Min

\* ... and Max the greatest, if the set is bounded.
LEMMA MaxIn ==
    ASSUME NEW n \in Nat, NEW S \in SUBSET (0 .. n), S # {}
    PROVE  Max(S) \in S /\ \A x \in S : x <= Max(S)
<1> DEFINE T == {n - x : x \in S}
<1>1. T \in SUBSET Nat /\ T # {}
  <2>1. \A x \in S : n - x \in Nat
    OBVIOUS
  <2> QED BY <2>1
<1> HIDE DEF T
<1>2. PICK m \in T : \A k \in T : m <= k
  BY <1>1, Least
<1> USE DEF T
<1>3. PICK x \in S : m = n - x
  BY <1>2
<1>4. \A y \in S : x >= y
  BY <1>2, <1>3
<1> QED BY <1>4 DEF Max

\* Replacing the elements of a sequence leaves a sequence of the same length.
LEMMA SeqReplaced ==
    ASSUME NEW S, NEW s \in Seq(S), NEW f, f = [i \in DOMAIN s |-> f[i]],
           \A i \in DOMAIN s : f[i] \in S
    PROVE  f \in Seq(S) /\ Len(f) = Len(s) /\ DOMAIN f = DOMAIN s
<1>1. Len(s) \in Nat /\ DOMAIN s = 1 .. Len(s)
  OBVIOUS
<1>2. DOMAIN f = 1 .. Len(s) /\ f \in [1 .. Len(s) -> S]
  BY <1>1
<1> QED BY <1>1, <1>2, IsASeq, LenProperties

\* q is p, but for whether the dialog waits for it.
Copy(q, p) ==
    /\ PostType(q) /\ q.kind = p.kind /\ q.id = p.id /\ q.draft = p.draft
    /\ q.phase = p.phase /\ q.gen = p.gen /\ q.waiting = p.waiting /\ (q.run => p.run)

\* A request keeps its identity when the view is left, ...
LEMMA HereGone ==
    ASSUME NEW p, PostType(p), NEW q, q = [p EXCEPT !.here = FALSE]
    PROVE  Copy(q, p)
BY DEF PostType, PostFields, Copy

\* ... when the dialog moves on, ...
LEMMA RunGone ==
    ASSUME NEW p, PostType(p), NEW q, q = [p EXCEPT !.run = FALSE]
    PROVE  Copy(q, p) /\ ~q.run
BY DEF PostType, PostFields, Copy

\* ... and when its answer is lost.
LEMMA WaitingGone ==
    ASSUME NEW p, PostType(p), NEW q,
           q = [p EXCEPT !.waiting = FALSE, !.here = FALSE, !.run = FALSE]
    PROVE  /\ PostType(q) /\ q.kind = p.kind /\ q.id = p.id /\ q.draft = p.draft
           /\ q.phase = p.phase /\ q.gen = p.gen /\ ~q.waiting /\ ~q.run
BY DEF PostType, PostFields

\* Loads and refreshes keep the handoff they read, or lose it.
LEMMA LoadExcept ==
    ASSUME NEW n \in Nat, NEW l, LoadType(l, n)
    PROVE  /\ \A ph : LoadType([l EXCEPT !.phase = ph], n)
           /\ \A ph, ms : LoadType([l EXCEPT !.phase = ph, !.messages = ms], n)
           /\ LoadType([l EXCEPT !.epoch = FALSE], n)
           /\ LoadType(Older(l), n)
           /\ \A m \in Nat : n <= m => LoadType(l, m)
<1>1. \A ph : LoadType([l EXCEPT !.phase = ph], n)
  BY DEF LoadType, LoadFields
<1>2. \A ph, ms : LoadType([l EXCEPT !.phase = ph, !.messages = ms], n)
  BY DEF LoadType, LoadFields
<1>4. LoadType([l EXCEPT !.epoch = FALSE], n)
  BY DEF LoadType, LoadFields
<1>5. LoadType(Older(l), n)
  <2>1. PICK o : o = Older(l)
    OBVIOUS
  <2>2. DOMAIN l = LoadFields /\ DOMAIN o = DOMAIN l
    BY <2>1 DEF LoadType, Older
  <2>3. o = [x \in LoadFields |-> o[x]]
    BY <2>1, <2>2 DEF Older
  <2>4. o.handoff = 0
    BY <2>1, <2>2 DEF Older, LoadFields
  <2> QED BY <2>1, <2>3, <2>4 DEF LoadType
<1>6. \A m \in Nat : n <= m => LoadType(l, m)
  BY DEF LoadType
<1> QED BY <1>1, <1>2, <1>4, <1>5, <1>6

\* A load is made without one.
LEMMA NewLoad ==
    ASSUME NEW kind, NEW t, NEW tells, NEW n \in Nat
    PROVE  LoadType(Load(kind, t, tells), n)
BY DEF LoadType, LoadFields, Load

\* Sets of them: those a newer generation supersedes, those a newer load does.
LEMMA LoadSets ==
    ASSUME NEW n \in Nat, NEW ls, \A l \in ls : LoadType(l, n)
    PROVE  /\ \A l \in Superseded(ls) : LoadType(l, n)
           /\ \A new : LoadType(new, n) => \A l \in Requested(ls, new) : LoadType(l, n)
           /\ \A t, tells : \A l \in Refresh(t, tells, ls) : LoadType(l, n)
<1>1. \A l \in Superseded(ls) : LoadType(l, n)
  BY LoadExcept DEF Superseded
<1>2. \A new : LoadType(new, n) => \A l \in Requested(ls, new) : LoadType(l, n)
  BY LoadExcept DEF Requested
<1>3. \A t, tells : \A l \in Refresh(t, tells, ls) : LoadType(l, n)
  BY <1>2, NewLoad DEF Refresh
<1> QED BY <1>1, <1>2, <1>3
-----------------------------------------------------------------------------
(* What a step may do to each part of the invariant.                       *)

\* Generations at most end or are deleted.
StatusStep ==
    /\ gens' \in Seq(GenType) /\ DOMAIN gens' = DOMAIN gens /\ Len(gens') = Len(gens)
    /\ \A g \in DOMAIN gens :
         /\ gens'[g].draft = gens[g].draft /\ gens'[g].request = gens[g].request
         /\ gens'[g].purpose = gens[g].purpose
         /\ gens'[g].status = "running" => gens[g].status = "running"
         /\ gens[g].status = "deleted" => gens'[g].status = "deleted"

\* A step that leaves the generations alone is one.
LEMMA StatusStays ==
    ASSUME WorkspaceType, UNCHANGED gens
    PROVE  StatusStep
BY DEF StatusStep, WorkspaceType

\* Nothing is answered that was not.
LEMMA AnswerStep ==
    ASSUME AnswerInv, StatusStep,
           \A q \in posts' : q.phase = "done" /\ q.kind # "delete" =>
               \E p \in posts : p.phase = "done" /\ p.kind = q.kind /\ p.gen = q.gen /\ p.id = q.id
    PROVE  AnswerInv'
<1> SUFFICES ASSUME NEW q \in posts', q.phase = "done", q.kind # "delete"
             PROVE  q.gen \in DOMAIN gens' /\ gens'[q.gen].request = q.id
  BY DEF AnswerInv
<1>1. PICK p \in posts : p.phase = "done" /\ p.kind = q.kind /\ p.gen = q.gen /\ p.id = q.id
  OBVIOUS
<1>2. p.gen \in DOMAIN gens /\ gens[p.gen].request = p.id
  BY <1>1 DEF AnswerInv
<1> QED BY <1>1, <1>2 DEF StatusStep

\* Nothing more is sent of a draft, and what is remembered of one that is
\* still in the composer is kept.
LEMMA TurnStep ==
    ASSUME TurnInv, WorkspaceType, StatusStep,
           \A q \in posts' : q.draft # 0 =>
               \E p \in posts : p.draft = q.draft /\ p.id = q.id,
           typed' = typed,
           \A v \in 0 .. MaxThreads : drafts'[v] \in {drafts[v], 0},
           \A e, f \in ids' : e.key = f.key => e = f,
           \A v \in 0 .. MaxThreads : \A i \in Nat :
               drafts'[v] # 0 /\ Entry(v, drafts[v], i) \in ids => Entry(v, drafts[v], i) \in ids'
    PROVE  TurnInv'
<1>1. \A d \in Nat \ {0} : \A i \in Nat : SentAs(d, i)' => SentAs(d, i)
  BY DEF SentAs, StatusStep
<1>2. drafts \in [0 .. MaxThreads -> Nat] /\ typed \in Nat
  BY DEF WorkspaceType
<1>3. \A d \in Nat \ {0} : \A i, j \in Nat : SentAs(d, i)' /\ SentAs(d, j)' => i = j
  BY <1>1 DEF TurnInv
<1>4. \A d \in Nat \ {0} : \A i \in Nat : SentAs(d, i)' => d <= typed'
  BY <1>1 DEF TurnInv
<1>5. \A v \in 0 .. MaxThreads : drafts'[v] <= typed'
  BY <1>2 DEF TurnInv
<1>6. \A v, w \in 0 .. MaxThreads : drafts'[v] = drafts'[w] /\ drafts'[v] # 0 => v = w
  BY <1>2 DEF TurnInv
<1>7. \A v \in 0 .. MaxThreads : \A i \in Nat :
         drafts'[v] # 0 /\ SentAs(drafts[v], i)' => Entry(v, drafts[v], i)' \in ids'
  <2> SUFFICES ASSUME NEW v \in 0 .. MaxThreads, NEW i \in Nat, drafts'[v] # 0,
                      SentAs(drafts[v], i)'
               PROVE  Entry(v, drafts[v], i)' \in ids'
    OBVIOUS
  <2>1. PICK d \in Nat : d = drafts[v] /\ d = drafts'[v] /\ d # 0
    BY <1>2
  <2>2. SentAs(d, i)'
    BY <2>1 DEF SentAs
  <2>3. SentAs(d, i)
    BY <1>1, <2>1, <2>2
  <2>4. Entry(v, d, i) \in ids
    BY <2>1, <2>3 DEF TurnInv
  <2> QED BY <2>1, <2>4 DEF Entry
<1>8. \A e, f \in ids' : e.key = f.key => e = f
  OBVIOUS
<1>9. \A g, h \in DOMAIN gens' :
         gens'[g].status # "deleted" /\ gens'[h].status # "deleted"
           /\ gens'[g].request = gens'[h].request => g = h
  BY DEF TurnInv, StatusStep
<1> QED BY <1>3, <1>4, <1>5, <1>6, <1>7, <1>8, <1>9 DEF TurnInv

\* The answers the browser still waits for that name a handoff.
Pending(p, g) == p.kind = "handoff" /\ p.waiting /\ p.phase = "done" /\ p.gen = g

\* The dialog is left as it is, and nobody stops being responsible.
LEMMA HandoffStep ==
    ASSUME HandoffInv, WorkspaceType, StatusStep, UNCHANGED dialog,
           unseen \subseteq unseen',
           \A g \in stops \cap DOMAIN gens :
               g \in stops' \/ gens'[g].status # "running" \/ gens[g].request \in unseen',
           \A g \in DOMAIN gens : gens[g].status = "running" =>
               \A p \in posts : Pending(p, g) =>
                   (\E q \in posts' : Pending(q, g)) \/ g \in stops' \/ gens[g].request \in unseen',
           \A q \in posts' : q.kind = "handoff" /\ ~q.waiting => q.id \in unseen',
           \A q \in posts' : q.run => \E p \in posts : p.run,
           RunsOnce(posts')
    PROVE  HandoffInv'
<1>1. ASSUME NEW g \in DOMAIN gens', gens'[g].purpose = "handoff", gens'[g].status = "running"
      PROVE  Seen(g)'
  <2>1. g \in DOMAIN gens /\ gens[g].purpose = "handoff" /\ gens[g].status = "running"
        /\ gens'[g].request = gens[g].request
    BY <1>1 DEF StatusStep
  <2>2. Seen(g)
    BY <2>1 DEF HandoffInv
  <2>3. \/ dialog.gen = g \/ g \in stops \/ gens[g].request \in unseen
        \/ \E p \in posts : Pending(p, g)
    BY <2>2 DEF Seen, Pending
  <2>4. \/ dialog'.gen = g \/ g \in stops' \/ gens'[g].request \in unseen'
        \/ \E p \in posts' : Pending(p, g)
    BY <1>1, <2>1, <2>3
  <2> QED BY <2>4 DEF Seen, Pending
<1>2. dialog'.finished => dialog'.gen # 0 /\ gens'[dialog'.gen].status # "running"
  <2>1. dialog.gen \in 0 .. Len(gens) /\ gens \in Seq(GenType)
    BY DEF WorkspaceType
  <2> QED BY <2>1 DEF HandoffInv, StatusStep
<1>3. \A p \in posts' : p.run => dialog'.open /\ dialog'.gen = 0
  BY DEF HandoffInv
<1> QED BY <1>1, <1>2, <1>3 DEF HandoffInv

\* The types of what a step leaves alone.
LEMMA TypeStep ==
    ASSUME WorkspaceType, gens' \in Seq(GenType), Len(gens) <= Len(gens'),
           view' \in 0 .. MaxThreads,
           drafts' \in [0 .. MaxThreads -> Nat], typed' \in Nat, requests' \in Nat,
           \A e \in ids' : e \in ids \/ \E k, t : \E i \in Nat : e = [key |-> k, part |-> t, id |-> i],
           \A q \in posts' : PostType(q),
           dialog' \in [open : BOOLEAN, gen : 0 .. Len(gens'), finished : BOOLEAN],
           DetailType(detail', Len(gens')),
           \A l \in loads' : LoadType(l, Len(gens'))
    PROVE  WorkspaceType'
<1>1. \A e \in ids' : e = [key |-> e.key, part |-> e.part, id |-> e.id] /\ e.id \in Nat
  BY SMTT(30) DEF WorkspaceType
<1>2. ids' = {[key |-> e.key, part |-> e.part, id |-> e.id] : e \in ids'}
  BY <1>1
<1>3. \A q \in posts' : PostType(q)'
  BY DEF PostType
<1> QED BY <1>1, <1>2 DEF WorkspaceType, PostType, DetailType, LoadType

\* Requests of a view that was left.
LEMMA HereSet ==
    ASSUME NEW ps, \A p \in ps : PostType(p), RunsOnce(ps),
           NEW new, new = {[p EXCEPT !.here = FALSE] : p \in ps}
    PROVE  /\ \A q \in new : \E p \in ps : Copy(q, p)
           /\ \A p \in ps : \E q \in new : Copy(q, p)
           /\ RunsOnce(new)
<1>1. \A q \in new : \E p \in ps : q = [p EXCEPT !.here = FALSE] /\ Copy(q, p)
  <2>1. \A q \in new : \E p \in ps : q = [p EXCEPT !.here = FALSE]
    OBVIOUS
  <2> QED BY <2>1, HereGone
<1>2. \A p \in ps : \E q \in new : Copy(q, p)
  <2>1. \A p \in ps : [p EXCEPT !.here = FALSE] \in new
    OBVIOUS
  <2> QED BY <2>1, HereGone
<1>3. RunsOnce(new)
  <2> SUFFICES ASSUME NEW q \in new, NEW r \in new, q.run, r.run
               PROVE  q = r
    BY DEF RunsOnce
  <2>1. PICK p \in ps : q = [p EXCEPT !.here = FALSE] /\ Copy(q, p)
    BY <1>1
  <2>2. PICK s \in ps : r = [s EXCEPT !.here = FALSE] /\ Copy(r, s)
    BY <1>1
  <2>3. p.run /\ s.run
    BY <2>1, <2>2 DEF Copy
  <2>4. p = s
    BY <2>3 DEF RunsOnce
  <2> QED BY <2>1, <2>2, <2>4
<1> QED BY <1>1, <1>2, <1>3

\* Requests the dialog no longer waits for.
LEMMA LeftSet ==
    ASSUME NEW ps, \A p \in ps : PostType(p)
    PROVE  /\ \A q \in Left(ps) : ~q.run /\ \E p \in ps : Copy(q, p)
           /\ \A p \in ps : \E q \in Left(ps) : Copy(q, p)
<1>1. \A q \in Left(ps) : \E p \in ps : q = [p EXCEPT !.run = FALSE]
  BY DEF Left
<1>2. \A p \in ps : [p EXCEPT !.run = FALSE] \in Left(ps)
  BY DEF Left
<1> QED BY <1>1, <1>2, RunGone

\* Part of the requests.
LEMMA SubPosts ==
    ASSUME NEW ps, NEW new \in SUBSET ps, \A p \in ps : PostType(p), RunsOnce(ps)
    PROVE  (\A q \in new : \E p \in ps : Copy(q, p)) /\ RunsOnce(new)
BY DEF RunsOnce, Copy

\* Steps that make no request and no generation, and leave the dialog alone.
LEMMA Quiet ==
    ASSUME IInv, StatusStep,
           view' \in 0 .. MaxThreads, DetailType(detail', Len(gens)),
           \A l \in loads' : LoadType(l, Len(gens)),
           UNCHANGED <<typed, requests, dialog>>, unseen \subseteq unseen',
           \A g \in stops \cap DOMAIN gens :
               g \in stops' \/ gens'[g].status # "running" \/ gens[g].request \in unseen',
           drafts' \in [0 .. MaxThreads -> Nat],
           \A v \in 0 .. MaxThreads : drafts'[v] \in {drafts[v], 0},
           ids' \subseteq ids,
           \A v \in 0 .. MaxThreads : \A i \in Nat :
               drafts'[v] # 0 /\ Entry(v, drafts[v], i) \in ids => Entry(v, drafts[v], i) \in ids',
           \A q \in posts' : \E p \in posts : Copy(q, p),
           RunsOnce(posts'),
           \A g \in DOMAIN gens : \A p \in posts : Pending(p, g) =>
               (\E q \in posts' : Pending(q, g)) \/ g \in stops'
    PROVE  IInv'
<1>1. WorkspaceType /\ AnswerInv /\ TurnInv /\ HandoffInv
  BY DEF IInv
<1>2. gens' \in Seq(GenType) /\ Len(gens') = Len(gens) /\ Len(gens) \in Nat
  BY <1>1 DEF StatusStep, WorkspaceType
<1>3. \A q \in posts' : PostType(q)
  BY DEF Copy
<1>4. WorkspaceType'
  <2>1. typed \in Nat /\ requests \in Nat
        /\ dialog \in [open : BOOLEAN, gen : 0 .. Len(gens), finished : BOOLEAN]
    BY <1>1 DEF WorkspaceType
  <2>2. Len(gens) <= Len(gens')
    BY <1>2
  <2> QED BY <1>1, <1>2, <1>3, <2>1, <2>2, TypeStep
<1>5. AnswerInv'
  BY <1>1, AnswerStep DEF Copy
<1>6. TurnInv'
  <2>1. \A e, f \in ids' : e.key = f.key => e = f
    BY <1>1 DEF TurnInv
  <2>2. \A q \in posts' : q.draft # 0 => \E p \in posts : p.draft = q.draft /\ p.id = q.id
    BY DEF Copy
  <2> QED BY <1>1, <2>1, <2>2, TurnStep
<1>7. HandoffInv'
  <2>1. \A q \in posts' : q.kind = "handoff" /\ ~q.waiting => q.id \in unseen'
    BY <1>1 DEF Copy, HandoffInv
  <2>2. \A q \in posts' : q.run => \E p \in posts : p.run
    BY DEF Copy
  <2> QED BY <1>1, <2>1, <2>2, HandoffStep
<1> QED BY <1>4, <1>5, <1>6, <1>7 DEF IInv

\* Steps that only read.
LEMMA Reading ==
    ASSUME IInv, UNCHANGED <<gens, drafts, ids, typed, requests, dialog, stops, unseen, posts>>,
           view' \in 0 .. MaxThreads, DetailType(detail', Len(gens)),
           \A l \in loads' : LoadType(l, Len(gens))
    PROVE  IInv'
<1>1. WorkspaceType /\ HandoffInv /\ StatusStep
  BY StatusStays DEF IInv
<1>2. (\A q \in posts : \E p \in posts : Copy(q, p)) /\ RunsOnce(posts)
  BY <1>1 DEF WorkspaceType, HandoffInv, Copy
<1>3. drafts \in [0 .. MaxThreads -> Nat]
  BY <1>1 DEF WorkspaceType
<1> QED BY <1>1, <1>2, <1>3, Quiet
-----------------------------------------------------------------------------
(* Loads and refreshes.                                                    *)

\* What the proofs use of the types.
LEMMA Types ==
    ASSUME IInv
    PROVE  /\ gens \in Seq(GenType) /\ Len(gens) \in Nat /\ DOMAIN gens = 1 .. Len(gens)
           /\ view \in 0 .. MaxThreads /\ drafts \in [0 .. MaxThreads -> Nat]
           /\ typed \in Nat /\ requests \in Nat
           /\ \A p \in posts : PostType(p)
           /\ DetailType(detail, Len(gens)) /\ \A l \in loads : LoadType(l, Len(gens))
           /\ RunsOnce(posts) /\ WorkspaceType
BY DEF IInv, WorkspaceType, HandoffInv

\* The server reads the messages.
LEMMA ReadMessagesInv ==
    ASSUME IInv, NEW l \in loads, ReadMessages(l)
    PROVE  IInv'
<1>1. \A k \in loads' : LoadType(k, Len(gens))
  <2>1. PICK k : k = IF view \notin exists THEN [l EXCEPT !.phase = "gone"]
                     ELSE IF ~l.newest THEN [l EXCEPT !.phase = "answered"]
                     ELSE [l EXCEPT !.phase = "row",
                            !.messages = SubSeq(messages[view], l.after + 1, Len(messages[view]))]
    OBVIOUS
  <2>2. loads' = (loads \ {l}) \cup {k}
    BY <2>1 DEF ReadMessages
  <2>3. LoadType(l, Len(gens)) /\ Len(gens) \in Nat
    BY Types
  <2>4. LoadType(k, Len(gens))
    BY <2>1, <2>3, LoadExcept
  <2> QED BY <2>2, <2>4, Types
<1>2. UNCHANGED <<server, page, input, handoffs, posts>>
  BY DEF ReadMessages
<1> QED BY <1>1, <1>2, Types, Reading DEF server, page, input, handoffs

\* It reads the newest turn.
LEMMA ReadRowInv ==
    ASSUME IInv, NEW l \in loads, ReadRow(l)
    PROVE  IInv'
<1>1. \A k \in loads' : LoadType(k, Len(gens))
  <2>1. PICK g, t : loads' = (loads \ {l}) \cup
            {[l EXCEPT !.phase = "snapshot", !.gen = g, !.torn = t]}
    BY DEF ReadRow
  <2>2. PICK k : k = [l EXCEPT !.phase = "snapshot", !.gen = g, !.torn = t]
    OBVIOUS
  <2>3. LoadType(l, Len(gens))
    BY Types
  <2>4. LoadType(k, Len(gens))
    BY <2>2, <2>3 DEF LoadType, LoadFields
  <2> QED BY <2>1, <2>2, <2>4, Types
<1>2. UNCHANGED <<server, page, input, handoffs, posts>>
  BY DEF ReadRow
<1> QED BY <1>1, <1>2, Types, Reading DEF server, page, input, handoffs

\* It reads how that stands, and which handoff runs.
LEMMA ReadSnapshotInv ==
    ASSUME IInv, NEW l \in loads, ReadSnapshot(l)
    PROVE  IInv'
<1> DEFINE running == {g \in Running(view) : gens[g].purpose = "handoff"}
           h == IF running = {} THEN 0 ELSE Max(running)
<1>1. h \in 0 .. Len(gens)
  <2>1. running \in SUBSET (0 .. Len(gens))
    BY Types DEF Running
  <2> HIDE DEF running
  <2>2. Len(gens) \in Nat
    BY Types
  <2>3. running # {} => Max(running) \in running
    BY <2>1, <2>2, MaxIn
  <2>4. CASE running = {}
    BY <2>2, <2>4
  <2>5. CASE running # {}
    BY <2>1, <2>3, <2>5
  <2> QED BY <2>4, <2>5
<1>2. PICK k : loads' = (loads \ {l}) \cup {k} /\ DOMAIN k = DOMAIN l /\ k.handoff = h
               /\ k = [x \in DOMAIN l |-> k[x]]
  <2>1. "handoff" \in DOMAIN l
    BY Types DEF LoadType, LoadFields
  <2>2. PICK g, t : loads' = (loads \ {l}) \cup
            {[l EXCEPT !.phase = "answered", !.gen = g, !.handoff = h, !.torn = t]}
    BY DEF ReadSnapshot
  <2> HIDE DEF h
  <2>3. PICK k : k = [l EXCEPT !.phase = "answered", !.gen = g, !.handoff = h, !.torn = t]
    OBVIOUS
  <2>4. DOMAIN k = DOMAIN l /\ k.handoff = h /\ k = [x \in DOMAIN l |-> k[x]]
    BY <2>1, <2>3
  <2> QED BY <2>2, <2>3, <2>4
<1> HIDE DEF h
<1>3. LoadType(k, Len(gens))
  BY <1>1, <1>2, Types DEF LoadType
<1>4. \A j \in loads' : LoadType(j, Len(gens))
  BY <1>2, <1>3, Types
<1>5. UNCHANGED <<server, page, input, handoffs, posts>>
  BY DEF ReadSnapshot
<1> QED BY <1>4, <1>5, Types, Reading DEF server, page, input, handoffs

\* The browser shows what it was answered.
LEMMA LoadAnsweredInv ==
    ASSUME IInv, NEW l \in loads, LoadAnswered(l)
    PROVE  IInv'
<1>1. loads' \subseteq loads /\ UNCHANGED <<server, view, input, handoffs, posts>>
  BY DEF LoadAnswered
<1>2. detail' = detail \/ detail' = Merged(l)
  BY DEF LoadAnswered
<1>3. DetailType(Merged(l), Len(gens))
  BY Types DEF LoadType, DetailType, Merged, DetailFields
<1>4. DetailType(detail', Len(gens)) /\ \A k \in loads' : LoadType(k, Len(gens))
  BY <1>1, <1>2, <1>3, Types
<1> QED BY <1>1, <1>4, Types, Reading DEF server, input, handoffs

\* A turn that was followed ends ...
LEMMA FollowEndsInv ==
    ASSUME IInv, FollowEnds
    PROVE  IInv'
<1>1. UNCHANGED <<server, view, detail, input, handoffs, posts>>
      /\ loads' = Refresh(gens[shown.id].thread, TRUE, loads)
  BY DEF FollowEnds
<1>2. \A k \in loads' : LoadType(k, Len(gens))
  BY <1>1, Types, LoadSets
<1> QED BY <1>1, <1>2, Types, Reading DEF server, input, handoffs

\* ... or is gone.
LEMMA FollowGoneInv ==
    ASSUME IInv, FollowGone
    PROVE  IInv'
<1>1. UNCHANGED <<server, view, detail, input, handoffs, posts>>
      /\ loads' = Refresh(view, FALSE, loads)
  BY DEF FollowGone
<1>2. \A k \in loads' : LoadType(k, Len(gens))
  BY <1>1, Types, LoadSets
<1> QED BY <1>1, <1>2, Types, Reading DEF server, input, handoffs

\* The user goes to another conversation, or the page does.
LEMMA Entering ==
    ASSUME IInv, NEW v \in 0 .. MaxThreads, NEW ls, \A l \in ls : LoadType(l, Len(gens)),
           Enter(v, ls, posts), UNCHANGED <<server, input, handoffs>>
    PROVE  IInv'
<1>1. posts' = {[p EXCEPT !.here = FALSE] : p \in posts}
  BY DEF Enter
<1>2. /\ \A q \in posts' : \E p \in posts : Copy(q, p)
      /\ \A p \in posts : \E q \in posts' : Copy(q, p)
      /\ RunsOnce(posts')
  BY <1>1, HereSet, Types
<1>3. \A g \in DOMAIN gens : \A p \in posts : Pending(p, g) => \E q \in posts' : Pending(q, g)
  BY <1>2 DEF Copy, Pending
<1>4. DetailType(NoDetail, Len(gens))
  BY Types DEF DetailType, NoDetail, DetailFields
<1>5. StatusStep
  BY StatusStays, Types DEF server
<1>6. view' \in 0 .. MaxThreads /\ DetailType(detail', Len(gens))
      /\ \A l \in loads' : LoadType(l, Len(gens))
  BY <1>4 DEF Enter
<1>7. UNCHANGED <<drafts, ids, typed, requests, dialog, stops, unseen>>
  BY DEF input, handoffs
<1> QED BY <1>2, <1>3, <1>5, <1>6, <1>7, Types, Quiet

\* The user opens a conversation.
LEMMA OpenViewInv ==
    ASSUME IInv, NEW v \in 0 .. MaxThreads, OpenView(v)
    PROVE  IInv'
<1>1. UNCHANGED <<server, input, handoffs>>
  BY DEF OpenView
<1>2. CASE v = 0
  BY <1>1, <1>2, Entering DEF OpenView, EnterNew
<1>3. CASE v # 0
  <2>1. \A l \in {Load("open", v, FALSE)} : LoadType(l, Len(gens))
    <3>1. Len(gens) \in Nat
      BY Types
    <3>2. LoadType(Load("open", v, FALSE), Len(gens))
      BY <3>1, NewLoad
    <3> QED BY <3>2
  <2>2. PICK ls : ls = {Load("open", v, FALSE)}
    OBVIOUS
  <2>3. Enter(v, ls, posts)
    BY <1>3, <2>2 DEF OpenView
  <2>4. \A l \in ls : LoadType(l, Len(gens))
    BY <2>1, <2>2
  <2> QED BY <1>1, <2>3, <2>4, Entering
<1> QED BY <1>2, <1>3

\* A load fails.
LEMMA LoadFailsInv ==
    ASSUME IInv, NEW l \in loads, LoadFails(l)
    PROVE  IInv'
<1>1. UNCHANGED <<server, input, handoffs>>
  BY DEF LoadFails
<1>2. CASE l.kind = "open" \/ l.phase = "gone"
  <2>1. Enter(0, {}, posts)
    BY <1>2 DEF LoadFails, EnterNew
  <2>2. 0 \in 0 .. MaxThreads
    BY WorkspaceAssumption
  <2> QED BY <1>1, <2>1, <2>2, Entering
<1>3. CASE ~(l.kind = "open" \/ l.phase = "gone")
  <2>1. loads' = loads \ {l} /\ UNCHANGED <<view, detail, posts>>
    BY <1>3 DEF LoadFails
  <2> QED BY <1>1, <2>1, Types, Reading DEF server, input, handoffs
<1> QED BY <1>2, <1>3
-----------------------------------------------------------------------------
(* The server.                                                             *)

\* Steps that only change how generations stand.
LEMMA Ending ==
    ASSUME IInv, StatusStep, unseen \subseteq unseen',
           \A g \in stops \cap DOMAIN gens :
               g \in stops' \/ gens'[g].status # "running" \/ gens[g].request \in unseen',
           UNCHANGED <<view, detail, loads, drafts, ids, typed, requests, dialog, posts>>
    PROVE  IInv'
<1>1. WorkspaceType /\ HandoffInv
  BY DEF IInv
<1>2. (\A q \in posts : \E p \in posts : Copy(q, p)) /\ RunsOnce(posts)
  BY <1>1 DEF WorkspaceType, HandoffInv, Copy
<1> QED BY <1>1, <1>2, Types, Quiet

\* A generation ends.
LEMMA FinishInv ==
    ASSUME IInv, NEW g \in DOMAIN gens, NEW status \in {"completed", "failed", "over"},
           Finish(g, status)
    PROVE  IInv'
<1>1. gens' = [gens EXCEPT ![g].status = status] /\ gens[g].status = "running"
      /\ UNCHANGED <<page, input, handoffs, loads, posts>>
  BY DEF Finish
<1>2. \A h \in DOMAIN gens : gens[h] \in GenType
  BY Types
<1>3. \A h \in DOMAIN gens : gens'[h] = IF h = g THEN [gens[g] EXCEPT !.status = status] ELSE gens[h]
  BY <1>1
<1>4. \A h \in DOMAIN gens : gens'[h] \in GenType
  BY <1>2, <1>3 DEF GenType
<1>5. gens' = [h \in DOMAIN gens |-> gens'[h]]
  BY <1>1
<1>6. gens' \in Seq(GenType) /\ Len(gens') = Len(gens) /\ DOMAIN gens' = DOMAIN gens
  BY <1>4, <1>5, Types, SeqReplaced
<1>7. StatusStep
  BY <1>1, <1>2, <1>3, <1>6 DEF StatusStep, GenType
<1> QED BY <1>1, <1>7, Types, Ending DEF page, input, handoffs

\* A stop reaches the server ...
LEMMA ReadStopInv ==
    ASSUME IInv, NEW g \in stops, ReadStop(g)
    PROVE  IInv'
<1>1. gens' = [gens EXCEPT ![g].status = IF @ = "running" THEN "over" ELSE @]
      /\ stops' = stops \ {g} /\ UNCHANGED <<page, input, dialog, unseen, loads, posts>>
  BY DEF ReadStop
<1>2. \A h \in DOMAIN gens : gens[h] \in GenType
  BY Types
<1>3. \A h \in DOMAIN gens : gens'[h] =
        IF h = g THEN [gens[g] EXCEPT !.status = IF @ = "running" THEN "over" ELSE @] ELSE gens[h]
  BY <1>1
<1>4. \A h \in DOMAIN gens :
         /\ gens'[h] \in GenType /\ gens'[h].draft = gens[h].draft
         /\ gens'[h].request = gens[h].request /\ gens'[h].purpose = gens[h].purpose
         /\ gens'[h].status =
              IF h = g /\ gens[h].status = "running" THEN "over" ELSE gens[h].status
  BY <1>2, <1>3 DEF GenType
<1>5. gens' = [h \in DOMAIN gens |-> gens'[h]]
  BY <1>1
<1>6. gens' \in Seq(GenType) /\ Len(gens') = Len(gens) /\ DOMAIN gens' = DOMAIN gens
  BY <1>4, <1>5, Types, SeqReplaced
<1>7. StatusStep
  BY <1>4, <1>6 DEF StatusStep
<1>8. \A h \in stops \cap DOMAIN gens : h \in stops' \/ gens'[h].status # "running"
  BY <1>1, <1>4
<1> QED BY <1>1, <1>7, <1>8, Ending DEF page, input

\* ... or is lost.
LEMMA StopLostInv ==
    ASSUME IInv, NEW g \in stops, StopLost(g)
    PROVE  IInv'
<1>1. stops' = stops \ {g} /\ unseen' = unseen \cup {gens[g].request}
      /\ UNCHANGED <<server, page, input, dialog, loads, posts>>
  BY DEF StopLost
<1>2. StatusStep
  BY <1>1, StatusStays, Types DEF server
<1> QED BY <1>1, <1>2, Ending DEF page, input

\* The server answers request p with q, or drops it if nobody waits.
LEMMA Replaced ==
    ASSUME IInv, NEW p \in posts, p.phase = "sent", NEW q, Answered(p, q),
           PostType(q), q.kind = p.kind, q.id = p.id, q.draft = p.draft,
           q.waiting = p.waiting, q.run = p.run
    PROVE  /\ \A r \in posts' : r \in posts \/ (r = q /\ p.waiting)
           /\ \A r \in posts : r = p \/ r \in posts'
           /\ p.waiting => q \in posts'
           /\ \A r \in posts' : PostType(r)
           /\ \A r \in posts' : r.draft # 0 => \E s \in posts : s.draft = r.draft /\ s.id = r.id
           /\ \A r \in posts' : r.kind = "handoff" /\ ~r.waiting => r.id \in unseen
           /\ \A r \in posts' : r.run => \E s \in posts : s.run
           /\ RunsOnce(posts')
           /\ \A g : \A r \in posts : Pending(r, g) => \E s \in posts' : Pending(s, g)
<1>1. /\ \A r \in posts' : (r \in posts /\ r # p) \/ (r = q /\ p.waiting)
      /\ \A r \in posts : r = p \/ r \in posts'
      /\ p.waiting => q \in posts'
  BY DEF Answered
<1>2. \A r \in posts : PostType(r)
  BY Types
<1>3. \A r \in posts' : r.kind = "handoff" /\ ~r.waiting => r.id \in unseen
  BY <1>1 DEF IInv, HandoffInv
<1>4. RunsOnce(posts')
  BY <1>1, Types DEF RunsOnce
<1>5. \A g : \A r \in posts : Pending(r, g) => \E s \in posts' : Pending(s, g)
  BY <1>1 DEF Pending
<1> QED BY <1>1, <1>2, <1>3, <1>4, <1>5

\* It answers without a new generation.
LEMMA Answering ==
    ASSUME IInv, StatusStep, NEW p \in posts, p.phase = "sent", NEW q, Answered(p, q),
           PostType(q), q.kind = p.kind, q.id = p.id, q.draft = p.draft,
           q.waiting = p.waiting, q.run = p.run,
           q.phase = "done" /\ q.kind # "delete" =>
               q.gen \in DOMAIN gens /\ gens[q.gen].request = q.id,
           UNCHANGED <<page, input, handoffs, loads>>
    PROVE  IInv'
<1>1. WorkspaceType /\ AnswerInv /\ TurnInv /\ HandoffInv
  BY DEF IInv
<1>2. UNCHANGED <<view, detail, loads, drafts, ids, typed, requests, dialog, stops, unseen>>
  BY DEF page, input, handoffs
<1>3. gens' \in Seq(GenType) /\ Len(gens') = Len(gens) /\ Len(gens) <= Len(gens')
  BY Types DEF StatusStep
<1>4. WorkspaceType'
  <2>1. dialog \in [open : BOOLEAN, gen : 0 .. Len(gens), finished : BOOLEAN]
    BY <1>1 DEF WorkspaceType
  <2>2. \A r \in posts' : PostType(r)
    BY Replaced
  <2> QED BY <1>1, <1>2, <1>3, <2>1, <2>2, Types, TypeStep
<1>5. AnswerInv'
  <2>1. \A r \in posts' : r \in posts \/ r = q
    BY Replaced
  <2> QED BY <1>1, <2>1 DEF AnswerInv, StatusStep
<1>6. TurnInv'
  <2>1. \A r \in posts' : r.draft # 0 => \E s \in posts : s.draft = r.draft /\ s.id = r.id
    BY Replaced
  <2>2. \A e, f \in ids : e.key = f.key => e = f
    BY <1>1 DEF TurnInv
  <2> QED BY <1>1, <1>2, <2>1, <2>2, TurnStep
<1>7. HandoffInv'
  <2>1. /\ \A r \in posts' : r.kind = "handoff" /\ ~r.waiting => r.id \in unseen
        /\ \A r \in posts' : r.run => \E s \in posts : s.run
        /\ RunsOnce(posts')
        /\ \A g : \A r \in posts : Pending(r, g) => \E s \in posts' : Pending(s, g)
    BY Replaced
  <2> QED BY <1>1, <1>2, <2>1, HandoffStep
<1> QED BY <1>4, <1>5, <1>6, <1>7 DEF IInv

\* A deletion: everything of the conversation goes.
LEMMA HandleDeleteInv ==
    ASSUME IInv, NEW p \in posts, HandleDelete(p)
    PROVE  IInv'
<1>1. /\ p.phase = "sent" /\ p.kind = "delete" /\ UNCHANGED <<page, input, handoffs, loads>>
      /\ Answered(p, [p EXCEPT !.phase = "done"])
      /\ gens' = [g \in DOMAIN gens |->
                  IF gens[g].thread = p.thread THEN [gens[g] EXCEPT !.status = "deleted"] ELSE gens[g]]
  BY DEF HandleDelete
<1>2. PICK q : q = [p EXCEPT !.phase = "done"]
  OBVIOUS
<1>3. /\ PostType(q) /\ q.kind = p.kind /\ q.id = p.id /\ q.draft = p.draft
      /\ q.waiting = p.waiting /\ q.run = p.run
  <2>1. PostType(p)
    BY Types
  <2> QED BY <1>2, <2>1 DEF PostType, PostFields
<1>4. \A h \in DOMAIN gens : gens[h] \in GenType
  BY Types
<1>5. \A h \in DOMAIN gens :
         /\ gens'[h] \in GenType /\ gens'[h].draft = gens[h].draft
         /\ gens'[h].request = gens[h].request /\ gens'[h].purpose = gens[h].purpose
         /\ gens'[h].status = gens[h].status \/ gens'[h].status = "deleted"
  BY <1>1, <1>4 DEF GenType
<1>6. gens' = [h \in DOMAIN gens |-> gens'[h]]
  BY <1>1
<1>7. gens' \in Seq(GenType) /\ Len(gens') = Len(gens) /\ DOMAIN gens' = DOMAIN gens
  BY <1>5, <1>6, Types, SeqReplaced
<1>8. StatusStep
  BY <1>5, <1>7 DEF StatusStep
<1>9. Answered(p, q)
  BY <1>1, <1>2
<1> QED BY <1>1, <1>3, <1>8, <1>9, Answering

\* A request that was accepted before, or is refused.
LEMMA HandleOld ==
    ASSUME IInv, NEW p \in posts, p.phase = "sent", NEW q, Answered(p, q),
           \/ Accepted(p.id) # {} /\ q = [p EXCEPT !.phase = "done", !.gen = Max(Accepted(p.id))]
           \/ q = [p EXCEPT !.phase = IF p.thread \in exists THEN "refused" ELSE "missing"],
           UNCHANGED <<server, page, input, handoffs, loads>>
    PROVE  IInv'
<1>1. StatusStep
  BY StatusStays, Types DEF server
<1>2. PostType(p) /\ Len(gens) \in Nat
  BY Types
<1>3. CASE Accepted(p.id) # {} /\ q = [p EXCEPT !.phase = "done", !.gen = Max(Accepted(p.id))]
  <2>1. Accepted(p.id) \in SUBSET (0 .. Len(gens))
    BY Types DEF Accepted
  <2>2. PICK g : g = Max(Accepted(p.id))
    OBVIOUS
  <2>3. g \in Accepted(p.id)
    BY <1>2, <1>3, <2>1, <2>2, MaxIn
  <2>4. q.gen = g /\ q.id = p.id /\ PostType(q) /\ q.kind = p.kind /\ q.draft = p.draft
        /\ q.waiting = p.waiting /\ q.run = p.run
    BY <1>2, <1>3, <2>2 DEF PostType, PostFields
  <2>5. q.gen \in DOMAIN gens /\ gens[q.gen].request = q.id
    BY <2>3, <2>4 DEF Accepted
  <2> QED BY <1>1, <2>4, <2>5, Answering
<1>4. CASE q = [p EXCEPT !.phase = IF p.thread \in exists THEN "refused" ELSE "missing"]
  <2>1. PICK ph : ph = (IF p.thread \in exists THEN "refused" ELSE "missing") /\ ph # "done"
    OBVIOUS
  <2>2. q = [p EXCEPT !.phase = ph]
    BY <1>4, <2>1
  <2>3. q.phase = ph /\ q.id = p.id /\ PostType(q) /\ q.kind = p.kind /\ q.draft = p.draft
        /\ q.waiting = p.waiting /\ q.run = p.run
    BY <1>2, <2>2 DEF PostType, PostFields
  <2> QED BY <1>1, <2>1, <2>3, Answering
<1> QED BY <1>3, <1>4

\* A request becomes a generation.
LEMMA HandleNew ==
    ASSUME IInv, NEW p \in posts, p.phase = "sent", Accepted(p.id) = {},
           NEW t \in Threads, gens' = Append(gens, NewGen(p, t)),
           NEW q, Answered(p, q), q = [p EXCEPT !.phase = "done", !.gen = Len(gens) + 1],
           UNCHANGED <<page, input, handoffs, loads>>
    PROVE  IInv'
<1>1. WorkspaceType /\ AnswerInv /\ TurnInv /\ HandoffInv
  BY DEF IInv
<1>2. UNCHANGED <<view, detail, loads, drafts, ids, typed, requests, dialog, stops, unseen>>
  BY DEF page, input, handoffs
<1>3. PostType(p) /\ gens \in Seq(GenType) /\ Len(gens) \in Nat /\ DOMAIN gens = 1 .. Len(gens)
  BY Types
<1>4. PICK n \in Nat : n = Len(gens) + 1
  BY <1>3
<1>5. PICK new : new = NewGen(p, t)
  OBVIOUS
<1>6. /\ new \in GenType /\ new.draft = p.draft /\ new.request = p.id
      /\ new.purpose = "handoff" => p.kind = "handoff"
  BY <1>3, <1>5 DEF NewGen, GenType, PostType
<1>7. /\ gens' \in Seq(GenType) /\ Len(gens') = n /\ DOMAIN gens' = DOMAIN gens \cup {n}
      /\ n \notin DOMAIN gens /\ gens'[n] = new
      /\ \A g \in DOMAIN gens : gens'[g] = gens[g]
  BY <1>3, <1>4, <1>5, <1>6, AppendProperties
<1>8. q.phase = "done" /\ q.gen = n /\ q.id = p.id /\ PostType(q) /\ q.kind = p.kind
      /\ q.draft = p.draft /\ q.waiting = p.waiting /\ q.run = p.run
  BY <1>3, <1>4 DEF PostType, PostFields
<1>9. /\ \A r \in posts' : r \in posts \/ (r = q /\ p.waiting)
      /\ p.waiting => q \in posts'
      /\ \A r \in posts' : PostType(r)
      /\ \A r \in posts' : r.draft # 0 => \E s \in posts : s.draft = r.draft /\ s.id = r.id
      /\ \A r \in posts' : r.kind = "handoff" /\ ~r.waiting => r.id \in unseen
      /\ \A r \in posts' : r.run => \E s \in posts : s.run
      /\ RunsOnce(posts')
      /\ \A g : \A r \in posts : Pending(r, g) => \E s \in posts' : Pending(s, g)
  BY ZenonT(40), <1>8, Replaced
<1>10. WorkspaceType'
  <2>1. /\ dialog' \in [open : BOOLEAN, gen : 0 .. Len(gens'), finished : BOOLEAN]
        /\ DetailType(detail', Len(gens'))
        /\ \A l \in loads' : LoadType(l, Len(gens'))
    BY <1>1, <1>2, <1>3, <1>4, <1>7 DEF WorkspaceType, DetailType, LoadType
  <2>2. Len(gens) <= Len(gens')
    BY <1>3, <1>4, <1>7
  <2> QED BY <1>1, <1>2, <1>7, <1>9, <2>1, <2>2, Types, TypeStep
<1>11. AnswerInv'
  <2> SUFFICES ASSUME NEW r \in posts', r.phase = "done", r.kind # "delete"
               PROVE  r.gen \in DOMAIN gens' /\ gens'[r.gen].request = r.id
    BY DEF AnswerInv
  <2>1. CASE r \in posts
    BY <1>1, <1>7, <2>1 DEF AnswerInv
  <2>2. CASE r = q
    BY <1>6, <1>7, <1>8, <2>2
  <2> QED BY <1>9, <2>1, <2>2
<1>12. TurnInv'
  <2>1. \A d \in Nat \ {0} : \A i \in Nat : SentAs(d, i)' => SentAs(d, i)
    BY <1>6, <1>7, <1>9 DEF SentAs
  <2>2. \A d \in Nat \ {0} : \A i, j \in Nat : SentAs(d, i)' /\ SentAs(d, j)' => i = j
    BY <1>1, <2>1 DEF TurnInv
  <2>3. \A d \in Nat \ {0} : \A i \in Nat : SentAs(d, i)' => d <= typed'
    BY <1>1, <1>2, <2>1 DEF TurnInv
  <2>4. \A v \in 0 .. MaxThreads : \A i \in Nat :
          drafts'[v] # 0 /\ SentAs(drafts[v], i)' => Entry(v, drafts[v], i)' \in ids'
    <3> SUFFICES ASSUME NEW v \in 0 .. MaxThreads, NEW i \in Nat, drafts'[v] # 0,
                        SentAs(drafts[v], i)'
                 PROVE  Entry(v, drafts[v], i)' \in ids'
      OBVIOUS
    <3>1. PICK d \in Nat : d = drafts[v] /\ d = drafts'[v] /\ d # 0
      BY <1>2, Types
    <3>2. SentAs(d, i)'
      BY <3>1 DEF SentAs
    <3>3. Entry(v, d, i) \in ids
      BY <1>1, <2>1, <3>1, <3>2 DEF TurnInv
    <3> QED BY <1>2, <3>1, <3>3 DEF Entry
  <2>5. \A g, h \in DOMAIN gens' :
          gens'[g].status # "deleted" /\ gens'[h].status # "deleted"
            /\ gens'[g].request = gens'[h].request => g = h
    BY <1>1, <1>6, <1>7 DEF TurnInv, Accepted
  <2> QED BY <1>1, <1>2, <2>2, <2>3, <2>4, <2>5 DEF TurnInv
<1>13. HandoffInv'
  <2>1. ASSUME NEW g \in DOMAIN gens', gens'[g].purpose = "handoff", gens'[g].status = "running"
        PROVE  Seen(g)'
    <3>1. CASE g = n
      <4>1. p.kind = "handoff" /\ gens'[g].request = p.id
        BY <1>6, <1>7, <2>1, <3>1
      <4>2. ~p.waiting => p.id \in unseen'
        BY <1>1, <1>2, <4>1 DEF HandoffInv
      <4>3. p.waiting => q \in posts' /\ Pending(q, g)
        BY <1>8, <1>9, <3>1, <4>1 DEF Pending
      <4> QED BY <4>1, <4>2, <4>3 DEF Seen, Pending
    <3>2. CASE g # n
      <4>1. g \in DOMAIN gens /\ gens'[g] = gens[g]
        BY <1>7, <3>2
      <4>2. Seen(g)
        BY <1>1, <2>1, <4>1 DEF HandoffInv
      <4> QED BY <1>2, <1>9, <4>1, <4>2 DEF Seen, Pending
    <3> QED BY <3>1, <3>2
  <2>2. dialog'.finished => dialog'.gen # 0 /\ gens'[dialog'.gen].status # "running"
    BY <1>1, <1>2, <1>3, <1>7 DEF HandoffInv, WorkspaceType
  <2>3. \A r \in posts' : r.run => dialog'.open /\ dialog'.gen = 0
    BY <1>1, <1>2, <1>9 DEF HandoffInv
  <2> QED BY <1>1, <1>2, <1>9, <2>1, <2>2, <2>3 DEF HandoffInv
<1> QED BY <1>10, <1>11, <1>12, <1>13 DEF IInv

\* The server handles a send, a retry or a request for a handoff.
LEMMA HandleInv ==
    ASSUME IInv, NEW p \in posts, Handle(p)
    PROVE  IInv'
<1>1. p.phase = "sent" /\ UNCHANGED <<page, input, handoffs, loads>>
  BY DEF Handle
<1>2. CASE /\ Accepted(p.id) # {} /\ UNCHANGED server
           /\ Answered(p, [p EXCEPT !.phase = "done", !.gen = Max(Accepted(p.id))])
  <2>1. PICK q : q = [p EXCEPT !.phase = "done", !.gen = Max(Accepted(p.id))]
    OBVIOUS
  <2>2. Answered(p, q)
    BY <1>2, <2>1
  <2> QED BY <1>1, <1>2, <2>1, <2>2, HandleOld
<1>3. CASE /\ UNCHANGED server
           /\ Answered(p, [p EXCEPT !.phase = IF p.thread \in exists THEN "refused" ELSE "missing"])
  <2>1. PICK q : q = [p EXCEPT !.phase = IF p.thread \in exists THEN "refused" ELSE "missing"]
    OBVIOUS
  <2>2. Answered(p, q)
    BY <1>3, <2>1
  <2> QED BY <1>1, <1>3, <2>1, <2>2, HandleOld
<1>4. CASE /\ Accepted(p.id) = {} /\ (p.thread = 0 => NewThreads # {})
           /\ gens' = Append(gens, NewGen(p, IF p.thread # 0 THEN p.thread ELSE Min(NewThreads)))
           /\ Answered(p, [p EXCEPT !.phase = "done", !.gen = Len(gens) + 1])
  <2>1. PICK t : t = IF p.thread # 0 THEN p.thread ELSE Min(NewThreads)
    OBVIOUS
  <2>2. t \in Threads
    <3>1. NewThreads \in SUBSET Nat /\ NewThreads \subseteq Threads
      BY WorkspaceAssumption DEF NewThreads, Threads
    <3>2. p.thread = 0 => Min(NewThreads) \in NewThreads
      BY <1>4, <3>1, MinIn
    <3>3. p.thread # 0 => p.thread \in Threads
      BY SMTT(30), Types, WorkspaceAssumption DEF PostType, Threads
    <3> QED BY <2>1, <3>1, <3>2, <3>3
  <2>3. PICK q : q = [p EXCEPT !.phase = "done", !.gen = Len(gens) + 1]
    OBVIOUS
  <2>4. Answered(p, q) /\ gens' = Append(gens, NewGen(p, t))
    BY <1>4, <2>1, <2>3
  <2> QED BY <1>1, <1>4, <2>2, <2>3, <2>4, HandleNew
<1> QED BY <1>2, <1>3, <1>4 DEF Handle
-----------------------------------------------------------------------------
(* Answers.                                                                *)

\* An answer that is no running handoff is taken note of.
LEMMA Noted ==
    ASSUME IInv, NEW p \in posts, \A g : ~Pending(p, g),
           \/ posts' = posts \ {p}
           \/ posts' = {[q EXCEPT !.here = FALSE] : q \in posts \ {p}}
    PROVE  /\ \A q \in posts' : \E r \in posts : Copy(q, r)
           /\ RunsOnce(posts')
           /\ \A g \in DOMAIN gens : \A r \in posts : Pending(r, g) => \E q \in posts' : Pending(q, g)
<1>1. RunsOnce(posts \ {p}) /\ \A q \in posts \ {p} : PostType(q)
  BY Types DEF RunsOnce
<1>2. /\ \A q \in posts' : \E r \in posts \ {p} : Copy(q, r)
      /\ \A r \in posts \ {p} : \E q \in posts' : Copy(q, r)
      /\ RunsOnce(posts')
  <2>1. CASE posts' = posts \ {p}
    BY <1>1, <2>1 DEF Copy
  <2>2. CASE posts' = {[q EXCEPT !.here = FALSE] : q \in posts \ {p}}
    BY <1>1, <2>2, HereSet
  <2> QED BY <2>1, <2>2
<1>3. \A g \in DOMAIN gens : \A r \in posts : Pending(r, g) => \E q \in posts' : Pending(q, g)
  BY <1>2 DEF Copy, Pending
<1> QED BY <1>2, <1>3

\* The draft of view t goes, with the memory of it.
LEMMA DraftGone ==
    ASSUME IInv, NEW t \in 0 .. MaxThreads, drafts' = [drafts EXCEPT ![t] = 0],
           ids' \subseteq ids, \A e \in ids : e.key # <<"send", t>> => e \in ids'
    PROVE  /\ drafts' \in [0 .. MaxThreads -> Nat]
           /\ \A v \in 0 .. MaxThreads : drafts'[v] \in {drafts[v], 0}
           /\ \A v \in 0 .. MaxThreads : \A i \in Nat :
               drafts'[v] # 0 /\ Entry(v, drafts[v], i) \in ids => Entry(v, drafts[v], i) \in ids'
<1>1. drafts \in [0 .. MaxThreads -> Nat]
  BY Types
<1>2. \A v \in 0 .. MaxThreads : drafts'[v] # 0 => v # t
  BY <1>1
<1>3. \A v, d, i : v # t => Entry(v, d, i).key # <<"send", t>>
  BY DEF Entry
<1> QED BY <1>1, <1>2, <1>3

\* The server has the turn.
LEMMA SendAnsweredInv ==
    ASSUME IInv, NEW p \in posts, SendAnswered(p)
    PROVE  IInv'
<1>1. /\ p.kind = "send" /\ p.phase = "done" /\ drafts' = [drafts EXCEPT ![p.thread] = 0]
      /\ ids' = {e \in ids : e.key # <<"send", p.thread>>}
      /\ UNCHANGED <<server, typed, requests, handoffs>>
  BY DEF SendAnswered, Forget
<1>2. p.thread \in 0 .. MaxThreads
  BY Types DEF PostType
<1>3. p.gen \in DOMAIN gens
  BY <1>1 DEF IInv, AnswerInv
<1>4. gens[p.gen].thread \in 0 .. MaxThreads
  <2>1. gens[p.gen] \in GenType
    BY <1>3, Types
  <2>2. gens[p.gen].thread \in 1 .. MaxThreads
    BY <2>1 DEF GenType, Threads
  <2> QED BY <2>2
<1>5. \/ posts' = posts \ {p}
      \/ posts' = {[q EXCEPT !.here = FALSE] : q \in posts \ {p}}
  BY DEF SendAnswered
<1>6. \A g : ~Pending(p, g)
  BY <1>1 DEF Pending
<1>7. /\ \A q \in posts' : \E r \in posts : Copy(q, r)
      /\ RunsOnce(posts')
      /\ \A g \in DOMAIN gens : \A r \in posts : Pending(r, g) => \E q \in posts' : Pending(q, g)
  BY <1>5, <1>6, Noted
<1>8. /\ drafts' \in [0 .. MaxThreads -> Nat]
      /\ \A v \in 0 .. MaxThreads : drafts'[v] \in {drafts[v], 0}
      /\ \A v \in 0 .. MaxThreads : \A i \in Nat :
           drafts'[v] # 0 /\ Entry(v, drafts[v], i) \in ids => Entry(v, drafts[v], i) \in ids'
  BY <1>1, <1>2, DraftGone
<1>9. StatusStep
  BY <1>1, StatusStays, Types DEF server
<1>10. view' \in 0 .. MaxThreads /\ DetailType(detail', Len(gens))
  <2>1. DetailType(NoDetail, Len(gens))
    BY Types DEF DetailType, NoDetail, DetailFields
  <2>2. (view' = view /\ detail' = detail) \/ (view' = gens[p.gen].thread /\ detail' = NoDetail)
    BY DEF SendAnswered, page
  <2> QED BY <1>4, <2>1, <2>2, Types
<1>11. \A l \in loads' : LoadType(l, Len(gens))
  <2>1. PICK n \in Nat : n = Len(gens)
    BY Types
  <2>2. PICK new : new = Load("refresh", gens[p.gen].thread, TRUE)
    OBVIOUS
  <2>3. LoadType(new, n)
    BY <2>1, <2>2, NewLoad
  <2>4. loads' = loads \/ loads' = {new} \/ loads' = Requested(Superseded(loads), new)
    BY <2>2 DEF SendAnswered
  <2>5. \A l \in loads : LoadType(l, n)
    BY <2>1, Types
  <2>6. \A l \in Superseded(loads) : LoadType(l, n)
    BY <2>5, LoadSets
  <2>7. \A l \in Requested(Superseded(loads), new) : LoadType(l, n)
    BY <2>3, <2>6, LoadSets
  <2> QED BY <2>1, <2>3, <2>4, <2>5, <2>7
<1> QED BY <1>1, <1>7, <1>8, <1>9, <1>10, <1>11, Quiet DEF handoffs

\* The server has the retry.
LEMMA RetryAnsweredInv ==
    ASSUME IInv, NEW p \in posts, RetryAnswered(p)
    PROVE  IInv'
<1>1. /\ p.kind = "retry" /\ posts' = posts \ {p}
      /\ ids' = {e \in ids : e.key # <<"retry", p.of>>}
      /\ UNCHANGED <<server, drafts, typed, requests, handoffs>>
  BY DEF RetryAnswered, Forget
<1>2. /\ \A q \in posts' : \E r \in posts : Copy(q, r)
      /\ RunsOnce(posts')
      /\ \A g \in DOMAIN gens : \A r \in posts : Pending(r, g) => \E q \in posts' : Pending(q, g)
  <2>1. \A g : ~Pending(p, g)
    BY <1>1 DEF Pending
  <2> QED BY <1>1, <2>1, Noted
<1>3. \A v, d, i : Entry(v, d, i).key # <<"retry", p.of>>
  BY DEF Entry
<1>4. UNCHANGED <<view, detail>> /\ (loads' = loads \/ loads' = Superseded(loads))
  BY DEF RetryAnswered, page
<1>5. \A l \in loads' : LoadType(l, Len(gens))
  BY <1>4, Types, LoadSets
<1>6. StatusStep
  BY <1>1, StatusStays, Types DEF server
<1>7. drafts \in [0 .. MaxThreads -> Nat]
  BY Types
<1>8. \A v \in 0 .. MaxThreads : \A i \in Nat :
        drafts'[v] # 0 /\ Entry(v, drafts[v], i) \in ids => Entry(v, drafts[v], i) \in ids'
  BY <1>1, <1>3
<1> QED BY <1>1, <1>2, <1>4, <1>5, <1>6, <1>7, <1>8, Types, Quiet DEF handoffs

\* A turn is refused.
LEMMA TurnRefusedInv ==
    ASSUME IInv, NEW p \in posts, TurnRefused(p)
    PROVE  IInv'
<1>1. /\ p.kind \in {"send", "retry"} /\ posts' = posts \ {p}
      /\ loads' = loads \/ loads' = Refresh(p.thread, FALSE, loads)
      /\ UNCHANGED <<server, page, input, handoffs>>
  BY DEF TurnRefused
<1>2. /\ \A q \in posts' : \E r \in posts : Copy(q, r)
      /\ RunsOnce(posts')
      /\ \A g \in DOMAIN gens : \A r \in posts : Pending(r, g) => \E q \in posts' : Pending(q, g)
  <2>1. \A g : ~Pending(p, g)
    BY <1>1 DEF Pending
  <2> QED BY <1>1, <2>1, Noted
<1>3. \A l \in loads' : LoadType(l, Len(gens))
  BY <1>1, Types, LoadSets
<1>4. StatusStep
  BY <1>1, StatusStays, Types DEF server
<1>5. UNCHANGED <<view, detail, drafts, ids, typed, requests, dialog, stops, unseen>>
  BY <1>1 DEF page, input, handoffs
<1> QED BY <1>2, <1>3, <1>4, <1>5, Types, Quiet

\* The conversation is deleted.
LEMMA DeleteAnsweredInv ==
    ASSUME IInv, NEW p \in posts, DeleteAnswered(p)
    PROVE  IInv'
<1>1. /\ p.kind = "delete" /\ drafts' = [drafts EXCEPT ![p.thread] = 0]
      /\ UNCHANGED <<server, ids, typed, requests, handoffs>>
  BY DEF DeleteAnswered
<1>2. p.thread \in 0 .. MaxThreads
  BY Types DEF PostType
<1>3. \/ posts' = posts \ {p}
      \/ posts' = {[q EXCEPT !.here = FALSE] : q \in posts \ {p}}
  BY DEF DeleteAnswered, EnterNew, Enter
<1>4. /\ \A q \in posts' : \E r \in posts : Copy(q, r)
      /\ RunsOnce(posts')
      /\ \A g \in DOMAIN gens : \A r \in posts : Pending(r, g) => \E q \in posts' : Pending(q, g)
  <2>1. \A g : ~Pending(p, g)
    BY <1>1 DEF Pending
  <2> QED BY <1>3, <2>1, Noted
<1>5. /\ drafts' \in [0 .. MaxThreads -> Nat]
      /\ \A v \in 0 .. MaxThreads : drafts'[v] \in {drafts[v], 0}
      /\ \A v \in 0 .. MaxThreads : \A i \in Nat :
           drafts'[v] # 0 /\ Entry(v, drafts[v], i) \in ids => Entry(v, drafts[v], i) \in ids'
  BY <1>1, <1>2, DraftGone
<1>6. StatusStep
  BY <1>1, StatusStays, Types DEF server
<1>7. view' \in 0 .. MaxThreads /\ DetailType(detail', Len(gens))
      /\ \A l \in loads' : LoadType(l, Len(gens))
  <2>1. DetailType(NoDetail, Len(gens))
    BY Types DEF DetailType, NoDetail, DetailFields
  <2>2. \/ view' = view /\ detail' = detail /\ loads' = loads
        \/ view' = 0 /\ detail' = NoDetail /\ loads' = {}
    BY DEF DeleteAnswered, EnterNew, Enter, page
  <2> QED BY <2>1, <2>2, Types, WorkspaceAssumption
<1> QED BY <1>1, <1>4, <1>5, <1>6, <1>7, Quiet DEF handoffs
-----------------------------------------------------------------------------
(* The handoff dialog.                                                     *)

\* A step of the dialog: whoever was responsible for a running handoff hands
\* it on.
LEMMA DialogStep ==
    ASSUME IInv, UNCHANGED <<gens, view, drafts, typed, loads>>,
           DetailType(detail', Len(gens)), requests' \in Nat,
           dialog' \in [open : BOOLEAN, gen : 0 .. Len(gens), finished : BOOLEAN],
           \A e \in ids' : e \in ids \/ \E k, t : \E i \in Nat : e = [key |-> k, part |-> t, id |-> i],
           \A e, f \in ids' : e.key = f.key => e = f,
           \A v, d, i : Entry(v, d, i) \in ids => Entry(v, d, i) \in ids',
           \A q \in posts' : PostType(q),
           \A q \in posts' : q.draft # 0 => \E p \in posts : p.draft = q.draft /\ p.id = q.id,
           \A q \in posts' : q.phase = "done" /\ q.kind # "delete" =>
               \E p \in posts : p.phase = "done" /\ p.kind = q.kind /\ p.gen = q.gen /\ p.id = q.id,
           stops \subseteq stops', unseen \subseteq unseen',
           \A g \in DOMAIN gens :
               gens[g].status = "running" /\ (dialog.gen = g \/ \E p \in posts : Pending(p, g)) =>
                   \/ dialog'.gen = g \/ g \in stops' \/ gens[g].request \in unseen'
                   \/ \E q \in posts' : Pending(q, g),
           \A q \in posts' : q.kind = "handoff" /\ ~q.waiting => q.id \in unseen',
           \A q \in posts' : q.run => dialog'.open /\ dialog'.gen = 0,
           RunsOnce(posts'), ~dialog'.open => dialog'.gen = 0,
           dialog'.finished => dialog'.gen # 0 /\ gens[dialog'.gen].status # "running"
    PROVE  IInv'
<1>1. WorkspaceType /\ AnswerInv /\ TurnInv /\ HandoffInv /\ StatusStep
  BY Types, StatusStays DEF IInv
<1>2. WorkspaceType'
  <2>1. Len(gens) <= Len(gens')
    BY Types
  <2> QED BY <1>1, <2>1, Types, TypeStep
<1>3. AnswerInv'
  BY <1>1, AnswerStep
<1>4. TurnInv'
  BY <1>1, TurnStep
<1>5. ASSUME NEW g \in DOMAIN gens, gens[g].purpose = "handoff", gens[g].status = "running"
      PROVE  Seen(g)'
  <2>1. Seen(g)
    BY <1>1, <1>5 DEF HandoffInv
  <2>2. \/ dialog.gen = g \/ g \in stops \/ gens[g].request \in unseen
        \/ \E p \in posts : Pending(p, g)
    BY <2>1 DEF Seen, Pending
  <2>3. \/ dialog'.gen = g \/ g \in stops' \/ gens[g].request \in unseen'
        \/ \E q \in posts' : Pending(q, g)
    BY <1>5, <2>2
  <2> QED BY <2>3 DEF Seen, Pending
<1>6. HandoffInv'
  BY <1>5 DEF HandoffInv
<1> QED BY <1>2, <1>3, <1>4, <1>6 DEF IInv

\* What the dialog may be.
LEMMA DialogTypes ==
    ASSUME IInv
    PROVE  /\ dialog \in [open : BOOLEAN, gen : 0 .. Len(gens), finished : BOOLEAN]
           /\ NoDialog \in [open : BOOLEAN, gen : 0 .. Len(gens), finished : BOOLEAN]
           /\ ~NoDialog.open /\ NoDialog.gen = 0 /\ ~NoDialog.finished
           /\ \A e, f \in ids : e.key = f.key => e = f
           /\ \A p \in posts : p.run => dialog.open /\ dialog.gen = 0
           /\ ~dialog.open => dialog.gen = 0
           /\ dialog.finished => dialog.gen # 0 /\ gens[dialog.gen].status # "running"
           /\ \A p \in posts : p.kind = "handoff" /\ ~p.waiting => p.id \in unseen
<1>1. Len(gens) \in Nat
  BY Types
<1> QED BY <1>1 DEF IInv, WorkspaceType, TurnInv, HandoffInv, NoDialog

\* The handoff's generation is known: the dialog follows it, or it is stopped.
LEMMA HandoffAnsweredInv ==
    ASSUME IInv, NEW p \in posts, HandoffAnswered(p)
    PROVE  IInv'
<1>1. /\ p.kind = "handoff" /\ p.phase = "done" /\ posts' = posts \ {p}
      /\ ids' = {e \in ids : e.key # <<"handoff", p.thread>>}
      /\ \/ ~p.run /\ stops' = stops \cup {p.gen} /\ dialog' = dialog
         \/ p.run /\ dialog' = [dialog EXCEPT !.gen = p.gen] /\ stops' = stops
      /\ UNCHANGED <<server, page, drafts, typed, requests, unseen, loads>>
  BY DEF HandoffAnswered, HandoffLate, Forget
<1>2. p.gen \in DOMAIN gens /\ p.gen \in 0 .. Len(gens) /\ p.gen # 0
  <2>1. p.gen \in DOMAIN gens
    BY <1>1 DEF IInv, AnswerInv
  <2> QED BY <2>1, Types
<1>3. UNCHANGED <<gens, view, detail>>
  BY <1>1 DEF server, page
<1>4. \A q \in posts' : q \in posts /\ q # p
  BY <1>1
<1>5. RunsOnce(posts')
  BY <1>4, Types DEF RunsOnce
<1>6. \A v, d, i : Entry(v, d, i) \in ids => Entry(v, d, i) \in ids'
  BY <1>1 DEF Entry
<1>7. \A e, f \in ids' : e.key = f.key => e = f
  BY <1>1, DialogTypes
<1>8. CASE ~p.run /\ stops' = stops \cup {p.gen} /\ dialog' = dialog
  <2>1. \A g \in DOMAIN gens :
          gens[g].status = "running" /\ (dialog.gen = g \/ \E r \in posts : Pending(r, g)) =>
              \/ dialog'.gen = g \/ g \in stops' \/ gens[g].request \in unseen'
              \/ \E q \in posts' : Pending(q, g)
    BY <1>1, <1>8 DEF Pending
  <2>2. stops \subseteq stops'
    BY <1>8
  <2> QED BY <1>1, <1>3, <1>4, <1>5, <1>6, <1>7, <1>8, <2>1, <2>2, Types, DialogTypes, DialogStep
<1>9. CASE p.run /\ dialog' = [dialog EXCEPT !.gen = p.gen] /\ stops' = stops
  <2>1. dialog.open /\ dialog.gen = 0 /\ ~dialog.finished
    BY <1>9, DialogTypes
  <2>2. /\ dialog' \in [open : BOOLEAN, gen : 0 .. Len(gens), finished : BOOLEAN]
        /\ dialog'.gen = p.gen /\ dialog'.open /\ ~dialog'.finished
    BY <1>2, <1>9, <2>1, DialogTypes
  <2>3. \A q \in posts' : ~q.run
    BY <1>4, <1>9, Types DEF RunsOnce
  <2>4. \A g \in DOMAIN gens :
          gens[g].status = "running" /\ (dialog.gen = g \/ \E r \in posts : Pending(r, g)) =>
              \/ dialog'.gen = g \/ g \in stops' \/ gens[g].request \in unseen'
              \/ \E q \in posts' : Pending(q, g)
    <3>1. \A g \in DOMAIN gens : g # 0
      BY Types
    <3> QED BY <1>1, <2>1, <2>2, <3>1 DEF Pending
  <2> QED BY <1>1, <1>3, <1>4, <1>5, <1>6, <1>7, <1>9, <2>2, <2>3, <2>4, Types, DialogTypes, DialogStep
<1> QED BY <1>1, <1>8, <1>9

\* It is refused.
LEMMA HandoffRefusedInv ==
    ASSUME IInv, NEW p \in posts, HandoffRefused(p)
    PROVE  IInv'
<1>1. /\ p.kind = "handoff" /\ p.phase \in {"refused", "missing"} /\ posts' = posts \ {p}
      /\ dialog' = IF p.run THEN NoDialog ELSE dialog
      /\ UNCHANGED <<server, page, input, stops, unseen, loads>>
  BY DEF HandoffRefused
<1>2. UNCHANGED <<gens, view, detail, drafts, ids, typed, requests, stops, unseen, loads>>
  BY <1>1 DEF server, page, input
<1>3. \A q \in posts' : q \in posts /\ q # p
  BY <1>1
<1>4. RunsOnce(posts') /\ (p.run => \A q \in posts' : ~q.run)
  BY <1>3, Types DEF RunsOnce
<1>5. \A g \in DOMAIN gens :
        gens[g].status = "running" /\ (dialog.gen = g \/ \E r \in posts : Pending(r, g)) =>
            \/ dialog'.gen = g \/ g \in stops' \/ gens[g].request \in unseen'
            \/ \E q \in posts' : Pending(q, g)
  <2>1. \A g \in DOMAIN gens : g # 0
    BY Types
  <2>2. p.run => dialog.gen = 0
    BY DialogTypes
  <2> QED BY <1>1, <2>1, <2>2 DEF Pending
<1>6. /\ dialog' \in [open : BOOLEAN, gen : 0 .. Len(gens), finished : BOOLEAN]
      /\ \A q \in posts' : q.run => dialog'.open /\ dialog'.gen = 0
      /\ ~dialog'.open => dialog'.gen = 0
      /\ dialog'.finished => dialog'.gen # 0 /\ gens[dialog'.gen].status # "running"
  BY <1>1, <1>3, <1>4, DialogTypes
<1> QED BY <1>2, <1>3, <1>4, <1>5, <1>6, Types, DialogTypes, DialogStep

\* The loaded conversation forgets a handoff that is over.
LEMMA ClearedType ==
    ASSUME IInv, NEW g, Cleared(g)
    PROVE  DetailType(detail', Len(gens))
<1>1. DetailType(detail, Len(gens)) /\ Len(gens) \in Nat
  BY Types
<1>2. PICK d : d = [detail EXCEPT !.handoff = 0]
  OBVIOUS
<1>3. DetailType(d, Len(gens))
  BY <1>1, <1>2 DEF DetailType, DetailFields
<1> QED BY <1>1, <1>2, <1>3 DEF Cleared

\* The handoff in the dialog ended.
LEMMA HandoffEndsInv ==
    ASSUME IInv, HandoffEnds
    PROVE  IInv'
<1>1. /\ dialog.gen # 0 /\ gens[dialog.gen].status # "running" /\ Cleared(dialog.gen)
      /\ dialog' = NoDialog \/ dialog' = [dialog EXCEPT !.finished = TRUE]
      /\ UNCHANGED <<server, view, input, stops, unseen, loads, posts>>
  BY DEF HandoffEnds
<1>2. UNCHANGED <<gens, view, drafts, ids, typed, requests, stops, unseen, loads, posts>>
  BY <1>1 DEF server, input
<1>3. DetailType(detail', Len(gens))
  BY <1>1, ClearedType
<1>4. \A p \in posts : ~p.run
  BY <1>1, DialogTypes
<1>5. dialog.open
  BY <1>1, DialogTypes
<1>6. /\ dialog' \in [open : BOOLEAN, gen : 0 .. Len(gens), finished : BOOLEAN]
      /\ ~dialog'.open => dialog'.gen = 0
      /\ dialog'.finished => dialog'.gen # 0 /\ gens[dialog'.gen].status # "running"
  BY <1>1, <1>5, DialogTypes
<1>7. \A g \in DOMAIN gens :
        gens[g].status = "running" /\ (dialog.gen = g \/ \E r \in posts : Pending(r, g)) =>
            \/ dialog'.gen = g \/ g \in stops' \/ gens[g].request \in unseen'
            \/ \E q \in posts' : Pending(q, g)
  BY <1>1, <1>2
<1> QED BY <1>2, <1>3, <1>4, <1>6, <1>7, Types, DialogTypes, DialogStep

\* What the requests are once the dialog waits for none of them.
LEMMA Unwaited ==
    ASSUME IInv
    PROVE  /\ \A q \in Left(posts) : PostType(q) /\ ~q.run
           /\ \A q \in Left(posts) : q.draft # 0 => \E p \in posts : p.draft = q.draft /\ p.id = q.id
           /\ \A q \in Left(posts) : q.phase = "done" /\ q.kind # "delete" =>
                \E p \in posts : p.phase = "done" /\ p.kind = q.kind /\ p.gen = q.gen /\ p.id = q.id
           /\ \A q \in Left(posts) : q.kind = "handoff" /\ ~q.waiting => q.id \in unseen
           /\ \A g : \A p \in posts : Pending(p, g) => \E q \in Left(posts) : Pending(q, g)
<1>1. \A p \in posts : PostType(p)
  BY Types
<1>2. /\ \A q \in Left(posts) : ~q.run /\ \E p \in posts : Copy(q, p)
      /\ \A p \in posts : \E q \in Left(posts) : Copy(q, p)
  BY <1>1, LeftSet
<1>3. \A q \in Left(posts) : q.kind = "handoff" /\ ~q.waiting => q.id \in unseen
  BY <1>2, DialogTypes DEF Copy
<1> QED BY <1>2, <1>3 DEF Copy, Pending

\* The dialog is closed.
LEMMA CloseHandoffInv ==
    ASSUME IInv, CloseHandoff
    PROVE  IInv'
<1>1. /\ dialog' = NoDialog /\ posts' = Left(posts)
      /\ \/ dialog.gen # 0 /\ ~dialog.finished /\ stops' = stops \cup {dialog.gen} /\ Cleared(dialog.gen)
         \/ (dialog.gen = 0 \/ dialog.finished) /\ UNCHANGED <<stops, detail>>
      /\ UNCHANGED <<server, view, input, unseen, loads>>
  BY DialogTypes DEF CloseHandoff
<1>2. UNCHANGED <<gens, view, drafts, ids, typed, requests, unseen, loads>>
  BY <1>1 DEF server, input
<1>3. DetailType(detail', Len(gens)) /\ stops \subseteq stops'
  BY <1>1, ClearedType, Types
<1>4. RunsOnce(posts')
  BY <1>1, Unwaited DEF RunsOnce
<1>5. \A g \in DOMAIN gens :
        gens[g].status = "running" /\ (dialog.gen = g \/ \E r \in posts : Pending(r, g)) =>
            \/ dialog'.gen = g \/ g \in stops' \/ gens[g].request \in unseen'
            \/ \E q \in posts' : Pending(q, g)
  <2>1. \A g \in DOMAIN gens : g # 0
    BY Types
  <2>2. \A g : \A r \in posts : Pending(r, g) => \E q \in posts' : Pending(q, g)
    BY <1>1, Unwaited
  <2>3. dialog.finished => gens[dialog.gen].status # "running"
    BY DialogTypes
  <2> QED BY <1>1, <2>1, <2>2, <2>3
<1> QED BY <1>1, <1>2, <1>3, <1>4, <1>5, Unwaited, Types, DialogTypes, DialogStep

\* An answer is lost: the dialog closes if it waited for it, and nobody is
\* told of the handoff.
LEMMA PostLostInv ==
    ASSUME IInv, NEW p \in posts, PostLost(p)
    PROVE  IInv'
<1>1. PICK lost : lost = [p EXCEPT !.waiting = FALSE, !.here = FALSE, !.run = FALSE]
  OBVIOUS
<1>2. /\ p.waiting
      /\ \/ posts' = posts \ {p}
         \/ p.phase = "sent" /\ posts' = (posts \ {p}) \cup {lost}
      /\ dialog' = IF p.kind = "handoff" /\ p.run THEN NoDialog ELSE dialog
      /\ unseen' = IF p.kind = "handoff" THEN unseen \cup {p.id} ELSE unseen
      /\ UNCHANGED <<server, page, input, stops, loads>>
  BY <1>1 DEF PostLost
<1>3. UNCHANGED <<gens, view, detail, drafts, ids, typed, requests, stops, loads>>
  BY <1>2 DEF server, page, input
<1>4. /\ PostType(lost) /\ lost.kind = p.kind /\ lost.id = p.id /\ lost.draft = p.draft
      /\ lost.phase = p.phase /\ lost.gen = p.gen /\ ~lost.waiting /\ ~lost.run
  BY <1>1, Types, WaitingGone
<1>5. /\ \A q \in posts' : (q \in posts /\ q # p) \/ (q = lost /\ p.phase = "sent")
      /\ \A q \in posts : q = p \/ q \in posts'
  BY <1>2
<1>6. RunsOnce(posts') /\ (p.run => \A q \in posts' : ~q.run)
  BY <1>4, <1>5, Types DEF RunsOnce
<1>7. unseen \subseteq unseen' /\ (p.kind = "handoff" => p.id \in unseen')
  BY <1>2
<1>8. \A g \in DOMAIN gens :
        gens[g].status = "running" /\ (dialog.gen = g \/ \E r \in posts : Pending(r, g)) =>
            \/ dialog'.gen = g \/ g \in stops' \/ gens[g].request \in unseen'
            \/ \E q \in posts' : Pending(q, g)
  <2> SUFFICES ASSUME NEW g \in DOMAIN gens, dialog.gen = g \/ \E r \in posts : Pending(r, g)
               PROVE  \/ dialog'.gen = g \/ gens[g].request \in unseen'
                      \/ \E q \in posts' : Pending(q, g)
    OBVIOUS
  <2>1. g # 0
    BY Types
  <2>2. CASE dialog.gen = g
    BY <1>2, <2>1, <2>2, DialogTypes
  <2>3. ASSUME NEW r \in posts, Pending(r, g)
        PROVE  gens[g].request \in unseen' \/ \E q \in posts' : Pending(q, g)
    <3>1. CASE r = p
      <4>1. p.kind = "handoff" /\ p.phase = "done" /\ p.gen = g
        BY <2>3, <3>1 DEF Pending
      <4>2. gens[g].request = p.id
        BY <4>1 DEF IInv, AnswerInv
      <4> QED BY <1>7, <4>1, <4>2
    <3>2. CASE r # p
      BY <1>5, <2>3, <3>2
    <3> QED BY <3>1, <3>2
  <2> QED BY <2>2, <2>3
<1>9. /\ dialog' \in [open : BOOLEAN, gen : 0 .. Len(gens), finished : BOOLEAN]
      /\ \A q \in posts' : q.run => dialog'.open /\ dialog'.gen = 0
      /\ ~dialog'.open => dialog'.gen = 0
      /\ dialog'.finished => dialog'.gen # 0 /\ gens[dialog'.gen].status # "running"
  BY <1>2, <1>4, <1>5, <1>6, DialogTypes
<1>10. /\ \A q \in posts' : PostType(q)
       /\ \A q \in posts' : q.draft # 0 => \E r \in posts : r.draft = q.draft /\ r.id = q.id
       /\ \A q \in posts' : q.phase = "done" /\ q.kind # "delete" =>
            \E r \in posts : r.phase = "done" /\ r.kind = q.kind /\ r.gen = q.gen /\ r.id = q.id
  BY <1>4, <1>5, Types
<1>11. \A q \in posts' : q.kind = "handoff" /\ ~q.waiting => q.id \in unseen'
  BY <1>4, <1>5, <1>7, DialogTypes
<1> QED BY <1>3, <1>6, <1>7, <1>8, <1>9, <1>10, <1>11, Types, DialogTypes, DialogStep
-----------------------------------------------------------------------------
(* Requests.                                                               *)

\* requestIdFor: the request gets the id that belongs to it, and ids remembers
\* one for every key.
LEMMA RequestId ==
    ASSUME IInv, NEW kind, NEW t, NEW draft, NEW of, NEW key, NEW part, NEW ps,
           Request(kind, t, draft, of, key, part, ps)
    PROVE  \E id \in Nat :
             /\ posts' = ps \cup {Post(kind, t, draft, of, id)}
             /\ ids' = {e \in ids : e.key # key} \cup {[key |-> key, part |-> part, id |-> id]}
             /\ \A e \in ids : e.key = key /\ e.part = part => e.id = id
             /\ requests' \in Nat
             /\ \A e, f \in ids' : e.key = f.key => e = f
<1>1. PICK id : id = IF KnownIds(key, part) = {} THEN requests + 1
                     ELSE (CHOOSE e \in KnownIds(key, part) : TRUE).id
  OBVIOUS
<1>2. /\ ids' = {e \in ids : e.key # key} \cup {[key |-> key, part |-> part, id |-> id]}
      /\ requests' = Max({requests, id})
      /\ posts' = ps \cup {Post(kind, t, draft, of, id)}
  BY <1>1 DEF Request
<1>3. \A e \in ids : e.id \in Nat
  BY Types DEF WorkspaceType
<1>4. requests \in Nat /\ \A e, f \in ids : e.key = f.key => e = f
  BY Types, DialogTypes
<1>5. id \in Nat /\ \A e \in ids : e.key = key /\ e.part = part => e.id = id
  <2>1. CASE KnownIds(key, part) = {}
    BY <1>1, <1>4, <2>1 DEF KnownIds
  <2>2. CASE KnownIds(key, part) # {}
    <3>1. PICK f : f = CHOOSE e \in KnownIds(key, part) : TRUE
      OBVIOUS
    <3>2. f \in KnownIds(key, part)
      BY <2>2, <3>1
    <3>3. f \in ids /\ f.key = key /\ f.part = part /\ id = f.id
      BY <1>1, <2>2, <3>1, <3>2 DEF KnownIds
    <3> QED BY <1>3, <1>4, <3>3
  <2> QED BY <2>1, <2>2
<1>6. requests' \in Nat
  <2>1. PICK n \in Nat : n = requests + id
    BY <1>4, <1>5
  <2>2. PICK S : S = {requests, id}
    OBVIOUS
  <2>3. S \in SUBSET (0 .. n) /\ S # {}
    BY <1>4, <1>5, <2>1, <2>2
  <2>4. Max(S) \in S
    BY <2>1, <2>3, MaxIn
  <2> QED BY <1>2, <1>4, <1>5, <2>2, <2>4
<1>7. \A e, f \in ids' : e.key = f.key => e = f
  BY <1>2, <1>4
<1> QED BY <1>2, <1>5, <1>6, <1>7

\* One more request, which is not for a handoff.
LEMMA OneMore ==
    ASSUME IInv, NEW new, PostType(new), new.kind # "handoff", ~new.run, new.phase = "sent",
           posts' = posts \cup {new}
    PROVE  /\ \A q \in posts' : PostType(q)
           /\ \A q \in posts' : q.phase = "done" /\ q.kind # "delete" =>
                \E p \in posts : p.phase = "done" /\ p.kind = q.kind /\ p.gen = q.gen /\ p.id = q.id
           /\ \A q \in posts' : q.kind = "handoff" /\ ~q.waiting => q.id \in unseen
           /\ \A q \in posts' : q.run => \E p \in posts : p.run
           /\ RunsOnce(posts')
           /\ \A g : \A p \in posts : Pending(p, g) => \E q \in posts' : Pending(q, g)
<1>1. RunsOnce(posts')
  BY Types DEF RunsOnce
<1> QED BY <1>1, Types, DialogTypes

\* A step that makes one, with what ids then remembers.
LEMMA Asking ==
    ASSUME IInv, UNCHANGED <<gens, view, detail, loads, drafts, typed, dialog, stops, unseen>>,
           NEW new, PostType(new), new.kind # "handoff", ~new.run, new.phase = "sent",
           posts' = posts \cup {new}, requests' \in Nat,
           \A e \in ids' : e \in ids \/ \E k, t : \E i \in Nat : e = [key |-> k, part |-> t, id |-> i],
           TurnInv'
    PROVE  IInv'
<1>1. WorkspaceType /\ AnswerInv /\ HandoffInv /\ StatusStep
  BY Types, StatusStays DEF IInv
<1>2. /\ \A q \in posts' : PostType(q)
      /\ \A q \in posts' : q.phase = "done" /\ q.kind # "delete" =>
           \E p \in posts : p.phase = "done" /\ p.kind = q.kind /\ p.gen = q.gen /\ p.id = q.id
      /\ \A q \in posts' : q.kind = "handoff" /\ ~q.waiting => q.id \in unseen
      /\ \A q \in posts' : q.run => \E p \in posts : p.run
      /\ RunsOnce(posts')
      /\ \A g : \A p \in posts : Pending(p, g) => \E q \in posts' : Pending(q, g)
  BY OneMore
<1>3. WorkspaceType'
  <2>1. Len(gens) <= Len(gens')
    BY Types
  <2> QED BY <1>1, <1>2, <2>1, Types, DialogTypes, TypeStep
<1>4. AnswerInv'
  BY <1>1, <1>2, AnswerStep
<1>5. HandoffInv'
  BY <1>1, <1>2, HandoffStep
<1> QED BY <1>3, <1>4, <1>5 DEF IInv

\* A deletion is asked for.
LEMMA DeleteInv ==
    ASSUME IInv, NEW t \in Threads, Delete(t)
    PROVE  IInv'
<1>1. PICK new : new = Post("delete", t, 0, 0, 0)
  OBVIOUS
<1>2. posts' = posts \cup {new} /\ UNCHANGED <<server, page, input, handoffs, loads>>
  BY <1>1 DEF Delete
<1>3. t \in 0 .. MaxThreads
  BY DEF Threads
<1>4. PostType(new) /\ new.kind = "delete" /\ ~new.run /\ new.phase = "sent" /\ new.draft = 0
  BY <1>1, <1>3 DEF Post, PostType, PostFields
<1>5. UNCHANGED <<gens, view, detail, loads, drafts, ids, typed, requests, dialog, stops, unseen>>
  BY <1>2 DEF server, page, input, handoffs
<1>6. TurnInv'
  <2>1. TurnInv /\ WorkspaceType /\ StatusStep
    BY <1>5, Types, StatusStays DEF IInv
  <2>2. \A q \in posts' : q.draft # 0 => \E p \in posts : p.draft = q.draft /\ p.id = q.id
    BY <1>2, <1>4
  <2> QED BY <1>5, <2>1, <2>2, DialogTypes, TurnStep
<1> QED BY <1>2, <1>4, <1>5, <1>6, Types, Asking

\* A retry is asked for.
LEMMA RetryInv ==
    ASSUME IInv, Retry
    PROVE  IInv'
<1>1. /\ Request("retry", view, 0, shown.id, <<"retry", shown.id>>, 0, posts)
      /\ UNCHANGED <<server, page, drafts, typed, handoffs, loads>>
  BY DEF Retry
<1>2. PICK id \in Nat :
        /\ posts' = posts \cup {Post("retry", view, 0, shown.id, id)}
        /\ ids' = {e \in ids : e.key # <<"retry", shown.id>>}
                    \cup {[key |-> <<"retry", shown.id>>, part |-> 0, id |-> id]}
        /\ requests' \in Nat
        /\ \A e, f \in ids' : e.key = f.key => e = f
  BY <1>1, RequestId
<1>3. PICK new : new = Post("retry", view, 0, shown.id, id)
  OBVIOUS
<1>4. PostType(new) /\ new.kind = "retry" /\ ~new.run /\ new.phase = "sent" /\ new.draft = 0
  BY <1>3, Types DEF Post, PostType, PostFields
<1>5. UNCHANGED <<gens, view, detail, loads, drafts, typed, dialog, stops, unseen>>
  BY <1>1 DEF server, page, handoffs
<1>6. TurnInv'
  <2>1. TurnInv /\ WorkspaceType /\ StatusStep
    BY <1>5, Types, StatusStays DEF IInv
  <2>2. \A q \in posts' : q.draft # 0 => \E p \in posts : p.draft = q.draft /\ p.id = q.id
    BY <1>2, <1>3, <1>4
  <2>3. \A v, d, i : Entry(v, d, i) \in ids => Entry(v, d, i) \in ids'
    BY <1>2 DEF Entry
  <2> QED BY <1>2, <1>5, <2>1, <2>2, <2>3, TurnStep
<1>7. posts' = posts \cup {new}
  BY <1>2, <1>3
<1>8. \A e \in ids' : e \in ids \/ \E k, t : \E i \in Nat : e = [key |-> k, part |-> t, id |-> i]
  BY <1>2
<1> QED BY <1>2, <1>4, <1>5, <1>6, <1>7, <1>8, Asking

\* A message is sent, for the first time or again.
LEMMA SendInv ==
    ASSUME IInv, Send
    PROVE  IInv'
<1>1. PICK d, key : d = drafts[view] /\ key = <<"send", view>>
  OBVIOUS
<1>2. /\ Request("send", view, d, 0, key, d, posts) /\ d # 0
      /\ UNCHANGED <<server, page, drafts, typed, handoffs, loads>>
  BY <1>1 DEF Send
<1>3. PICK id \in Nat :
        /\ posts' = posts \cup {Post("send", view, d, 0, id)}
        /\ ids' = {e \in ids : e.key # key} \cup {[key |-> key, part |-> d, id |-> id]}
        /\ \A e \in ids : e.key = key /\ e.part = d => e.id = id
        /\ requests' \in Nat
        /\ \A e, f \in ids' : e.key = f.key => e = f
  BY <1>2, RequestId
<1>4. PICK new : new = Post("send", view, d, 0, id)
  OBVIOUS
<1>5. view \in 0 .. MaxThreads /\ d \in Nat /\ drafts \in [0 .. MaxThreads -> Nat] /\ typed \in Nat
  BY <1>1, Types
<1>6. /\ PostType(new) /\ new.kind = "send" /\ ~new.run /\ new.phase = "sent"
      /\ new.draft = d /\ new.id = id
  BY <1>4, <1>5 DEF Post, PostType, PostFields
<1>7. UNCHANGED <<gens, view, detail, loads, drafts, typed, dialog, stops, unseen>>
  BY <1>2 DEF server, page, handoffs
<1>8. posts' = posts \cup {new}
  BY <1>3, <1>4
<1>9. TurnInv /\ Entry(view, d, id) \in ids'
  BY <1>1, <1>3 DEF IInv, Entry
<1>10. TurnInv'
  <2>1. \A c \in Nat : \A i \in Nat : SentAs(c, i)' => SentAs(c, i) \/ (c = d /\ i = id)
    BY <1>6, <1>7, <1>8 DEF SentAs
  <2>2. \A i \in Nat : SentAs(d, i) => i = id
    <3> SUFFICES ASSUME NEW i \in Nat, SentAs(d, i) PROVE i = id
      OBVIOUS
    <3>1. Entry(view, d, i) \in ids
      <4>1. \A v \in 0 .. MaxThreads : \A j \in Nat :
              drafts[v] # 0 /\ SentAs(drafts[v], j) => Entry(v, drafts[v], j) \in ids
        BY <1>9 DEF TurnInv
      <4> QED BY <1>1, <1>2, <1>5, <4>1
    <3>2. Entry(view, d, i).key = key /\ Entry(view, d, i).part = d /\ Entry(view, d, i).id = i
      BY <1>1 DEF Entry
    <3> QED BY <1>3, <3>1, <3>2
  <2>3. \A c \in Nat \ {0} : \A i, j \in Nat : SentAs(c, i)' /\ SentAs(c, j)' => i = j
    BY <1>9, <2>1, <2>2 DEF TurnInv
  <2>4. \A c \in Nat \ {0} : \A i \in Nat : SentAs(c, i)' => c <= typed'
    BY <1>1, <1>5, <1>7, <1>9, <2>1 DEF TurnInv
  <2>5. \A v \in 0 .. MaxThreads : \A i \in Nat :
          drafts'[v] # 0 /\ SentAs(drafts[v], i)' => Entry(v, drafts[v], i)' \in ids'
    <3> SUFFICES ASSUME NEW v \in 0 .. MaxThreads, NEW i \in Nat, drafts'[v] # 0,
                        SentAs(drafts[v], i)'
                 PROVE  Entry(v, drafts[v], i)' \in ids'
      OBVIOUS
    <3>1. PICK c \in Nat : c = drafts[v] /\ c = drafts'[v] /\ c # 0
      BY <1>5, <1>7
    <3>2. SentAs(c, i)'
      BY <3>1 DEF SentAs
    <3>3. CASE v = view
      <4>1. c = d
        BY <1>1, <3>1, <3>3
      <4>2. i = id
        BY <2>1, <2>2, <3>2, <4>1
      <4> QED BY <1>9, <3>1, <3>3, <4>1, <4>2 DEF Entry
    <3>4. CASE v # view
      <4>1. c # d
        BY <1>1, <1>2, <1>5, <1>9, <3>1, <3>4 DEF TurnInv
      <4>2. SentAs(c, i)
        BY <2>1, <3>2, <4>1
      <4>3. Entry(v, c, i) \in ids
        BY <1>9, <3>1, <4>2 DEF TurnInv
      <4>4. Entry(v, c, i).key # key
        BY <1>1, <3>4 DEF Entry
      <4>5. Entry(v, c, i) \in ids'
        BY <1>3, <4>3, <4>4
      <4> QED BY <3>1, <4>5 DEF Entry
    <3> QED BY <3>3, <3>4
  <2> QED BY <1>3, <1>7, <1>9, <2>3, <2>4, <2>5 DEF TurnInv
<1>11. \A e \in ids' : e \in ids \/ \E k, t : \E i \in Nat : e = [key |-> k, part |-> t, id |-> i]
  BY <1>3
<1> QED BY <1>3, <1>6, <1>7, <1>8, <1>10, <1>11, Asking

\* A new message is typed: nothing was sent of it.
LEMMA TypeInv ==
    ASSUME IInv, Type
    PROVE  IInv'
<1>1. /\ typed' = typed + 1 /\ drafts' = [drafts EXCEPT ![view] = typed + 1]
      /\ UNCHANGED <<server, page, ids, requests, handoffs, loads, posts>>
  BY DEF Type
<1>2. view \in 0 .. MaxThreads /\ drafts \in [0 .. MaxThreads -> Nat] /\ typed \in Nat
  BY Types
<1>3. UNCHANGED <<gens, view, detail, ids, requests, dialog, stops, unseen, loads, posts>>
  BY <1>1 DEF server, page, handoffs
<1>4. WorkspaceType /\ AnswerInv /\ TurnInv /\ HandoffInv /\ StatusStep
  BY <1>3, Types, StatusStays DEF IInv
<1>5. /\ drafts' \in [0 .. MaxThreads -> Nat] /\ typed' \in Nat
      /\ \A v \in 0 .. MaxThreads : drafts'[v] = IF v = view THEN typed + 1 ELSE drafts[v]
  BY <1>1, <1>2
<1>6. WorkspaceType'
  <2>1. Len(gens) <= Len(gens')
    BY <1>3, Types
  <2> QED BY <1>3, <1>4, <1>5, <2>1, Types, DialogTypes, TypeStep
<1>7. AnswerInv'
  BY <1>3, <1>4 DEF AnswerInv
<1>8. HandoffInv'
  BY <1>3, <1>4 DEF HandoffInv, Seen
<1>9. TurnInv'
  <2>1. \A d \in Nat : \A i \in Nat : SentAs(d, i)' <=> SentAs(d, i)
    BY <1>3 DEF SentAs
  <2>2. \A v \in 0 .. MaxThreads : drafts[v] <= typed
    BY <1>4 DEF TurnInv
  <2>3. \A d \in Nat \ {0} : \A i \in Nat : SentAs(d, i) => d <= typed
    BY <1>4 DEF TurnInv
  <2>4. \A d \in Nat \ {0} : \A i \in Nat : SentAs(d, i)' => d <= typed'
    BY <1>1, <1>2, <2>1, <2>3
  <2>5. \A v \in 0 .. MaxThreads : drafts'[v] <= typed'
    BY <1>1, <1>2, <1>5, <2>2
  <2>6. \A v, w \in 0 .. MaxThreads : drafts'[v] = drafts'[w] /\ drafts'[v] # 0 => v = w
    <3>1. \A v, w \in 0 .. MaxThreads : drafts[v] = drafts[w] /\ drafts[v] # 0 => v = w
      BY <1>4 DEF TurnInv
    <3> QED BY <1>2, <1>5, <2>2, <3>1
  <2>7. \A v \in 0 .. MaxThreads : \A i \in Nat :
          drafts'[v] # 0 /\ SentAs(drafts[v], i)' => Entry(v, drafts[v], i)' \in ids'
    <3> SUFFICES ASSUME NEW v \in 0 .. MaxThreads, NEW i \in Nat, drafts'[v] # 0,
                        SentAs(drafts[v], i)'
                 PROVE  Entry(v, drafts[v], i)' \in ids'
      OBVIOUS
    <3>1. PICK d \in Nat : d = drafts'[v] /\ d # 0
      BY <1>5
    <3>2. SentAs(d, i)'
      BY <3>1 DEF SentAs
    <3>3. d <= typed
      BY <2>1, <2>3, <3>1, <3>2
    <3>4. d = drafts[v]
      BY <1>2, <1>5, <3>1, <3>3
    <3>5. Entry(v, d, i) \in ids
      BY <1>4, <2>1, <3>1, <3>2, <3>4 DEF TurnInv
    <3> QED BY <1>3, <3>1, <3>5 DEF Entry
  <2>8. \A d \in Nat \ {0} : \A i, j \in Nat : SentAs(d, i)' /\ SentAs(d, j)' => i = j
    BY <1>4, <2>1 DEF TurnInv
  <2> QED BY <1>3, <1>4, <2>4, <2>5, <2>6, <2>7, <2>8 DEF TurnInv
<1> QED BY <1>6, <1>7, <1>8, <1>9 DEF IInv

\* The dialog is opened: it follows the handoff that runs, or asks for one.
LEMMA OpenHandoffInv ==
    ASSUME IInv, OpenHandoff
    PROVE  IInv'
<1>1. /\ ~dialog.open /\ view # 0
      /\ dialog' = [open |-> TRUE, gen |-> detail.handoff, finished |-> FALSE]
      /\ UNCHANGED <<server, page, drafts, typed, stops, unseen, loads>>
  BY DEF OpenHandoff, ModalOpen
<1>2. UNCHANGED <<gens, view, detail, drafts, typed, stops, unseen, loads>>
  BY <1>1 DEF server, page
<1>3. detail.handoff \in 0 .. Len(gens)
  BY Types DEF DetailType
<1>4. /\ dialog' \in [open : BOOLEAN, gen : 0 .. Len(gens), finished : BOOLEAN]
      /\ dialog'.open /\ ~dialog'.finished /\ dialog'.gen = detail.handoff
  BY <1>1, <1>3
<1>5. dialog.gen = 0 /\ \A g \in DOMAIN gens : g # 0
  BY <1>1, DialogTypes, Types
<1>6. \A q \in Left(posts) : PostType(q) /\ ~q.run
  BY Unwaited
<1>7. CASE posts' = Left(posts) /\ UNCHANGED <<ids, requests>>
  <2>1. RunsOnce(posts')
    BY <1>6, <1>7 DEF RunsOnce
  <2>2. \A g \in DOMAIN gens :
          gens[g].status = "running" /\ (dialog.gen = g \/ \E r \in posts : Pending(r, g)) =>
              \/ dialog'.gen = g \/ g \in stops' \/ gens[g].request \in unseen'
              \/ \E q \in posts' : Pending(q, g)
    BY <1>5, <1>7, Unwaited
  <2> QED BY <1>2, <1>4, <1>6, <1>7, <2>1, <2>2, Unwaited, Types, DialogTypes, DialogStep
<1>8. CASE /\ detail.handoff = 0
           /\ Request("handoff", view, 0, 0, <<"handoff", view>>, Len(detail.messages), Left(posts))
  <2>1. PICK id \in Nat :
          /\ posts' = Left(posts) \cup {Post("handoff", view, 0, 0, id)}
          /\ ids' = {e \in ids : e.key # <<"handoff", view>>}
               \cup {[key |-> <<"handoff", view>>, part |-> Len(detail.messages), id |-> id]}
          /\ requests' \in Nat
          /\ \A e, f \in ids' : e.key = f.key => e = f
    <3>1. PICK key, part, ps :
            key = <<"handoff", view>> /\ part = Len(detail.messages) /\ ps = Left(posts)
      OBVIOUS
    <3>2. Request("handoff", view, 0, 0, key, part, ps)
      BY <1>8, <3>1
    <3>3. \E id \in Nat :
            /\ posts' = ps \cup {Post("handoff", view, 0, 0, id)}
            /\ ids' = {e \in ids : e.key # key} \cup {[key |-> key, part |-> part, id |-> id]}
            /\ requests' \in Nat
            /\ \A e, f \in ids' : e.key = f.key => e = f
      BY <3>2, RequestId
    <3> QED BY <3>1, <3>3
  <2>2. PICK new : new = Post("handoff", view, 0, 0, id)
    OBVIOUS
  <2>3. PostType(new) /\ new.kind = "handoff" /\ new.waiting /\ new.phase = "sent" /\ new.draft = 0
    BY <2>2, Types DEF Post, PostType, PostFields
  <2>4. \A q \in posts' : q \in Left(posts) \/ q = new
    BY <2>1, <2>2
  <2>5. RunsOnce(posts')
    BY <1>6, <2>4 DEF RunsOnce
  <2>6. \A g \in DOMAIN gens :
          gens[g].status = "running" /\ (dialog.gen = g \/ \E r \in posts : Pending(r, g)) =>
              \/ dialog'.gen = g \/ g \in stops' \/ gens[g].request \in unseen'
              \/ \E q \in posts' : Pending(q, g)
    BY <1>5, <2>1, Unwaited
  <2>7. \A v, d, i : Entry(v, d, i) \in ids => Entry(v, d, i) \in ids'
    BY <2>1 DEF Entry
  <2>8. \A e \in ids' : e \in ids \/ \E k, t : \E i \in Nat : e = [key |-> k, part |-> t, id |-> i]
    BY <2>1
  <2>9. /\ \A q \in posts' : PostType(q)
        /\ \A q \in posts' : q.draft # 0 => \E p \in posts : p.draft = q.draft /\ p.id = q.id
        /\ \A q \in posts' : q.phase = "done" /\ q.kind # "delete" =>
             \E p \in posts : p.phase = "done" /\ p.kind = q.kind /\ p.gen = q.gen /\ p.id = q.id
        /\ \A q \in posts' : q.kind = "handoff" /\ ~q.waiting => q.id \in unseen
    BY <2>3, <2>4, Unwaited
  <2> QED BY <1>2, <1>4, <1>8, <2>1, <2>5, <2>6, <2>7, <2>8, <2>9, Types, DialogStep
<1> QED BY <1>7, <1>8 DEF OpenHandoff
-----------------------------------------------------------------------------
(* The results.                                                            *)

\* An empty page satisfies the invariant.
LEMMA InitInv ==
    ASSUME Init
    PROVE  IInv
<1>1. gens = <<>> /\ gens \in Seq(GenType) /\ Len(gens) = 0 /\ DOMAIN gens = {}
  BY DEF Init
<1>2. WorkspaceType
  <2>1. DetailType(detail, Len(gens))
    BY <1>1 DEF Init, NoDetail, DetailType, DetailFields
  <2>2. dialog \in [open : BOOLEAN, gen : 0 .. Len(gens), finished : BOOLEAN]
    BY <1>1 DEF Init, NoDialog
  <2> QED BY <1>1, <2>1, <2>2, WorkspaceAssumption DEF Init, WorkspaceType
<1>3. AnswerInv /\ TurnInv
  BY <1>1 DEF Init, AnswerInv, TurnInv, SentAs
<1>4. HandoffInv
  BY <1>1 DEF Init, HandoffInv, NoDialog, RunsOnce
<1> QED BY <1>2, <1>3, <1>4 DEF IInv

\* Every step preserves the invariant.
LEMMA NextInv ==
    ASSUME IInv, [Next]_vars
    PROVE  IInv'
<1>1. ASSUME ServerStep PROVE IInv'
  BY <1>1, FinishInv, HandleInv, HandleDeleteInv, ReadMessagesInv, ReadRowInv, ReadSnapshotInv,
     ReadStopInv, StopLostInv DEF ServerStep
<1>2. ASSUME PageStep PROVE IInv'
  BY <1>2, LoadAnsweredInv, LoadFailsInv, FollowEndsInv, FollowGoneInv, HandoffEndsInv,
     SendAnsweredInv, RetryAnsweredInv, TurnRefusedInv, DeleteAnsweredInv, HandoffAnsweredInv,
     HandoffRefusedInv, PostLostInv DEF PageStep
<1>3. ASSUME UserStep PROVE IInv'
  BY <1>3, OpenViewInv, TypeInv, SendInv, RetryInv, OpenHandoffInv, CloseHandoffInv, DeleteInv
     DEF UserStep
<1>4. ASSUME UNCHANGED vars PROVE IInv'
  <2>1. UNCHANGED <<gens, view, detail, loads, drafts, ids, typed, requests, dialog, stops,
                    unseen, posts>>
    BY <1>4 DEF vars, server, page, input, handoffs
  <2> QED BY <2>1, Types, Reading
<1> QED BY <1>1, <1>2, <1>3, <1>4 DEF Next

\* The page and the server keep the invariant, however answers come.
THEOREM WorkspaceInvariant == Spec => []IInv
BY InitInv, NextInv, PTL DEF Spec

\* A message is a turn once: every attempt of requestIdFor to send it carries
\* the id of the first, which the server answers with the turn it has.
THEOREM MessagesBecomeOneTurn == Spec => []OneTurnPerMessage
<1>1. IInv => OneTurnPerMessage
  <2> SUFFICES ASSUME IInv, NEW g \in DOMAIN gens, NEW h \in DOMAIN gens,
                      gens[g].draft # 0, gens[g].status # "deleted", gens[h].status # "deleted",
                      gens[g].draft = gens[h].draft
               PROVE  g = h
    BY DEF OneTurnPerMessage
  <2>1. gens[g] \in GenType /\ gens[h] \in GenType
    BY Types
  <2>2. PICK d \in Nat \ {0}, i \in Nat, j \in Nat :
          d = gens[g].draft /\ i = gens[g].request /\ j = gens[h].request
    BY <2>1 DEF GenType
  <2>3. SentAs(d, i) /\ SentAs(d, j)
    BY <2>2 DEF SentAs
  <2>4. i = j
    BY <2>2, <2>3 DEF IInv, TurnInv
  <2> QED BY <2>2, <2>4 DEF IInv, TurnInv
<1> QED BY <1>1, WorkspaceInvariant, PTL

\* No handoff runs unseen: the dialog shows it, its stop is under way, or the
\* answer that names it is; unless that answer or that stop was lost.
THEOREM HandoffsAreSeenOrStopped == Spec => []HandoffSeenOrStopped
<1>1. IInv => HandoffSeenOrStopped
  <2> SUFFICES ASSUME IInv, NEW g \in DOMAIN gens,
                      gens[g].purpose = "handoff", gens[g].status = "running"
               PROVE  \/ dialog.gen = g \/ g \in stops \/ gens[g].request \in unseen
                      \/ \E p \in posts : p.kind = "handoff" /\ p.waiting /\ p.id = gens[g].request
    BY DEF HandoffSeenOrStopped
  <2>1. Seen(g)
    BY DEF IInv, HandoffInv
  <2>2. \A p \in posts : p.kind = "handoff" /\ p.phase = "done" /\ p.gen = g => p.id = gens[g].request
    BY DEF IInv, AnswerInv
  <2> QED BY <2>1, <2>2 DEF Seen
<1> QED BY <1>1, WorkspaceInvariant, PTL
-----------------------------------------------------------------------------
(* The conversations.                                                      *)

\* g is a turn of conversation t, among the generations gs; no later one is.
Turn(gs, g, t) == g \in DOMAIN gs /\ gs[g].thread = t /\ gs[g].purpose = "chat"
Newest(gs, g, t) == \A h : Turn(gs, h, t) => h <= g

\* The answer to turn g is among the first n messages.
Stored(ms, g, n) == \E i \in 1 .. n : ms[i] = <<g, "answer">>

Message == Nat \X {"user", "answer"}

\* Conversation t holds messages of its turns, each once, and the answers of
\* those that are completed.
Ordered(gs, ms, t) ==
    /\ ms \in Seq(Message)
    /\ \A i \in 1 .. Len(ms) :
         /\ Turn(gs, ms[i][1], t)
         /\ ms[i][2] = "answer" => gs[ms[i][1]].status = "completed"
    /\ \A i, j \in 1 .. Len(ms) : ms[i] = ms[j] => i = j
    /\ \A g : Turn(gs, g, t) /\ gs[g].status = "completed" => Stored(ms, g, Len(ms))

\* Only the newest turn of a conversation runs.
NewestRuns(gs, t) == \A g : Turn(gs, g, t) /\ gs[g].status = "running" => Newest(gs, g, t)

\* Every conversation that is there is in order, and nothing of it is deleted.
ServerInv ==
    /\ DOMAIN messages = Threads
    /\ \A t \in exists : t \in Threads /\ \E g \in DOMAIN gens : gens[g].thread = t
    /\ \A g \in DOMAIN gens : gens[g].thread \in exists => gens[g].status # "deleted"
    /\ \A t \in Threads : Ordered(gens, messages[t], t) /\ NewestRuns(gens, t)

\* What the server may do to the conversation in view: turns end, and messages
\* are added.
Moves ==
    /\ \A g \in DOMAIN gens : g \in DOMAIN gens' /\ gens'[g].thread = gens[g].thread
                                /\ gens'[g].purpose = gens[g].purpose
    /\ view \in exists' =>
         /\ view \in exists
         /\ \A g : Turn(gens, g, view) =>
              gens'[g].status = gens[g].status \/ gens[g].status = "running"
         /\ Len(messages[view]) <= Len(messages'[view])
         /\ \A i \in 1 .. Len(messages[view]) : messages'[view][i] = messages[view][i]

\* A conversation that gets no message stays in order, ...
LEMMA OrderKept ==
    ASSUME NEW t, NEW gs, NEW hs, NEW ms, Ordered(gs, ms, t),
           \A g : Turn(gs, g, t) =>
               Turn(hs, g, t) /\ (gs[g].status = "completed" => hs[g].status = "completed"),
           \A g : Turn(hs, g, t) /\ hs[g].status = "completed" => Turn(gs, g, t) /\ gs[g].status = "completed"
    PROVE  Ordered(hs, ms, t)
BY DEF Ordered

\* ... and so does one that gets the message of a turn.
LEMMA OrderMore ==
    ASSUME NEW t, NEW gs, NEW hs, NEW ms, Ordered(gs, ms, t), NEW m \in Message,
           \A i \in 1 .. Len(ms) : ms[i] # m,
           Turn(hs, m[1], t), m[2] = "answer" => hs[m[1]].status = "completed",
           \A g : Turn(gs, g, t) =>
               Turn(hs, g, t) /\ (gs[g].status = "completed" => hs[g].status = "completed"),
           \A g : Turn(hs, g, t) /\ hs[g].status = "completed" =>
               m = <<g, "answer">> \/ (Turn(gs, g, t) /\ gs[g].status = "completed")
    PROVE  /\ Ordered(hs, Append(ms, m), t)
           /\ Len(ms) \in Nat /\ Len(Append(ms, m)) = Len(ms) + 1
           /\ \A i \in 1 .. Len(ms) : Append(ms, m)[i] = ms[i]
<1>1. PICK n \in Nat : n = Len(ms)
  BY DEF Ordered
<1>2. PICK r : r = Append(ms, m)
  OBVIOUS
<1>4. /\ r \in Seq(Message) /\ Len(r) = n + 1 /\ r[n + 1] = m
      /\ \A i \in 1 .. n : r[i] = ms[i]
  BY <1>1, <1>2, AppendProperties DEF Ordered
<1>5. /\ \A i \in 1 .. n : Turn(gs, ms[i][1], t) /\ (ms[i][2] = "answer" => gs[ms[i][1]].status = "completed")
      /\ \A i, j \in 1 .. n : ms[i] = ms[j] => i = j
      /\ \A i \in 1 .. n : ms[i] # m
  BY <1>1 DEF Ordered
<1>6. \A i \in 1 .. n + 1 : i \in 1 .. n \/ i = n + 1
  OBVIOUS
<1>7. \A i \in 1 .. n + 1 :
         Turn(hs, r[i][1], t) /\ (r[i][2] = "answer" => hs[r[i][1]].status = "completed")
  BY <1>4, <1>5, <1>6
<1>8. \A i, j \in 1 .. n + 1 : r[i] = r[j] => i = j
  BY <1>4, <1>5, <1>6
<1>9. \A g : Turn(hs, g, t) /\ hs[g].status = "completed" => \E i \in 1 .. n + 1 : r[i] = <<g, "answer">>
  <2> SUFFICES ASSUME NEW g, Turn(hs, g, t), hs[g].status = "completed"
               PROVE  \E i \in 1 .. n + 1 : r[i] = <<g, "answer">>
    OBVIOUS
  <2>1. CASE m = <<g, "answer">>
    BY <1>4, <2>1
  <2>2. CASE Turn(gs, g, t) /\ gs[g].status = "completed"
    <3>1. Stored(ms, g, n)
      BY <1>1, <2>2 DEF Ordered
    <3>2. PICK i \in 1 .. n : ms[i] = <<g, "answer">>
      BY <3>1 DEF Stored
    <3>3. i \in 1 .. n + 1 /\ r[i] = <<g, "answer">>
      BY <1>4, <3>2
    <3> QED BY <3>3
  <2> QED BY <2>1, <2>2
<1>10. Ordered(hs, r, t)
  BY <1>4, <1>7, <1>8, <1>9 DEF Ordered, Stored
<1> QED BY <1>1, <1>2, <1>4, <1>10

\* A generation ends.
LEMMA FinishServes ==
    ASSUME IInv, ServerInv, NEW g \in DOMAIN gens, NEW status \in {"completed", "failed", "over"},
           Finish(g, status)
    PROVE  ServerInv' /\ Moves
<1>1. /\ gens' = [gens EXCEPT ![g].status = status] /\ gens[g].status = "running"
      /\ (gens[g].purpose = "handoff") = (status = "over")
      /\ UNCHANGED <<exists, view>>
      /\ messages' = IF status = "completed"
                     THEN [messages EXCEPT ![gens[g].thread] = Append(@, <<g, "answer">>)]
                     ELSE messages
  BY DEF Finish, page
<1>2. /\ \A h \in DOMAIN gens : gens[h] \in GenType
      /\ g \in Nat /\ DOMAIN gens' = DOMAIN gens
  BY <1>1, Types
<1>3. \A h \in DOMAIN gens :
        /\ gens'[h].thread = gens[h].thread /\ gens'[h].purpose = gens[h].purpose
        /\ gens'[h].status = IF h = g THEN status ELSE gens[h].status
  BY <1>1, <1>2 DEF GenType
<1>4. \A h, t : Turn(gens', h, t) <=> Turn(gens, h, t)
  BY <1>2, <1>3 DEF Turn
<1>5. PICK u \in Threads : u = gens[g].thread
  BY <1>2 DEF GenType
<1>6. PICK m : m = <<g, "answer">>
  OBVIOUS
<1>7. /\ DOMAIN messages' = DOMAIN messages
      /\ \A t \in Threads : messages'[t] = IF status = "completed" /\ t = u THEN Append(messages[t], m)
                                           ELSE messages[t]
  BY <1>1, <1>5, <1>6 DEF ServerInv
<1>8. ASSUME NEW t \in Threads, ~(status = "completed" /\ t = u)
      PROVE  Ordered(gens', messages'[t], t)
  <2>1. /\ \A h : Turn(gens, h, t) =>
             Turn(gens', h, t) /\ (gens[h].status = "completed" => gens'[h].status = "completed")
        /\ \A h : Turn(gens', h, t) /\ gens'[h].status = "completed" =>
             Turn(gens, h, t) /\ gens[h].status = "completed"
    BY <1>1, <1>3, <1>4, <1>5, <1>8 DEF Turn
  <2>2. Ordered(gens, messages[t], t) /\ messages'[t] = messages[t]
    BY <1>7, <1>8 DEF ServerInv
  <2> QED BY <2>1, <2>2, OrderKept
<1>9. ASSUME status = "completed"
      PROVE  /\ Ordered(gens', messages'[u], u)
             /\ Len(messages[u]) <= Len(messages'[u])
             /\ \A i \in 1 .. Len(messages[u]) : messages'[u][i] = messages[u][i]
  <2>1. PICK ms : ms = messages[u]
    OBVIOUS
  <2>2. messages'[u] = Append(ms, m) /\ Ordered(gens, ms, u)
    BY <1>7, <1>9, <2>1 DEF ServerInv
  <2>3. m \in Message /\ m[1] = g /\ m[2] = "answer"
    BY <1>2, <1>6 DEF Message
  <2>4. \A i \in 1 .. Len(ms) : ms[i] # m
    BY <1>1, <2>2, <2>3 DEF Ordered
  <2>5. Turn(gens', m[1], u) /\ gens'[m[1]].status = "completed"
    BY <1>1, <1>2, <1>3, <1>4, <1>5, <1>9, <2>3 DEF GenType, Turn
  <2>6. /\ \A h : Turn(gens, h, u) =>
             Turn(gens', h, u) /\ (gens[h].status = "completed" => gens'[h].status = "completed")
        /\ \A h : Turn(gens', h, u) /\ gens'[h].status = "completed" =>
             m = <<h, "answer">> \/ (Turn(gens, h, u) /\ gens[h].status = "completed")
    BY <1>3, <1>4, <1>6, <1>9 DEF Turn
  <2>7. /\ Ordered(gens', Append(ms, m), u)
        /\ Len(ms) \in Nat /\ Len(Append(ms, m)) = Len(ms) + 1
        /\ \A i \in 1 .. Len(ms) : Append(ms, m)[i] = ms[i]
    BY <2>2, <2>3, <2>4, <2>5, <2>6, OrderMore
  <2> QED BY <2>1, <2>2, <2>7
<1>10. \A t \in Threads : Ordered(gens', messages'[t], t)
  BY <1>8, <1>9
<1>11. \A t \in Threads : NewestRuns(gens', t)
  BY <1>3, <1>4 DEF ServerInv, NewestRuns, Newest, Turn
<1>12. ServerInv'
  <2>1. \A h \in DOMAIN gens' : gens'[h].thread \in exists' => gens'[h].status # "deleted"
    BY <1>1, <1>2, <1>3 DEF ServerInv
  <2>2. \A t \in exists' : t \in Threads /\ \E h \in DOMAIN gens' : gens'[h].thread = t
    BY <1>1, <1>2, <1>3 DEF ServerInv
  <2> QED BY <1>7, <1>10, <1>11, <2>1, <2>2 DEF ServerInv
<1>13. Moves
  <2>1. ASSUME view \in exists
        PROVE  /\ Len(messages[view]) <= Len(messages'[view])
               /\ \A i \in 1 .. Len(messages[view]) : messages'[view][i] = messages[view][i]
    <3>1. view \in Threads /\ Ordered(gens, messages[view], view)
      BY <2>1 DEF ServerInv
    <3>2. CASE status = "completed" /\ view = u
      BY <1>9, <3>2
    <3>3. CASE ~(status = "completed" /\ view = u)
      BY <1>7, <3>1, <3>3 DEF Ordered
    <3> QED BY <3>2, <3>3
  <2> QED BY <1>1, <1>2, <1>3, <2>1 DEF Moves, Turn
<1> QED BY <1>12, <1>13

\* Steps that leave the messages alone, where a turn at most stops running.
LEMMA OnlyStopped ==
    ASSUME IInv, ServerInv, UNCHANGED <<messages, exists, view>>, DOMAIN gens' = DOMAIN gens,
           \A h \in DOMAIN gens :
               /\ gens'[h].thread = gens[h].thread /\ gens'[h].purpose = gens[h].purpose
               /\ \/ gens'[h].status = gens[h].status
                  \/ gens[h].status = "running" /\ gens'[h].status = "over"
    PROVE  ServerInv' /\ Moves
<1>1. \A h, t : Turn(gens', h, t) <=> Turn(gens, h, t)
  BY DEF Turn
<1>2. ASSUME NEW t \in Threads PROVE Ordered(gens', messages'[t], t) /\ NewestRuns(gens', t)
  <2>1. Ordered(gens, messages[t], t) /\ NewestRuns(gens, t)
    BY DEF ServerInv
  <2>2. /\ \A h : Turn(gens, h, t) =>
             Turn(gens', h, t) /\ (gens[h].status = "completed" => gens'[h].status = "completed")
        /\ \A h : Turn(gens', h, t) /\ gens'[h].status = "completed" =>
             Turn(gens, h, t) /\ gens[h].status = "completed"
    BY DEF Turn
  <2>3. Ordered(gens', messages[t], t)
    BY <2>1, <2>2, OrderKept
  <2>4. NewestRuns(gens', t)
    BY <1>1, <2>1 DEF NewestRuns, Newest, Turn
  <2> QED BY <2>3, <2>4
<1>3. ServerInv'
  <2>1. \A h \in DOMAIN gens' : gens'[h].thread \in exists' => gens'[h].status # "deleted"
    BY DEF ServerInv
  <2>2. \A t \in exists' : t \in Threads /\ \E h \in DOMAIN gens' : gens'[h].thread = t
    BY DEF ServerInv
  <2> QED BY <1>2, <2>1, <2>2 DEF ServerInv
<1>4. Moves
  <2>1. view \in exists => Ordered(gens, messages[view], view)
    BY DEF ServerInv
  <2> QED BY <2>1 DEF Moves, Turn, Ordered
<1> QED BY <1>3, <1>4

\* A stop reaches the server.
LEMMA ReadStopServes ==
    ASSUME IInv, ServerInv, NEW g \in stops, ReadStop(g)
    PROVE  ServerInv' /\ Moves
<1>1. /\ gens' = [gens EXCEPT ![g].status = IF @ = "running" THEN "over" ELSE @]
      /\ UNCHANGED <<messages, exists, view>>
  BY DEF ReadStop, page
<1>2. \A h \in DOMAIN gens : gens[h] \in GenType
  BY Types
<1>3. \A h \in DOMAIN gens : gens'[h] =
        IF h = g THEN [gens[g] EXCEPT !.status = IF @ = "running" THEN "over" ELSE @] ELSE gens[h]
  BY <1>1
<1>4. \A h \in DOMAIN gens :
         /\ gens'[h].thread = gens[h].thread /\ gens'[h].purpose = gens[h].purpose
         /\ \/ gens'[h].status = gens[h].status
            \/ gens[h].status = "running" /\ gens'[h].status = "over"
  BY <1>2, <1>3 DEF GenType
<1>5. DOMAIN gens' = DOMAIN gens
  BY <1>1
<1> QED BY <1>1, <1>4, <1>5, OnlyStopped

\* Steps that leave the server alone.
LEMMA NotServed ==
    ASSUME IInv, ServerInv, UNCHANGED <<server, view>>
    PROVE  ServerInv' /\ Moves
<1>1. UNCHANGED <<gens, messages, exists, view>>
  BY DEF server
<1> QED BY <1>1, OnlyStopped

\* A conversation is deleted.
LEMMA HandleDeleteServes ==
    ASSUME IInv, ServerInv, NEW p \in posts, HandleDelete(p)
    PROVE  ServerInv' /\ Moves
<1>1. PICK u : u = p.thread
  OBVIOUS
<1>2. /\ exists' = exists \ {u} /\ view' = view
      /\ gens' = [g \in DOMAIN gens |->
                    IF gens[g].thread = u THEN [gens[g] EXCEPT !.status = "deleted"] ELSE gens[g]]
      /\ messages' = [messages EXCEPT ![u] = <<>>]
  BY <1>1 DEF HandleDelete, page
<1>3. \A h \in DOMAIN gens : gens[h] \in GenType
  BY Types
<1>4. /\ DOMAIN gens' = DOMAIN gens
      /\ \A h \in DOMAIN gens :
           /\ gens'[h].thread = gens[h].thread /\ gens'[h].purpose = gens[h].purpose
           /\ gens'[h].status = IF gens[h].thread = u THEN "deleted" ELSE gens[h].status
  BY <1>2, <1>3 DEF GenType
<1>5. /\ DOMAIN messages' = Threads
      /\ \A t \in Threads : messages'[t] = IF t = u THEN <<>> ELSE messages[t]
  BY <1>2 DEF ServerInv
<1>6. \A h, t : Turn(gens', h, t) <=> Turn(gens, h, t)
  BY <1>4 DEF Turn
<1>7. ASSUME NEW t \in Threads PROVE Ordered(gens', messages'[t], t) /\ NewestRuns(gens', t)
  <2>1. Ordered(gens, messages[t], t) /\ NewestRuns(gens, t)
    BY DEF ServerInv
  <2>2. CASE t = u
    <3>1. <<>> \in Seq(Message) /\ Len(<<>>) = 0 /\ 1 .. 0 = {}
      OBVIOUS
    <3>2. \A h : Turn(gens', h, t) => gens'[h].status = "deleted"
      BY <1>4, <2>2 DEF Turn
    <3>3. Ordered(gens', <<>>, t)
      BY <3>1, <3>2 DEF Ordered
    <3> QED BY <1>5, <2>2, <3>2, <3>3 DEF NewestRuns
  <2>3. CASE t # u
    <3>1. /\ \A h : Turn(gens, h, t) =>
               Turn(gens', h, t) /\ (gens[h].status = "completed" => gens'[h].status = "completed")
          /\ \A h : Turn(gens', h, t) /\ gens'[h].status = "completed" =>
               Turn(gens, h, t) /\ gens[h].status = "completed"
      BY <1>4, <2>3 DEF Turn
    <3>2. Ordered(gens', messages[t], t)
      BY <2>1, <3>1, OrderKept
    <3>3. NewestRuns(gens', t)
      BY <1>4, <1>6, <2>1, <2>3 DEF NewestRuns, Newest, Turn
    <3> QED BY <1>5, <2>3, <3>2, <3>3
  <2> QED BY <2>2, <2>3
<1>8. ServerInv'
  <2>1. \A h \in DOMAIN gens' : gens'[h].thread \in exists' => gens'[h].status # "deleted"
    BY <1>2, <1>4 DEF ServerInv
  <2>2. \A t \in exists' : t \in Threads /\ \E h \in DOMAIN gens' : gens'[h].thread = t
    BY <1>2, <1>4 DEF ServerInv
  <2> QED BY <1>5, <1>7, <2>1, <2>2 DEF ServerInv
<1>9. Moves
  <2>1. ASSUME view \in exists'
        PROVE  /\ view \in exists /\ view # u
               /\ Len(messages[view]) <= Len(messages'[view])
               /\ \A i \in 1 .. Len(messages[view]) : messages'[view][i] = messages[view][i]
    <3>1. view \in exists /\ view # u
      BY <1>2, <2>1
    <3>2. view \in Threads /\ Ordered(gens, messages[view], view)
      BY <3>1 DEF ServerInv
    <3> QED BY <1>5, <3>1, <3>2 DEF Ordered
  <2> QED BY <1>4, <2>1 DEF Moves, Turn
<1> QED BY <1>8, <1>9

\* A request becomes a generation of conversation u.
Created(p, u) ==
    /\ exists' = exists \cup {u} /\ gens' = Append(gens, NewGen(p, u))
    /\ messages' = IF p.kind # "send" THEN messages
                   ELSE [messages EXCEPT ![u] = Append(@, <<Len(gens) + 1, "user">>)]

\* It is the newest of a conversation where nothing ran.
LEMMA NewServes ==
    ASSUME IInv, ServerInv, NEW p \in posts, NEW u \in Threads,
           \A g \in DOMAIN gens : gens[g].thread = u => gens[g].status # "running",
           u \in exists \/ \A g \in DOMAIN gens : gens[g].thread # u,
           view # 0 => \E g \in DOMAIN gens : gens[g].thread = view,
           Created(p, u), UNCHANGED view
    PROVE  ServerInv' /\ Moves
<1>1. PICK n \in Nat : n = Len(gens) + 1
  BY Types
<1>2. PICK new : new = NewGen(p, u)
  OBVIOUS
<1>3. /\ new \in GenType /\ new.thread = u /\ new.status = "running"
      /\ p.kind = "send" => new.purpose = "chat"
  BY <1>2, Types DEF NewGen, GenType, PostType
<1>4. /\ DOMAIN gens = 1 .. (n - 1) /\ DOMAIN gens' = DOMAIN gens \cup {n} /\ n \notin DOMAIN gens
      /\ gens'[n] = new /\ \A g \in DOMAIN gens : gens'[g] = gens[g]
  BY <1>1, <1>2, <1>3, Types, AppendProperties DEF Created
<1>5. \A h, t : Turn(gens', h, t) <=> Turn(gens, h, t) \/ (h = n /\ t = u /\ new.purpose = "chat")
  BY <1>3, <1>4 DEF Turn
<1>6. \A h \in DOMAIN gens : h <= n
  BY <1>4
<1>7. PICK m : m = <<n, "user">>
  OBVIOUS
<1>8. /\ DOMAIN messages' = Threads
      /\ \A t \in Threads : messages'[t] = IF p.kind = "send" /\ t = u THEN Append(messages[t], m)
                                           ELSE messages[t]
  BY <1>1, <1>7 DEF ServerInv, Created
<1>9. ASSUME NEW t \in Threads
      PROVE  /\ \A h : Turn(gens, h, t) =>
                  Turn(gens', h, t) /\ (gens[h].status = "completed" => gens'[h].status = "completed")
             /\ \A h : Turn(gens', h, t) /\ gens'[h].status = "completed" =>
                  Turn(gens, h, t) /\ gens[h].status = "completed"
  BY <1>3, <1>4, <1>5 DEF Turn
<1>10. ASSUME p.kind = "send"
       PROVE  /\ Ordered(gens', messages'[u], u)
              /\ Len(messages[u]) <= Len(messages'[u])
              /\ \A i \in 1 .. Len(messages[u]) : messages'[u][i] = messages[u][i]
  <2>1. PICK ms : ms = messages[u]
    OBVIOUS
  <2>2. messages'[u] = Append(ms, m) /\ Ordered(gens, ms, u)
    BY <1>8, <1>10, <2>1 DEF ServerInv
  <2>3. m \in Message /\ m[1] = n /\ m[2] = "user"
    BY <1>7 DEF Message
  <2>4. \A i \in 1 .. Len(ms) : ms[i] # m
    BY <1>4, <2>2, <2>3 DEF Ordered, Turn
  <2>5. Turn(gens', m[1], u)
    BY <1>3, <1>5, <1>10, <2>3
  <2>6. \A h : Turn(gens', h, u) /\ gens'[h].status = "completed" =>
            m = <<h, "answer">> \/ (Turn(gens, h, u) /\ gens[h].status = "completed")
    BY <1>3, <1>4, <1>5 DEF Turn
  <2>8. \A h : Turn(gens, h, u) =>
            Turn(gens', h, u) /\ (gens[h].status = "completed" => gens'[h].status = "completed")
    BY <1>4, <1>5 DEF Turn
  <2>7. /\ Ordered(gens', Append(ms, m), u)
        /\ Len(ms) \in Nat /\ Len(Append(ms, m)) = Len(ms) + 1
        /\ \A i \in 1 .. Len(ms) : Append(ms, m)[i] = ms[i]
    BY <2>2, <2>3, <2>4, <2>5, <2>6, <2>8, OrderMore
  <2> QED BY <2>1, <2>2, <2>7
<1>11. ASSUME NEW t \in Threads PROVE Ordered(gens', messages'[t], t)
  <2>1. CASE p.kind = "send" /\ t = u
    BY <1>10, <2>1
  <2>2. CASE ~(p.kind = "send" /\ t = u)
    <3>1. Ordered(gens, messages[t], t) /\ messages'[t] = messages[t]
      BY <1>8, <2>2 DEF ServerInv
    <3> QED BY <1>9, <3>1, OrderKept
  <2> QED BY <2>1, <2>2
<1>12. ASSUME NEW t \in Threads PROVE NewestRuns(gens', t)
  <2> SUFFICES ASSUME NEW g, Turn(gens', g, t), gens'[g].status = "running" PROVE Newest(gens', g, t)
    BY DEF NewestRuns
  <2>1. CASE g = n
    BY <1>4, <1>5, <1>6, <2>1 DEF Newest, Turn
  <2>2. CASE g # n
    <3>1. Turn(gens, g, t) /\ gens[g].status = "running" /\ t # u
      BY <1>4, <1>5, <2>2 DEF Turn
    <3>2. Newest(gens, g, t)
      BY <3>1 DEF ServerInv, NewestRuns
    <3> QED BY <1>5, <3>1, <3>2 DEF Newest
  <2> QED BY <2>1, <2>2
<1>13. ServerInv'
  <2>1. \A h \in DOMAIN gens' : gens'[h].thread \in exists' => gens'[h].status # "deleted"
    BY <1>3, <1>4 DEF ServerInv, Created
  <2>2. \A t \in exists' : t \in Threads /\ \E h \in DOMAIN gens' : gens'[h].thread = t
    BY <1>3, <1>4 DEF ServerInv, Created
  <2> QED BY <1>8, <1>11, <1>12, <2>1, <2>2 DEF ServerInv
<1>14. Moves
  <2>1. ASSUME view \in exists'
        PROVE  /\ view \in exists
               /\ Len(messages[view]) <= Len(messages'[view])
               /\ \A i \in 1 .. Len(messages[view]) : messages'[view][i] = messages[view][i]
    <3>1. view \in exists
      BY <2>1, WorkspaceAssumption DEF Created, Threads
    <3>2. view \in Threads /\ Ordered(gens, messages[view], view)
      BY <3>1 DEF ServerInv
    <3> QED BY <1>8, <1>10, <3>1, <3>2 DEF Ordered
  <2> QED BY <1>4, <2>1 DEF Moves, Turn
<1> QED BY <1>13, <1>14

\* The server handles a send, a retry or a request for a handoff.
LEMMA HandleServes ==
    ASSUME IInv, ServerInv, NEW p \in posts, Handle(p),
           view # 0 => \E g \in DOMAIN gens : gens[g].thread = view
    PROVE  ServerInv' /\ Moves
<1>1. view' = view
  BY DEF Handle, page
<1>2. CASE UNCHANGED server
  BY <1>1, <1>2, NotServed
<1>3. CASE ~UNCHANGED server
  <2>1. PICK u : u = IF p.thread # 0 THEN p.thread ELSE Min(NewThreads)
    OBVIOUS
  <2>2. /\ Allowed(p) /\ (p.thread = 0 => NewThreads # {})
        /\ Created(p, u)
    BY <1>3, <2>1 DEF Handle, Created
  <2>3. CASE p.thread # 0
    <3>1. u \in exists /\ Running(u) = {} /\ u \in Threads
      BY <2>1, <2>2, <2>3 DEF Allowed, ServerInv
    <3> QED BY <1>1, <2>2, <3>1, NewServes DEF Running
  <2>4. CASE p.thread = 0
    <3>1. NewThreads \in SUBSET Nat /\ NewThreads # {}
      BY <2>2, <2>4, WorkspaceAssumption DEF NewThreads, Threads
    <3>2. u \in NewThreads
      BY <2>1, <2>4, <3>1, MinIn
    <3>3. u \in Threads /\ \A g \in DOMAIN gens : gens[g].thread # u
      BY <3>2 DEF NewThreads
    <3> QED BY <1>1, <2>2, <3>3, NewServes
  <2> QED BY <2>3, <2>4
<1> QED BY <1>2, <1>3
-----------------------------------------------------------------------------
(* Who asked for a generation.                                             *)

\* The key of a request, and what it may have made of it.
Key(p) == <<p.kind, IF p.kind = "retry" THEN p.of ELSE p.thread>>

MadeFor(gs, g, key) ==
    /\ gs[g].purpose = (IF key[1] = "handoff" THEN "handoff" ELSE "chat")
    /\ key[1] = "send" /\ key[2] # 0 => gs[g].thread = key[2]
    /\ key[1] = "retry" => key[2] \in DOMAIN gs /\ gs[g].thread = gs[key[2]].thread

\* Every request id belongs to one key.
Owner(owner) ==
    /\ \A p \in posts : p.kind # "delete" => p.id <= requests /\ owner[p.id] = Key(p)
    /\ \A e \in ids : e.id <= requests /\ owner[e.id] = e.key
    /\ \A g \in DOMAIN gens :
         gens[g].request <= requests /\ MadeFor(gens, g, owner[gens[g].request])

OwnerInv == \E owner : Owner(owner)

\* A retry names a turn of its conversation, and its view while that stays.
PostInv ==
    \A p \in posts :
        /\ p.kind = "retry" => p.of \in DOMAIN gens /\ gens[p.of].thread = p.thread
        /\ p.here => p.kind = "retry" /\ p.thread = view /\ detail.thread = view

\* q is p, as far as this matters.
Alike(q, p) ==
    /\ q.kind = p.kind /\ q.thread = p.thread /\ q.of = p.of /\ q.id = p.id
    /\ q.here => p.here

\* A request is the same when it is answered, lost, or no longer waited for.
LEMMA AlikeExcept ==
    ASSUME NEW p, PostType(p)
    PROVE  /\ \A ph : Alike([p EXCEPT !.phase = ph], p)
           /\ \A ph, g : Alike([p EXCEPT !.phase = ph, !.gen = g], p)
           /\ Alike([p EXCEPT !.run = FALSE], p)
           /\ Alike([p EXCEPT !.here = FALSE], p) /\ ~[p EXCEPT !.here = FALSE].here
           /\ Alike([p EXCEPT !.waiting = FALSE, !.here = FALSE, !.run = FALSE], p)
BY DEF PostType, PostFields, Alike

\* No request is made, and no generation.
LEMMA OwnerStep ==
    ASSUME OwnerInv, PostInv, DOMAIN gens' = DOMAIN gens,
           \A g \in DOMAIN gens :
               /\ gens'[g].thread = gens[g].thread /\ gens'[g].purpose = gens[g].purpose
               /\ gens'[g].request = gens[g].request,
           requests' = requests, ids' \subseteq ids,
           \A q \in posts' : \E p \in posts : Alike(q, p),
           (view' = view /\ detail'.thread \in {detail.thread, view}) \/ \A q \in posts' : ~q.here
    PROVE  OwnerInv' /\ PostInv'
<1>1. PICK owner : Owner(owner)
  BY DEF OwnerInv
<1>2. \A q \in posts' : q.kind # "delete" => q.id <= requests /\ owner[q.id] = Key(q)
  BY <1>1 DEF Owner, Alike, Key
<1>3. \A g \in DOMAIN gens' :
        gens'[g].request <= requests /\ MadeFor(gens', g, owner[gens'[g].request])
  <2> SUFFICES ASSUME NEW g \in DOMAIN gens
               PROVE  gens'[g].request <= requests /\ MadeFor(gens', g, owner[gens'[g].request])
    OBVIOUS
  <2>1. PICK key : key = owner[gens[g].request]
    OBVIOUS
  <2>2. gens[g].request <= requests /\ MadeFor(gens, g, key)
    BY <1>1, <2>1 DEF Owner
  <2>3. MadeFor(gens', g, key)
    BY <2>2 DEF MadeFor
  <2> QED BY <2>1, <2>2, <2>3
<1>4. \A e \in ids' : e.id <= requests /\ owner[e.id] = e.key
  BY <1>1 DEF Owner
<1>5. Owner(owner)'
  BY <1>2, <1>3, <1>4 DEF Owner
<1>6. PostInv'
  BY DEF PostInv, Alike
<1> QED BY <1>5, <1>6 DEF OwnerInv

\* The answer to a request becomes a generation of the same conversation.
LEMMA OwnerNew ==
    ASSUME IInv, OwnerInv, PostInv, NEW p \in posts, p.kind # "delete", NEW u \in Threads,
           p.thread # 0 => u = p.thread,
           Created(p, u), NEW q, Answered(p, q), Alike(q, p),
           UNCHANGED <<ids, requests, view, detail>>
    PROVE  OwnerInv' /\ PostInv'
<1>1. PICK owner : Owner(owner)
  BY DEF OwnerInv
<1>2. PICK n \in Nat : n = Len(gens) + 1
  BY Types
<1>3. PICK new : new = NewGen(p, u)
  OBVIOUS
<1>4. /\ new \in GenType /\ new.thread = u /\ new.request = p.id
      /\ new.purpose = (IF p.kind = "handoff" THEN "handoff" ELSE "chat")
  BY <1>3, Types DEF NewGen, GenType, PostType
<1>5. /\ DOMAIN gens' = DOMAIN gens \cup {n} /\ n \notin DOMAIN gens
      /\ gens'[n] = new /\ \A g \in DOMAIN gens : gens'[g] = gens[g]
  BY <1>2, <1>3, <1>4, Types, AppendProperties DEF Created
<1>6. \A r \in posts' : r \in posts \/ r = q
  BY DEF Answered
<1>7. \A r \in posts' : \E s \in posts : Alike(r, s)
  BY <1>6 DEF Alike
<1>8. \A r \in posts' : r.kind # "delete" => r.id <= requests /\ owner[r.id] = Key(r)
  BY <1>1, <1>7 DEF Owner, Alike, Key
<1>9. ASSUME NEW g \in DOMAIN gens'
      PROVE  gens'[g].request <= requests /\ MadeFor(gens', g, owner[gens'[g].request])
  <2>1. PICK key : key = owner[gens'[g].request]
    OBVIOUS
  <2>2. CASE g = n
    <3>1. gens'[g].request = p.id /\ p.id <= requests /\ key = Key(p)
      BY <1>1, <1>4, <1>5, <2>1, <2>2 DEF Owner
    <3>2. p.kind = "retry" => p.of \in DOMAIN gens /\ gens[p.of].thread = p.thread
                                /\ p.thread \in Threads
      <4>1. \A h \in DOMAIN gens : gens[h] \in GenType
        BY Types
      <4> QED BY <4>1 DEF PostInv, GenType
    <3>3. 0 \notin Threads
      BY WorkspaceAssumption DEF Threads
    <3>4. MadeFor(gens', g, key)
      BY <1>4, <1>5, <2>2, <3>1, <3>2, <3>3 DEF MadeFor, Key
    <3> QED BY <2>1, <3>1, <3>4
  <2>3. CASE g # n
    <3>1. g \in DOMAIN gens /\ gens'[g] = gens[g]
      BY <1>5, <2>3
    <3>2. gens[g].request <= requests /\ MadeFor(gens, g, key)
      BY <1>1, <2>1, <3>1 DEF Owner
    <3>3. MadeFor(gens', g, key)
      BY <1>5, <3>1, <3>2 DEF MadeFor
    <3> QED BY <2>1, <3>1, <3>2, <3>3
  <2> QED BY <2>2, <2>3
<1>10. \A e \in ids : e.id <= requests /\ owner[e.id] = e.key
  BY <1>1 DEF Owner
<1>11. Owner(owner)'
  BY <1>8, <1>9, <1>10 DEF Owner
<1>12. PostInv'
  BY <1>5, <1>7 DEF PostInv, Alike
<1> QED BY <1>11, <1>12 DEF OwnerInv

\* A request is made: its id belongs to its key.
LEMMA OwnerRequest ==
    ASSUME IInv, OwnerInv, PostInv,
           NEW kind, NEW t, NEW draft, NEW of, NEW key, NEW part, NEW ps,
           Request(kind, t, draft, of, key, part, ps),
           kind # "delete", key = <<kind, IF kind = "retry" THEN of ELSE t>>,
           kind = "retry" => of \in DOMAIN gens /\ gens[of].thread = t /\ t = view /\ detail.thread = view,
           \A q \in ps : \E p \in posts : Alike(q, p),
           UNCHANGED <<gens, view, detail>>
    PROVE  OwnerInv' /\ PostInv'
<1>1. PICK owner : Owner(owner)
  BY DEF OwnerInv
<1>2. PICK id : id = IF KnownIds(key, part) = {} THEN requests + 1
                     ELSE (CHOOSE e \in KnownIds(key, part) : TRUE).id
  OBVIOUS
<1>3. PICK new : new = Post(kind, t, draft, of, id)
  OBVIOUS
<1>4. /\ ids' = {e \in ids : e.key # key} \cup {[key |-> key, part |-> part, id |-> id]}
      /\ requests' = Max({requests, id})
      /\ posts' = ps \cup {new}
  BY <1>2, <1>3 DEF Request
<1>5. /\ new.kind = kind /\ new.thread = t /\ new.of = of /\ new.id = id
      /\ new.here => kind = "retry"
  BY <1>3 DEF Post
<1>6. requests \in Nat /\ \A e \in ids : e.id \in Nat
  BY Types DEF WorkspaceType
<1>7. id \in Nat /\ (id = requests + 1 \/ (id <= requests /\ owner[id] = key))
  <2>1. CASE KnownIds(key, part) = {}
    BY <1>2, <1>6, <2>1
  <2>2. CASE KnownIds(key, part) # {}
    <3>1. PICK f : f = CHOOSE e \in KnownIds(key, part) : TRUE
      OBVIOUS
    <3>2. f \in KnownIds(key, part)
      BY <2>2, <3>1
    <3>3. f \in ids /\ f.key = key /\ id = f.id
      BY <1>2, <2>2, <3>1, <3>2 DEF KnownIds
    <3> QED BY <1>1, <1>6, <3>3 DEF Owner
  <2> QED BY <2>1, <2>2
<1>8. requests' \in Nat /\ id <= requests' /\ requests <= requests'
  <2>1. PICK m \in {requests, id} : requests <= m /\ id <= m
    BY <1>6, <1>7
  <2>2. \E x \in {requests, id} : \A y \in {requests, id} : x >= y
    BY <1>6, <1>7, <2>1
  <2> QED BY <1>4, <1>6, <1>7, <2>2 DEF Max
<1>9. PICK held : held = [i \in Nat |-> IF i = id THEN key ELSE owner[i]]
  OBVIOUS
<1>10. \A i \in Nat : i <= requests => held[i] = owner[i]
  BY <1>6, <1>7, <1>9
<1>11. held[id] = key
  BY <1>7, <1>9
<1>12. ASSUME NEW q \in posts', q.kind # "delete"
       PROVE  q.id <= requests' /\ held[q.id] = Key(q)
  <2>1. CASE q = new
    BY <1>5, <1>8, <1>11, <2>1 DEF Key
  <2>2. CASE q \in ps
    <3>1. PICK p \in posts : Alike(q, p)
      BY <2>2
    <3>2. p.id <= requests /\ owner[p.id] = Key(p) /\ p.id \in Nat
      BY <1>1, <1>12, <3>1, Types DEF Owner, Alike, PostType
    <3> QED BY <1>6, <1>8, <1>10, <3>1, <3>2 DEF Alike, Key
  <2> QED BY <1>4, <2>1, <2>2
<1>13. \A e \in ids' : e.id <= requests' /\ held[e.id] = e.key
  BY <1>1, <1>4, <1>6, <1>8, <1>10, <1>11 DEF Owner
<1>14. ASSUME NEW g \in DOMAIN gens
       PROVE  gens[g].request <= requests' /\ MadeFor(gens, g, held[gens[g].request])
  <2>1. PICK i \in Nat : i = gens[g].request
    <3>1. gens[g] \in GenType
      BY Types
    <3> QED BY <3>1 DEF GenType
  <2>2. i <= requests /\ MadeFor(gens, g, owner[i])
    BY <1>1, <2>1 DEF Owner
  <2> QED BY <1>6, <1>8, <1>10, <2>1, <2>2
<1>15. Owner(held)'
  BY <1>12, <1>13, <1>14 DEF Owner
<1>16. PostInv'
  <2> SUFFICES ASSUME NEW q \in posts'
               PROVE  /\ q.kind = "retry" => q.of \in DOMAIN gens /\ gens[q.of].thread = q.thread
                      /\ q.here => q.kind = "retry" /\ q.thread = view /\ detail.thread = view
    BY DEF PostInv
  <2>1. CASE q = new
    BY <1>5, <2>1
  <2>2. CASE q \in ps
    BY <2>2 DEF PostInv, Alike
  <2> QED BY <1>4, <2>1, <2>2
<1> QED BY <1>15, <1>16 DEF OwnerInv

\* Requests that are answered or given up.
LEMMA OwnerFewer ==
    ASSUME IInv, OwnerInv, PostInv, UNCHANGED <<gens, requests>>, ids' \subseteq ids,
           posts' \subseteq posts,
           view' = view /\ detail'.thread \in {detail.thread, view}
    PROVE  OwnerInv' /\ PostInv'
<1>1. \A q \in posts' : \E p \in posts : Alike(q, p)
  BY DEF Alike
<1> QED BY <1>1, OwnerStep

\* The view is left.
LEMMA OwnerEnter ==
    ASSUME IInv, OwnerInv, PostInv, UNCHANGED <<gens, requests>>, ids' \subseteq ids,
           NEW ps \in SUBSET posts, posts' = {[p EXCEPT !.here = FALSE] : p \in ps}
    PROVE  OwnerInv' /\ PostInv'
<1>1. \A q \in posts' : ~q.here /\ \E p \in posts : Alike(q, p)
  <2> SUFFICES ASSUME NEW q \in posts' PROVE ~q.here /\ \E p \in posts : Alike(q, p)
    OBVIOUS
  <2>1. PICK p \in ps : q = [p EXCEPT !.here = FALSE]
    OBVIOUS
  <2>2. p \in posts /\ PostType(p)
    BY Types
  <2> QED BY <2>1, <2>2, AlikeExcept
<1> QED BY <1>1, OwnerStep

\* What the server does keeps the owners, ...
LEMMA ServerStepOwner ==
    ASSUME IInv, ServerInv, OwnerInv, PostInv, ServerStep
    PROVE  OwnerInv' /\ PostInv'
<1>1. \A g \in DOMAIN gens : gens[g] \in GenType
  BY Types
<1>2. \A p \in posts : \E q \in posts : Alike(p, q)
  BY DEF Alike
<1>3. ASSUME NEW g \in DOMAIN gens, NEW status \in {"completed", "failed", "over"}, Finish(g, status)
      PROVE  OwnerInv' /\ PostInv'
  <2>1. /\ gens' = [gens EXCEPT ![g].status = status]
        /\ UNCHANGED <<posts, ids, requests, view, detail>>
    BY <1>3 DEF Finish, page, input
  <2>2. /\ DOMAIN gens' = DOMAIN gens
        /\ \A h \in DOMAIN gens :
             /\ gens'[h].thread = gens[h].thread /\ gens'[h].purpose = gens[h].purpose
             /\ gens'[h].request = gens[h].request
    BY <1>1, <2>1 DEF GenType
  <2> QED BY <1>2, <2>1, <2>2, OwnerStep
<1>4. ASSUME NEW g \in stops, ReadStop(g) PROVE OwnerInv' /\ PostInv'
  <2>1. /\ gens' = [gens EXCEPT ![g].status = IF @ = "running" THEN "over" ELSE @]
        /\ UNCHANGED <<posts, ids, requests, view, detail>>
    BY <1>4 DEF ReadStop, page, input
  <2>2. \A h \in DOMAIN gens : gens'[h] =
          IF h = g THEN [gens[g] EXCEPT !.status = IF @ = "running" THEN "over" ELSE @] ELSE gens[h]
    BY <2>1
  <2>3. /\ DOMAIN gens' = DOMAIN gens
        /\ \A h \in DOMAIN gens :
             /\ gens'[h].thread = gens[h].thread /\ gens'[h].purpose = gens[h].purpose
             /\ gens'[h].request = gens[h].request
    BY <1>1, <2>1, <2>2 DEF GenType
  <2> QED BY <1>2, <2>1, <2>3, OwnerStep
<1>5. ASSUME NEW p \in posts, HandleDelete(p) PROVE OwnerInv' /\ PostInv'
  <2>1. PICK u : u = p.thread
    OBVIOUS
  <2>2. PICK q : q = [p EXCEPT !.phase = "done"]
    OBVIOUS
  <2>3. /\ gens' = [g \in DOMAIN gens |->
                      IF gens[g].thread = u THEN [gens[g] EXCEPT !.status = "deleted"] ELSE gens[g]]
        /\ Answered(p, q) /\ UNCHANGED <<ids, requests, view, detail>>
    BY <1>5, <2>1, <2>2 DEF HandleDelete, page, input
  <2>4. /\ DOMAIN gens' = DOMAIN gens
        /\ \A h \in DOMAIN gens :
             /\ gens'[h].thread = gens[h].thread /\ gens'[h].purpose = gens[h].purpose
             /\ gens'[h].request = gens[h].request
    BY <1>1, <2>3 DEF GenType
  <2>5. Alike(q, p)
    BY <2>2, Types, AlikeExcept
  <2>6. \A r \in posts' : \E s \in posts : Alike(r, s)
    BY <1>2, <2>3, <2>5 DEF Answered
  <2> QED BY <2>3, <2>4, <2>6, OwnerStep
<1>6. ASSUME NEW p \in posts, Handle(p) PROVE OwnerInv' /\ PostInv'
  <2>1. /\ UNCHANGED <<ids, requests, view, detail>> /\ p.kind # "delete"
    BY <1>6 DEF Handle, page, input
  <2>2. PICK q : Answered(p, q) /\ Alike(q, p)
                 /\ (UNCHANGED gens \/ (Allowed(p) /\ (p.thread = 0 => NewThreads # {})
                      /\ Created(p, IF p.thread # 0 THEN p.thread ELSE Min(NewThreads))))
    <3>1. /\ \A ph : Alike([p EXCEPT !.phase = ph], p)
          /\ \A ph, g : Alike([p EXCEPT !.phase = ph, !.gen = g], p)
      BY Types, AlikeExcept
    <3>2. \/ (\E g : Answered(p, [p EXCEPT !.phase = "done", !.gen = g])) /\ UNCHANGED gens
          \/ (\E ph : Answered(p, [p EXCEPT !.phase = ph])) /\ UNCHANGED gens
          \/ /\ \E g : Answered(p, [p EXCEPT !.phase = "done", !.gen = g])
             /\ Allowed(p) /\ (p.thread = 0 => NewThreads # {})
             /\ Created(p, IF p.thread # 0 THEN p.thread ELSE Min(NewThreads))
      BY <1>6 DEF Handle, Created, server
    <3> QED BY <3>1, <3>2
  <2>3. CASE UNCHANGED gens
    <3>1. \A r \in posts' : \E s \in posts : Alike(r, s)
      BY <1>2, <2>2 DEF Answered
    <3> QED BY <2>1, <2>3, <3>1, OwnerStep
  <2>4. CASE /\ Allowed(p) /\ (p.thread = 0 => NewThreads # {})
             /\ Created(p, IF p.thread # 0 THEN p.thread ELSE Min(NewThreads))
    <3>1. PICK u : u = IF p.thread # 0 THEN p.thread ELSE Min(NewThreads)
      OBVIOUS
    <3>2. u \in Threads /\ (p.thread # 0 => u = p.thread)
      <4>1. CASE p.thread # 0
        BY <2>4, <3>1, <4>1 DEF Allowed, ServerInv
      <4>2. CASE p.thread = 0
        <5>1. NewThreads \in SUBSET Nat /\ NewThreads # {}
          BY <2>4, <4>2, WorkspaceAssumption DEF NewThreads, Threads
        <5>2. u \in NewThreads
          BY <3>1, <4>2, <5>1, MinIn
        <5> QED BY <4>2, <5>2 DEF NewThreads
      <4> QED BY <4>1, <4>2
    <3>3. Created(p, u)
      BY <2>4, <3>1
    <3> QED BY <2>1, <2>2, <3>2, <3>3, OwnerNew
  <2> QED BY <2>2, <2>3, <2>4
<1>7. ASSUME UNCHANGED <<gens, ids, requests, posts, view, detail>> PROVE OwnerInv' /\ PostInv'
  BY <1>7, OwnerFewer
<1>8. ASSUME NEW l \in loads, ReadMessages(l) \/ ReadRow(l) \/ ReadSnapshot(l)
      PROVE  OwnerInv' /\ PostInv'
  BY <1>7, <1>8 DEF ReadMessages, ReadRow, ReadSnapshot, server, page, input
<1>9. ASSUME NEW g \in stops, StopLost(g) PROVE OwnerInv' /\ PostInv'
  BY <1>7, <1>9 DEF StopLost, server, page, input
<1> QED BY <1>3, <1>4, <1>5, <1>6, <1>8, <1>9 DEF ServerStep

\* Requests that are no longer waited for.
LEMMA OwnerLeft ==
    ASSUME IInv
    PROVE  \A q \in Left(posts) : \E p \in posts : Alike(q, p)
<1> SUFFICES ASSUME NEW q \in Left(posts) PROVE \E p \in posts : Alike(q, p)
  OBVIOUS
<1>1. PICK p \in posts : q = [p EXCEPT !.run = FALSE]
  BY DEF Left
<1> QED BY <1>1, Types, AlikeExcept

\* ... and so does what the page does with the answers ...
LEMMA PageStepOwner ==
    ASSUME IInv, OwnerInv, PostInv, PageStep
    PROVE  OwnerInv' /\ PostInv'
<1>1. \A g : Cleared(g) => detail'.thread = detail.thread
  BY Types DEF Cleared, DetailType, DetailFields
<1>2. ASSUME NEW l \in loads, LoadAnswered(l) PROVE OwnerInv' /\ PostInv'
  <2>1. UNCHANGED <<gens, ids, requests, posts, view>> /\ detail'.thread \in {detail.thread, view}
    <3>1. UNCHANGED <<gens, ids, requests, posts, view>> /\ (detail' = detail \/ detail' = Merged(l))
      BY <1>2 DEF LoadAnswered, server, input
    <3>2. Merged(l).thread = view
      BY DEF Merged
    <3> QED BY <3>1, <3>2
  <2> QED BY <2>1, OwnerFewer
<1>3. ASSUME NEW l \in loads, LoadFails(l) PROVE OwnerInv' /\ PostInv'
  <2>1. UNCHANGED <<gens, ids, requests>>
    BY <1>3 DEF LoadFails, server, input
  <2>2. CASE l.kind = "open" \/ l.phase = "gone"
    <3>1. posts' = {[p EXCEPT !.here = FALSE] : p \in posts}
      BY <1>3, <2>2 DEF LoadFails, EnterNew, Enter
    <3> QED BY <2>1, <3>1, OwnerEnter
  <2>3. CASE ~(l.kind = "open" \/ l.phase = "gone")
    <3>1. UNCHANGED <<posts, view, detail>>
      BY <1>3, <2>3 DEF LoadFails
    <3> QED BY <2>1, <3>1, OwnerFewer
  <2> QED BY <2>2, <2>3
<1>4. ASSUME FollowEnds \/ FollowGone PROVE OwnerInv' /\ PostInv'
  <2>1. UNCHANGED <<gens, ids, requests, posts, view, detail>>
    BY <1>4 DEF FollowEnds, FollowGone, server, input
  <2> QED BY <2>1, OwnerFewer
<1>5. ASSUME HandoffEnds PROVE OwnerInv' /\ PostInv'
  <2>1. UNCHANGED <<gens, ids, requests, posts, view>> /\ Cleared(dialog.gen)
    BY <1>5 DEF HandoffEnds, server, input
  <2> QED BY <1>1, <2>1, OwnerFewer
<1>6. ASSUME NEW p \in posts, SendAnswered(p) PROVE OwnerInv' /\ PostInv'
  <2>1. UNCHANGED <<gens, requests>> /\ ids' \subseteq ids
    BY <1>6 DEF SendAnswered, server, Forget
  <2>2. CASE view = p.thread /\ view = 0
    <3>1. PICK ps : ps = posts \ {p}
      OBVIOUS
    <3>2. posts' = {[q EXCEPT !.here = FALSE] : q \in ps} /\ ps \in SUBSET posts
      BY <1>6, <2>2, <3>1 DEF SendAnswered
    <3> QED BY <2>1, <3>2, OwnerEnter
  <2>3. CASE ~(view = p.thread /\ view = 0)
    <3>1. posts' \subseteq posts /\ UNCHANGED <<view, detail>>
      BY <1>6, <2>3 DEF SendAnswered, page
    <3> QED BY <2>1, <3>1, OwnerFewer
  <2> QED BY <2>2, <2>3
<1>7. ASSUME NEW p \in posts, RetryAnswered(p) PROVE OwnerInv' /\ PostInv'
  <2>1. UNCHANGED <<gens, requests, view, detail>> /\ ids' \subseteq ids /\ posts' \subseteq posts
    BY <1>7 DEF RetryAnswered, server, page, Forget
  <2> QED BY <2>1, OwnerFewer
<1>8. ASSUME NEW p \in posts, TurnRefused(p) \/ HandoffAnswered(p) \/ HandoffRefused(p)
      PROVE  OwnerInv' /\ PostInv'
  <2>1. UNCHANGED <<gens, requests, view, detail>> /\ ids' \subseteq ids /\ posts' \subseteq posts
    BY <1>8 DEF TurnRefused, HandoffAnswered, HandoffRefused, server, page, input, Forget
  <2> QED BY <2>1, OwnerFewer
<1>9. ASSUME NEW p \in posts, DeleteAnswered(p) PROVE OwnerInv' /\ PostInv'
  <2>1. UNCHANGED <<gens, ids, requests>>
    BY <1>9 DEF DeleteAnswered, server
  <2>2. CASE view = p.thread
    <3>1. PICK ps : ps = posts \ {p}
      OBVIOUS
    <3>2. posts' = {[q EXCEPT !.here = FALSE] : q \in ps} /\ ps \in SUBSET posts
      BY <1>9, <2>2, <3>1 DEF DeleteAnswered, EnterNew, Enter
    <3> QED BY <2>1, <3>2, OwnerEnter
  <2>3. CASE view # p.thread
    <3>1. posts' \subseteq posts /\ UNCHANGED <<view, detail>>
      BY <1>9, <2>3 DEF DeleteAnswered, page
    <3> QED BY <2>1, <3>1, OwnerFewer
  <2> QED BY <2>2, <2>3
<1>10. ASSUME NEW p \in posts, PostLost(p) PROVE OwnerInv' /\ PostInv'
  <2>1. UNCHANGED <<gens, ids, requests, view, detail>>
    BY <1>10 DEF PostLost, server, page, input
  <2>2. PICK q : q = [p EXCEPT !.waiting = FALSE, !.here = FALSE, !.run = FALSE]
    OBVIOUS
  <2>3. Alike(q, p)
    BY <2>2, Types, AlikeExcept
  <2>4. \A r \in posts' : r \in posts \/ r = q
    BY <1>10, <2>2 DEF PostLost
  <2>5. \A r \in posts' : \E s \in posts : Alike(r, s)
    BY <2>3, <2>4 DEF Alike
  <2> QED BY <2>1, <2>5, OwnerStep
<1> QED BY <1>2, <1>3, <1>4, <1>5, <1>6, <1>7, <1>8, <1>9, <1>10 DEF PageStep

\* ... and what the user does.
LEMMA UserStepOwner ==
    ASSUME IInv, OwnerInv, PostInv, UserStep,
           shown.status = "failed" => shown.id \in DOMAIN gens /\ gens[shown.id].thread = view
    PROVE  OwnerInv' /\ PostInv'
<1>1. \A p \in posts : \E q \in posts : Alike(p, q)
  BY DEF Alike
<1>2. ASSUME NEW v \in 0 .. MaxThreads, OpenView(v) PROVE OwnerInv' /\ PostInv'
  <2>1. UNCHANGED <<gens, ids, requests>> /\ posts' = {[p EXCEPT !.here = FALSE] : p \in posts}
    BY <1>2 DEF OpenView, EnterNew, Enter, server, input
  <2> QED BY <2>1, OwnerEnter
<1>3. ASSUME Type PROVE OwnerInv' /\ PostInv'
  <2>1. UNCHANGED <<gens, ids, requests, posts, view, detail>>
    BY <1>3 DEF Type, server, page
  <2> QED BY <2>1, OwnerFewer
<1>4. ASSUME Send PROVE OwnerInv' /\ PostInv'
  <2>1. PICK key, d : key = <<"send", view>> /\ d = drafts[view]
    OBVIOUS
  <2>2. Request("send", view, d, 0, key, d, posts) /\ UNCHANGED <<gens, view, detail>>
    BY <1>4, <2>1 DEF Send, server, page
  <2>3. key = <<"send", IF "send" = "retry" THEN 0 ELSE view>>
    BY <2>1
  <2> QED BY <1>1, <2>2, <2>3, OwnerRequest
<1>5. ASSUME Retry PROVE OwnerInv' /\ PostInv'
  <2>1. PICK key, of : key = <<"retry", of>> /\ of = shown.id
    OBVIOUS
  <2>2. /\ Request("retry", view, 0, of, key, 0, posts) /\ UNCHANGED <<gens, view, detail>>
        /\ shown.status = "failed" /\ detail.thread = view
    BY <1>5, <2>1 DEF Retry, ComposerShown, server, page
  <2>3. key = <<"retry", IF "retry" = "retry" THEN of ELSE view>>
    BY <2>1
  <2> QED BY <1>1, <2>1, <2>2, <2>3, OwnerRequest
<1>6. ASSUME OpenHandoff PROVE OwnerInv' /\ PostInv'
  <2>1. PICK key, part, ps : key = <<"handoff", view>> /\ part = Len(detail.messages) /\ ps = Left(posts)
    OBVIOUS
  <2>2. /\ UNCHANGED <<gens, view, detail>>
        /\ \/ posts' = ps /\ UNCHANGED <<ids, requests>>
           \/ Request("handoff", view, 0, 0, key, part, ps)
    BY <1>6, <2>1 DEF OpenHandoff, server, page
  <2>3. key = <<"handoff", IF "handoff" = "retry" THEN 0 ELSE view>>
    BY <2>1
  <2>4. \A q \in ps : \E p \in posts : Alike(q, p)
    BY <2>1, OwnerLeft
  <2>5. CASE posts' = ps /\ UNCHANGED <<ids, requests>>
    BY <2>2, <2>4, <2>5, OwnerStep
  <2>6. CASE Request("handoff", view, 0, 0, key, part, ps)
    BY <2>2, <2>3, <2>4, <2>6, OwnerRequest
  <2> QED BY <2>2, <2>5, <2>6
<1>7. ASSUME CloseHandoff PROVE OwnerInv' /\ PostInv'
  <2>1. UNCHANGED <<gens, ids, requests, view>> /\ posts' = Left(posts)
        /\ detail'.thread = detail.thread
    BY <1>7, Types DEF CloseHandoff, Cleared, server, input, DetailType, DetailFields
  <2>2. \A q \in posts' : \E p \in posts : Alike(q, p)
    BY <2>1, OwnerLeft
  <2> QED BY <2>1, <2>2, OwnerStep
<1>8. ASSUME NEW t \in Threads, Delete(t) PROVE OwnerInv' /\ PostInv'
  <2>1. PICK new : new = Post("delete", t, 0, 0, 0)
    OBVIOUS
  <2>2. posts' = posts \cup {new} /\ UNCHANGED <<gens, ids, requests, view, detail>>
    BY <1>8, <2>1 DEF Delete, server, page, input
  <2>3. new.kind = "delete" /\ ~new.here
    BY <2>1 DEF Post
  <2>4. OwnerInv'
    BY <2>2, <2>3 DEF OwnerInv, Owner, Key
  <2>5. PostInv'
    BY <2>2, <2>3 DEF PostInv
  <2> QED BY <2>4, <2>5
<1> QED BY <1>2, <1>3, <1>4, <1>5, <1>6, <1>7, <1>8 DEF UserStep
-----------------------------------------------------------------------------
(* Merging.                                                                *)

\* Induction, for a set of numbers.
LEMMA NatSet ==
    ASSUME NEW S, 0 \in S, \A n \in Nat : n \in S => n + 1 \in S
    PROVE  Nat \subseteq S
<1>1. SUFFICES ASSUME Nat \ S # {} PROVE FALSE
  OBVIOUS
<1>2. PICK m \in Nat \ S : \A k \in Nat \ S : m <= k
  BY <1>1, Least
<1>3. m # 0 /\ m - 1 \in Nat
  BY <1>2
<1>4. m - 1 \in S
  BY <1>2, <1>3
<1> QED BY <1>3, <1>4

\* The function mergeDetail's list is computed by ...
OneMerged(ms, m, all, seen) == IF all \/ m \notin seen THEN Append(ms, m) ELSE ms
Merging(f, base, es, all, seen) ==
    f = [s \in SUBSET (DOMAIN es) |->
          IF s = {} THEN base ELSE OneMerged(f[s \ {Max(s)}], es[Max(s)], all, seen)]

\* ... is the one in its definition, ...
LEMMA MergedIs ==
    ASSUME NEW l
    PROVE  LET base == IF l.after = 0 THEN <<>> ELSE detail.messages
               seen == {detail.messages[i] : i \in DOMAIN detail.messages} IN
           Merged(l).messages = (CHOOSE f : Merging(f, base, l.messages, l.after = 0, seen))[DOMAIN l.messages]
BY DEF Merged, FoldLeft, MapThenFoldSet, Merging, OneMerged

\* ... and exists, by induction on the number of messages.
LEMMA MergingExists ==
    ASSUME NEW base, NEW n \in Nat, NEW es, DOMAIN es = 1 .. n, NEW all, NEW seen
    PROVE  \E f : Merging(f, base, es, all, seen)
<1> DEFINE Body(f, s) == IF s = {} THEN base ELSE OneMerged(f[s \ {Max(s)}], es[Max(s)], all, seen)
           Upto(f, k) == \A s \in SUBSET (1 .. n) : s \subseteq 1 .. k => f[s] = Body(f, s)
           N == {k \in Nat : \E f : Upto(f, k)}
<1>1. 0 \in N
  <2>1. Upto([s \in SUBSET (1 .. n) |-> base], 0)
    <3>1. \A s \in SUBSET (1 .. n) : s \subseteq 1 .. 0 => s = {}
      OBVIOUS
    <3> QED BY <3>1
  <2> HIDE DEF Upto
  <2> QED BY <2>1
<1>2. ASSUME NEW k \in Nat, k \in N PROVE k + 1 \in N
  <2>1. PICK f : Upto(f, k)
    BY <1>2
  <2> DEFINE g == [s \in SUBSET (1 .. n) |-> Body(f, s)]
  <2>2. ASSUME NEW s \in SUBSET (1 .. n), s \subseteq 1 .. k + 1 PROVE g[s] = Body(g, s)
    <3>1. CASE s = {}
      BY <3>1
    <3>2. CASE s # {}
      <4> DEFINE t == s \ {Max(s)}
      <4>1. t \in SUBSET (1 .. n) /\ t \subseteq 1 .. k
        <5>1. PICK m : m = Max(s)
          OBVIOUS
        <5>2. s \in SUBSET (0 .. n)
          OBVIOUS
        <5>3. m \in s /\ \A x \in s : x <= m
          BY <3>2, <5>1, <5>2, MaxIn
        <5>4. ASSUME NEW x \in s, x # m PROVE x \in 1 .. k
          BY <2>2, <5>3, <5>4
        <5> QED BY <5>1, <5>4
      <4>2. f[t] = Body(f, t)
        <5> HIDE DEF Body, t
        <5> QED BY <2>1, <4>1
      <4>3. g[t] = Body(f, t) /\ g[s] = Body(f, s)
        <5> HIDE DEF Body, t
        <5> QED BY <4>1
      <4>4. f[t] = g[t]
        <5> HIDE DEF Body, g, t
        <5> QED BY <4>2, <4>3
      <4>5. Body(f, s) = Body(g, s)
        <5> HIDE DEF g
        <5> QED BY <3>2, <4>4
      <4> HIDE DEF Body, g
      <4> QED BY <4>3, <4>5
    <3> QED BY <3>1, <3>2
  <2>3. Upto(g, k + 1)
    <3> HIDE DEF g, Body
    <3> QED BY <2>2
  <2> HIDE DEF Upto
  <2> QED BY <2>3
<1>3. n \in N
  <2> HIDE DEF N
  <2> QED BY <1>1, <1>2, NatSet
<1>4. PICK f : Upto(f, n)
  BY <1>3
<1> DEFINE g == [s \in SUBSET (1 .. n) |-> f[s]]
<1>5. ASSUME NEW s \in SUBSET (1 .. n) PROVE g[s] = Body(g, s)
  <2>1. g[s] = Body(f, s)
    BY <1>4
  <2>2. Body(f, s) = Body(g, s)
    <3>1. g[s \ {Max(s)}] = f[s \ {Max(s)}]
      OBVIOUS
    <3> HIDE DEF g
    <3> QED BY <3>1
  <2> HIDE DEF Body, g
  <2> QED BY <2>1, <2>2
<1>6. g = [s \in SUBSET (1 .. n) |-> Body(g, s)]
  <2>1. g = [s \in SUBSET (1 .. n) |-> g[s]]
    OBVIOUS
  <2> HIDE DEF g, Body
  <2> QED BY <1>5, <2>1
<1> HIDE DEF g
<1> QED BY <1>6 DEF Merging

\* r is base, followed by es.
Follows(X, r, base, es) ==
    /\ r \in Seq(X) /\ Len(r) = Len(base) + Len(es)
    /\ \A i \in 1 .. Len(base) : r[i] = base[i]
    /\ \A i \in 1 .. Len(es) : r[Len(base) + i] = es[i]

\* New messages follow those that were loaded.
LEMMA MergedInOrder ==
    ASSUME NEW X, NEW base \in Seq(X), NEW es \in Seq(X), NEW all, NEW seen,
           \A i \in DOMAIN es : es[i] \notin seen,
           NEW f, Merging(f, base, es, all, seen), NEW r, r = f[DOMAIN es]
    PROVE  Follows(X, r, base, es)
<1>1. PICK n \in Nat, b \in Nat : n = Len(es) /\ b = Len(base) /\ DOMAIN es = 1 .. n
  OBVIOUS
<1> DEFINE Good(k) == /\ f[1 .. k] \in Seq(X) /\ Len(f[1 .. k]) = b + k
                      /\ \A i \in 1 .. b : f[1 .. k][i] = base[i]
                      /\ \A i \in 1 .. k : f[1 .. k][b + i] = es[i]
           N == {k \in Nat : k <= n => Good(k)}
<1>2. 0 \in N
  <2>1. 1 .. 0 = {} /\ {} \in SUBSET (1 .. n)
    OBVIOUS
  <2>2. f[{}] = base
    BY <1>1, <2>1 DEF Merging
  <2> QED BY <1>1, <2>1, <2>2
<1>3. ASSUME NEW k \in Nat, k \in N PROVE k + 1 \in N
  <2> SUFFICES ASSUME k + 1 <= n PROVE Good(k + 1)
    <3> HIDE DEF Good
    <3> QED OBVIOUS
  <2>1. Good(k)
    BY <1>3
  <2>2. PICK s : s = 1 .. k + 1
    OBVIOUS
  <2>3. s \in SUBSET (1 .. n) /\ s \in SUBSET (0 .. n) /\ s # {} /\ k + 1 \in s
    <3>1. (\A x \in s : x \in 1 .. n /\ x \in 0 .. n) /\ k + 1 \in s
      BY <2>2
    <3> QED BY <3>1
  <2>4. PICK m : m = Max(s)
    OBVIOUS
  <2>5. m \in s /\ \A x \in s : x <= m
    BY <2>3, <2>4, MaxIn
  <2>6. m = k + 1
    BY <2>2, <2>3, <2>5
  <2>7. s \ {m} = 1 .. k
    BY <2>2, <2>6
  <2>8. f[s] = OneMerged(f[s \ {m}], es[m], all, seen)
    BY <1>1, <2>3, <2>4 DEF Merging
  <2>9. PICK ms : ms = f[1 .. k]
    OBVIOUS
  <2>10. es[k + 1] \in X /\ es[k + 1] \notin seen
    BY <1>1
  <2>11. f[s] = Append(ms, es[k + 1])
    BY <2>6, <2>7, <2>8, <2>9, <2>10 DEF OneMerged
  <2>12. ms \in Seq(X) /\ Len(ms) = b + k
    BY <2>1, <2>9
  <2>13. PICK new : new = f[s]
    OBVIOUS
  <2>14. /\ new \in Seq(X) /\ Len(new) = b + k + 1 /\ new[b + k + 1] = es[k + 1]
         /\ \A i \in 1 .. b + k : new[i] = ms[i]
    <3>1. PICK x \in X : x = es[k + 1]
      BY <2>10
    <3>2. new = Append(ms, x)
      BY <2>11, <2>13, <3>1
    <3>3. PICK w \in Nat : w = b + k
      OBVIOUS
    <3>4. /\ new \in Seq(X) /\ Len(new) = w + 1 /\ new[w + 1] = x
          /\ \A i \in 1 .. w : new[i] = ms[i]
      BY <2>12, <3>2, <3>3, AppendProperties
    <3> QED BY <3>1, <3>3, <3>4
  <2>15. \A i \in 1 .. b : new[i] = base[i]
    BY <1>1, <2>1, <2>9, <2>14
  <2>16. \A i \in 1 .. k + 1 : new[b + i] = es[i]
    <3> SUFFICES ASSUME NEW i \in 1 .. k + 1 PROVE new[b + i] = es[i]
      OBVIOUS
    <3>1. CASE i = k + 1
      BY <2>14, <3>1
    <3>2. CASE i # k + 1
      <4>1. i \in 1 .. k /\ b + i \in 1 .. b + k
        BY <3>2
      <4> QED BY <2>1, <2>9, <2>14, <4>1
    <3> QED BY <3>1, <3>2
  <2> QED BY <2>2, <2>13, <2>14, <2>15, <2>16
<1>4. Good(n)
  <2>1. n \in N
    <3> HIDE DEF N
    <3> QED BY <1>2, <1>3, NatSet
  <2> QED BY <2>1
<1>5. Good(n) /\ 1 .. n = DOMAIN es
  BY <1>1, <1>4
<1>6. /\ r \in Seq(X) /\ Len(r) = b + n
      /\ \A i \in 1 .. b : r[i] = base[i]
      /\ \A i \in 1 .. n : r[b + i] = es[i]
  BY <1>5
<1> QED BY <1>1, <1>6 DEF Follows
-----------------------------------------------------------------------------
(* The view.                                                               *)

\* A generation state of conversation t; when it is not running, it is final.
GenShape(gs, r, t) ==
    /\ r = [id |-> r.id, status |-> r.status]
    /\ r.id = 0 <=> r.status = "none"
    /\ r.id # 0 => Turn(gs, r.id, t)

GenOver(gs, r) ==
    r.id # 0 /\ r.status # "running" => gs[r.id].status # "running" /\ Terminal(r.status)

\* Some messages are those that follow the first n of ms.
Part(ms, n, some) ==
    /\ some \in Seq(Message)
    /\ n + Len(some) <= Len(ms)
    /\ \A i \in 1 .. Len(some) : some[i] = ms[n + i]

\* What a page was told of, when it has the first n messages: of these turns,
\* one that may be continued is generation id, and the answers of those that are
\* completed are there, or that is it.
Heard(ks, ms, n) == ks \cup {ms[i][1] : i \in 1 .. n}

Offered(gs, heard, t, id) ==
    \A g \in heard : gs[g].status \in {"running", "failed"} /\ Newest(gs, g, t) => id = g

Present(gs, heard, ms, n, id) ==
    \A g \in heard : gs[g].status = "completed" => Stored(ms, g, n) \/ id = g

\* The newest load or refresh: it asks for what follows the loaded messages.
LoadShape(l) ==
    /\ l.kind \in {"open", "refresh"}
    /\ l.after = Len(detail.messages)
    /\ l.kind = "open" => detail.thread # view /\ ~l.silences
    /\ GenShape(gens, l.gen, view)

\* The number of messages that will be loaded when it answers.
Upto(l) == Len(detail.messages) + Len(l.messages)

\* What it read was so when it read it, and stays good enough: what has changed
\* is followed, or the load does not bring its generation.
LoadHere(l) ==
    /\ l.phase \in {"sent", "row", "snapshot", "answered"}
    /\ ~AppliesGeneration(l) => shown.status = "running"
    /\ l.phase # "sent" => Part(messages[view], Len(detail.messages), l.messages)
    /\ l.phase \in {"snapshot", "answered"} /\ AppliesGeneration(l) =>
         LET heard == Heard(known, messages[view], Upto(l)) IN
         /\ Offered(gens, heard, view, l.gen.id)
         /\ ~l.torn /\ (l.phase = "answered" => l.gen.status # "running") =>
              Present(gens, heard, messages[view], Upto(l), l.gen.id)
    /\ l.phase = "answered" =>
         /\ GenOver(gens, l.gen)
         /\ l.gen.id = shown.id /\ Terminal(shown.status) => l.gen.status # "running"

\* The page and its loads belong to the view, and one of them is the newest.
ViewShape ==
    /\ view = 0 => loads = {} /\ shown = Nothing
    /\ view # 0 => \E g \in DOMAIN gens : gens[g].thread = view
    /\ detail.thread \in {0, view}
    /\ detail.thread = 0 => detail.messages = <<>>
    /\ GenShape(gens, shown, view)
    /\ \A l, m \in loads : l.newest /\ m.newest => l = m
    /\ \A l \in loads : l.newest => LoadShape(l)

\* The page shows what it was told of.
Complete ==
    LET n == Len(detail.messages)
        heard == Heard(known, messages[view], n) IN
    Offered(gens, heard, view, shown.id) /\ Present(gens, heard, messages[view], n, shown.id)

\* While the conversation is there, the page is complete, or something more will
\* be told: by the generation it follows, or by a refresh that cannot fail in
\* silence.
ViewHere ==
    view \in exists =>
        /\ GenOver(gens, shown)
        /\ \A g \in known : Turn(gens, g, view)
        /\ Part(messages[view], 0, detail.messages)
        /\ \A l \in loads : l.newest => LoadHere(l)
        /\ detail.thread = view /\ ~told /\ ~missed /\ ~torn =>
             \/ shown.status = "running"
             \/ \E l \in loads : l.newest /\ (l.tells \/ l.silences)
             \/ Complete

\* What was heard of stays good while the server moves on.
LEMMA HeardMoves ==
    ASSUME ServerInv, Moves, view \in exists', \A g \in known : Turn(gens, g, view),
           NEW n \in Nat, n <= Len(messages[view]), NEW id
    PROVE  LET heard == Heard(known, messages[view], n) IN
           /\ Heard(known, messages'[view], n) = heard
           /\ Offered(gens, heard, view, id) => Offered(gens', heard, view, id)
           /\ Offered(gens, heard, view, id) /\ Present(gens, heard, messages[view], n, id) =>
                Present(gens', heard, messages'[view], n, id)
<1>1. PICK heard : heard = Heard(known, messages[view], n)
  OBVIOUS
<1>2. view \in Threads /\ Ordered(gens, messages[view], view) /\ NewestRuns(gens, view)
  BY DEF Moves, ServerInv
<1>3. Len(messages[view]) \in Nat /\ \A i \in 1 .. n : i \in 1 .. Len(messages[view])
  BY <1>2 DEF Ordered
<1>4. \A i \in 1 .. n : messages'[view][i] = messages[view][i]
  BY <1>3 DEF Moves
<1>5. Heard(known, messages'[view], n) = heard
  BY <1>1, <1>4 DEF Heard
<1>6. \A g \in heard : Turn(gens, g, view)
  BY <1>1, <1>2, <1>3 DEF Heard, Ordered
<1>7. \A g : Turn(gens, g, view) =>
        /\ Turn(gens', g, view)
        /\ gens'[g].status = gens[g].status \/ gens[g].status = "running"
  BY DEF Moves, Turn
<1>8. \A g : Newest(gens', g, view) => Newest(gens, g, view)
  BY <1>7 DEF Newest
<1>9. ASSUME Offered(gens, heard, view, id) PROVE Offered(gens', heard, view, id)
  BY <1>6, <1>7, <1>8, <1>9 DEF Offered
<1>10. ASSUME Offered(gens, heard, view, id), Present(gens, heard, messages[view], n, id)
       PROVE  Present(gens', heard, messages'[view], n, id)
  <2> SUFFICES ASSUME NEW g \in heard, gens'[g].status = "completed"
               PROVE  Stored(messages'[view], g, n) \/ id = g
    BY DEF Present
  <2>1. CASE gens[g].status = "completed"
    BY <1>4, <1>10, <2>1 DEF Present, Stored
  <2>2. CASE gens[g].status = "running"
    BY <1>2, <1>6, <1>10, <2>2 DEF NewestRuns, Offered
  <2> QED BY <1>6, <1>7, <2>1, <2>2
<1> QED BY <1>1, <1>5, <1>9, <1>10

\* The server moves on.
LEMMA ViewMoves ==
    ASSUME IInv, ServerInv, ServerInv', ViewShape, ViewHere, Moves, UNCHANGED <<page, loads>>
    PROVE  ViewShape' /\ ViewHere'
<1>1. UNCHANGED <<view, detail, shown, known, torn, told, missed, loads>>
  BY DEF page
<1>2. \A g, t : Turn(gens, g, t) => Turn(gens', g, t)
  BY DEF Moves, Turn
<1>3. \A r, t : GenShape(gens, r, t) => GenShape(gens', r, t)
  BY <1>2 DEF GenShape
<1>4. ViewShape'
  <2>1. \A l \in loads : LoadShape(l) => LoadShape(l)'
    BY <1>1, <1>3 DEF LoadShape
  <2>2. view # 0 => \E g \in DOMAIN gens' : gens'[g].thread = view
    BY DEF ViewShape, Moves
  <2>3. GenShape(gens, shown, view)'
    BY <1>1, <1>3 DEF ViewShape
  <2> QED BY <1>1, <2>1, <2>2, <2>3 DEF ViewShape
<1>5. ASSUME view \in exists'
      PROVE  /\ GenOver(gens', shown)
             /\ \A g \in known : Turn(gens', g, view)
             /\ Part(messages'[view], 0, detail.messages)
             /\ \A l \in loads : l.newest => LoadHere(l)'
             /\ Complete => Complete'
  <2>1. view \in exists /\ \A g \in known : Turn(gens, g, view)
    BY <1>5 DEF Moves, ViewHere
  <2>2. Ordered(gens, messages[view], view) /\ Len(messages[view]) \in Nat
    BY <2>1 DEF ServerInv, Ordered
  <2>3. \A r : GenShape(gens, r, view) /\ GenOver(gens, r) => GenOver(gens', r)
    BY <1>5 DEF GenShape, GenOver, Moves, Turn
  <2>4. ASSUME NEW n \in Nat, NEW some, Part(messages[view], n, some) PROVE Part(messages'[view], n, some)
    <3>1. PICK ms, new : ms = messages[view] /\ new = messages'[view]
      OBVIOUS
    <3>2. Len(ms) \in Nat /\ Len(ms) <= Len(new) /\ \A i \in 1 .. Len(ms) : new[i] = ms[i]
      BY <1>5, <2>2, <3>1 DEF Moves
    <3>3. Len(new) \in Nat
      <4>1. view \in Threads
        BY <2>1 DEF ServerInv
      <4>2. Ordered(gens', messages'[view], view)
        BY <4>1 DEF ServerInv
      <4> QED BY <3>1, <4>2 DEF Ordered
    <3>4. PICK m \in Nat : m = Len(some)
      BY <2>4 DEF Part
    <3>5. n + m <= Len(ms) /\ \A i \in 1 .. m : some[i] = ms[n + i]
      BY <2>4, <3>1, <3>4 DEF Part
    <3>6. \A i \in 1 .. m : n + i \in 1 .. Len(ms)
      BY <3>2, <3>5
    <3> QED BY <2>4, <3>1, <3>2, <3>3, <3>4, <3>5, <3>6 DEF Part
  <2>5. Part(messages[view], 0, detail.messages) /\ Len(detail.messages) \in Nat
        /\ Len(detail.messages) <= Len(messages[view])
    BY <2>1, <2>2 DEF ViewHere, Part
  <2>6. ASSUME NEW l \in loads, l.newest PROVE LoadHere(l)'
    <3>1. LoadHere(l) /\ LoadShape(l)
      BY <2>1, <2>6 DEF ViewHere, ViewShape
    <3>2. l.phase # "sent" => Part(messages[view], Len(detail.messages), l.messages)
      BY <3>1 DEF LoadHere
    <3>3. l.phase # "sent" => Part(messages'[view], Len(detail.messages), l.messages)
      BY <2>4, <2>5, <3>2
    <3>4. l.phase = "answered" => GenOver(gens', l.gen)
      BY <2>3, <3>1 DEF LoadHere, LoadShape
    <3>5. ASSUME l.phase \in {"snapshot", "answered"}, AppliesGeneration(l)
          PROVE  LET heard == Heard(known, messages'[view], Upto(l)) IN
                 /\ Offered(gens', heard, view, l.gen.id)
                 /\ ~l.torn /\ (l.phase = "answered" => l.gen.status # "running") =>
                      Present(gens', heard, messages'[view], Upto(l), l.gen.id)
      <4>1. PICK n, id, heard :
              n = Upto(l) /\ id = l.gen.id /\ heard = Heard(known, messages[view], n)
        OBVIOUS
      <4>2. n \in Nat /\ n <= Len(messages[view])
        <5>1. Part(messages[view], Len(detail.messages), l.messages)
          BY <3>2, <3>5
        <5>2. PICK some : some = l.messages /\ some \in Seq(Message)
          BY <5>1 DEF Part
        <5>3. PICK a \in Nat : a = Len(detail.messages)
          BY <2>5
        <5>4. PICK b \in Nat : b = Len(some)
          BY <5>2
        <5>5. PICK c \in Nat : c = Len(messages[view])
          BY <2>2
        <5>6. a + b <= c /\ n = a + b
          BY <4>1, <5>1, <5>2, <5>3, <5>4, <5>5 DEF Part, Upto
        <5> QED BY <5>5, <5>6
      <4>3. /\ Offered(gens, heard, view, id)
            /\ ~l.torn /\ (l.phase = "answered" => l.gen.status # "running") =>
                 Present(gens, heard, messages[view], n, id)
        BY <3>1, <3>5, <4>1 DEF LoadHere
      <4>4. /\ Heard(known, messages'[view], n) = heard
            /\ Offered(gens, heard, view, id) => Offered(gens', heard, view, id)
            /\ Offered(gens, heard, view, id) /\ Present(gens, heard, messages[view], n, id) =>
                 Present(gens', heard, messages'[view], n, id)
        BY <1>5, <2>1, <4>1, <4>2, HeardMoves
      <4> QED BY <4>1, <4>3, <4>4
    <3>6. Upto(l)' = Upto(l) /\ AppliesGeneration(l)' = AppliesGeneration(l)
      BY <1>1 DEF Upto, AppliesGeneration
    <3>7. /\ l.phase \in {"sent", "row", "snapshot", "answered"}
          /\ ~AppliesGeneration(l) => shown.status = "running"
          /\ l.phase = "answered" /\ l.gen.id = shown.id /\ Terminal(shown.status) => l.gen.status # "running"
      BY <3>1 DEF LoadHere
    <3> HIDE DEF Terminal
    <3> QED BY <1>1, <3>3, <3>4, <3>5, <3>6, <3>7 DEF LoadHere
  <2>7. ASSUME Complete PROVE Complete'
    <3>1. PICK n, id, heard : n = Len(detail.messages) /\ id = shown.id /\ heard = Heard(known, messages[view], n)
      OBVIOUS
    <3>2. Offered(gens, heard, view, id) /\ Present(gens, heard, messages[view], n, id)
      BY <2>7, <3>1 DEF Complete
    <3>3. /\ Heard(known, messages'[view], n) = heard
          /\ Offered(gens', heard, view, id)
          /\ Present(gens', heard, messages'[view], n, id)
      BY <1>5, <2>1, <2>5, <3>1, <3>2, HeardMoves
    <3> QED BY <1>1, <3>1, <3>3 DEF Complete
  <2>8. GenOver(gens', shown)
    BY <2>1, <2>3 DEF ViewHere, ViewShape
  <2>9. Part(messages'[view], 0, detail.messages)
    BY <2>4, <2>5
  <2> QED BY <1>2, <2>1, <2>6, <2>7, <2>8, <2>9
<1>6. ViewHere'
  <2> SUFFICES ASSUME view \in exists'
               PROVE  /\ GenOver(gens', shown)
                      /\ \A g \in known : Turn(gens', g, view)
                      /\ Part(messages'[view], 0, detail.messages)
                      /\ \A l \in loads : l.newest => LoadHere(l)'
                      /\ detail.thread = view /\ ~told /\ ~missed /\ ~torn =>
                           \/ shown.status = "running"
                           \/ \E l \in loads : l.newest /\ (l.tells \/ l.silences)
                           \/ Complete'
    BY <1>1 DEF ViewHere
  <2>1. view \in exists
    BY DEF Moves
  <2> QED BY <1>5, <2>1 DEF ViewHere
<1> QED BY <1>4, <1>6
-----------------------------------------------------------------------------
(* What the steps do to the view.                                          *)

\* Steps that change nothing of the view but the running handoff that is shown.
LEMMA SameView ==
    ASSUME ViewShape, ViewHere, UNCHANGED <<server, view, shown, known, torn, told, missed, loads>>,
           detail'.thread = detail.thread, detail'.messages = detail.messages
    PROVE  ViewShape' /\ ViewHere'
<1>1. UNCHANGED <<gens, messages, exists>>
  BY DEF server
<1>2. \A l \in loads : LoadShape(l)' <=> LoadShape(l)
  BY <1>1 DEF LoadShape
<1>3. ASSUME NEW l \in loads PROVE LoadHere(l)' <=> LoadHere(l)
  <2>1. Upto(l)' = Upto(l) /\ (AppliesGeneration(l)' <=> AppliesGeneration(l))
    BY DEF Upto, AppliesGeneration
  <2> HIDE DEF Terminal
  <2> QED BY <1>1, <2>1 DEF LoadHere
<1>4. Complete' <=> Complete
  BY <1>1 DEF Complete
<1>5. ViewShape'
  BY <1>1, <1>2 DEF ViewShape
<1>6. ViewHere'
  BY <1>1, <1>3, <1>4 DEF ViewHere
<1> QED BY <1>5, <1>6

\* Part of nothing.
LEMMA NoPart ==
    ASSUME NEW ms, ms \in Seq(Message)
    PROVE  Part(ms, 0, <<>>)
<1>1. <<>> \in Seq(Message) /\ Len(<<>>) = 0 /\ Len(ms) \in Nat
  OBVIOUS
<1> QED BY <1>1 DEF Part

\* Another view is entered: its first load is made, or it is that of a turn that
\* was just sent.
LEMMA ViewEntered ==
    ASSUME IInv, ServerInv, UNCHANGED server, NEW v, view' = v, detail' = NoDetail,
           GenShape(gens, shown', v), shown'.status \in {"none", "running"},
           known' = {shown'.id} \ {0},
           v = 0 => loads' = {} /\ shown' = Nothing,
           v # 0 => \E g \in DOMAIN gens : gens[g].thread = v,
           NEW k, loads' \subseteq {k}, k.kind \in {"open", "refresh"}, k.phase = "sent",
           k.after = 0, ~k.silences, k.gen = Nothing, AppliesGeneration(k)
    PROVE  ViewShape' /\ ViewHere'
<1>1. UNCHANGED <<gens, messages, exists>>
  BY DEF server
<1>2. detail'.thread = 0 /\ detail'.messages = <<>> /\ Len(detail'.messages) = 0
  BY DEF NoDetail
<1>3. GenShape(gens, Nothing, v)
  BY DEF GenShape, Nothing
<1>4. ASSUME NEW l \in loads' PROVE LoadShape(l)'
  <2>1. l = k /\ v # 0
    BY <1>4
  <2> QED BY <1>1, <1>2, <1>3, <2>1 DEF LoadShape
<1>5. ViewShape'
  BY <1>1, <1>2, <1>4 DEF ViewShape
<1>6. ASSUME v \in exists
      PROVE  /\ GenOver(gens, shown') /\ \A g \in known' : Turn(gens, g, v)
             /\ Part(messages[v], 0, <<>>) /\ v # 0
             /\ \A l \in loads' : LoadHere(l)'
  <2>1. v \in Threads /\ Ordered(gens, messages[v], v)
    BY <1>6 DEF ServerInv
  <2>2. v # 0
    BY <2>1, WorkspaceAssumption DEF Threads
  <2>3. Part(messages[v], 0, <<>>)
    BY <2>1, NoPart DEF Ordered
  <2>4. GenOver(gens, shown') /\ \A g \in known' : Turn(gens, g, v)
    BY DEF GenOver, GenShape
  <2>5. ASSUME NEW l \in loads' PROVE LoadHere(l)'
    <3>1. l = k
      BY <2>5
    <3> QED BY <3>1 DEF LoadHere, AppliesGeneration
  <2> QED BY <2>2, <2>3, <2>4, <2>5
<1>7. ViewHere'
  BY <1>1, <1>2, <1>6 DEF ViewHere
<1> QED BY <1>5, <1>7

\* What a new refresh is, and what the others become.
LEMMA RefreshMade ==
    ASSUME IInv, NEW ls, ls = loads \/ ls = Superseded(loads), NEW t, NEW tells, NEW k,
           k = Load("refresh", t, tells), loads' = Requested(ls, k)
    PROVE  /\ k \in loads' /\ \A l \in loads' : l.newest => l = k
           /\ k.newest /\ k.kind = "refresh" /\ k.phase = "sent" /\ k.gen = Nothing /\ k.tells = tells
           /\ k.after = (IF detail.thread = t THEN Len(detail.messages) ELSE 0)
           /\ k.silences = (~tells /\ \E l \in loads : l.newest /\ (l.tells \/ l.silences))
           /\ AppliesGeneration(k)
<1>1. /\ k.newest /\ k.kind = "refresh" /\ k.phase = "sent" /\ k.gen = Nothing /\ k.tells = tells /\ k.epoch
      /\ k.after = (IF detail.thread = t THEN Len(detail.messages) ELSE 0)
      /\ k.silences = (~tells /\ \E l \in loads : l.newest /\ (l.tells \/ l.silences))
  BY DEF Load
<1>2. \A l \in ls : LoadType(l, Len(gens))
  BY Types, LoadSets
<1>3. \A l \in ls : ~Older(l).newest
  BY <1>2 DEF LoadType, LoadFields, Older
<1>4. k \in loads' /\ \A l \in loads' : l.newest => l = k
  BY <1>3 DEF Requested
<1> QED BY <1>1, <1>4 DEF AppliesGeneration

\* A refresh is made in view.
LEMMA ViewRefreshed ==
    ASSUME IInv, ServerInv, ViewShape, ViewHere, UNCHANGED <<server, view, detail, torn, told, missed>>,
           NEW ls, ls = loads \/ ls = Superseded(loads), NEW tells \in BOOLEAN, view # 0,
           loads' = Requested(ls, Load("refresh", view, tells)),
           GenShape(gens, shown', view), view \in exists => GenOver(gens, shown'),
           \A g \in known' : g \in known \/ Turn(gens, g, view),
           view \in exists => tells \/ shown'.status = "running" \/ UNCHANGED <<shown, known>>
    PROVE  ViewShape' /\ ViewHere'
<1>1. UNCHANGED <<gens, messages, exists>>
  BY DEF server
<1>2. PICK k : k = Load("refresh", view, tells)
  OBVIOUS
<1>3. /\ k \in loads' /\ \A l \in loads' : l.newest => l = k
      /\ k.newest /\ k.kind = "refresh" /\ k.phase = "sent" /\ k.gen = Nothing /\ k.tells = tells
      /\ k.after = (IF detail.thread = view THEN Len(detail.messages) ELSE 0)
      /\ k.silences = (~tells /\ \E l \in loads : l.newest /\ (l.tells \/ l.silences))
      /\ AppliesGeneration(k)
  BY <1>2, RefreshMade
<1>4. k.after = Len(detail.messages)
  <2>1. detail.thread # view => detail.messages = <<>>
    BY DEF ViewShape
  <2> QED BY <1>3, <2>1
<1>5. LoadShape(k)'
  BY <1>1, <1>3, <1>4 DEF LoadShape, GenShape, Nothing
<1>6. ViewShape'
  BY <1>1, <1>3, <1>5 DEF ViewShape
<1>7. LoadHere(k)'
  BY <1>3 DEF LoadHere, AppliesGeneration
<1>8. ASSUME view \in exists, detail.thread = view, ~told, ~missed, ~torn
      PROVE  \/ shown'.status = "running"
             \/ \E l \in loads' : l.newest /\ (l.tells \/ l.silences)
             \/ Complete'
  <2>1. CASE tells
    BY <1>3, <2>1
  <2>2. CASE ~tells /\ UNCHANGED <<shown, known>>
    <3>1. Complete' <=> Complete
      BY <1>1, <2>2 DEF Complete
    <3>2. \/ shown.status = "running"
          \/ \E l \in loads : l.newest /\ (l.tells \/ l.silences)
          \/ Complete
      BY <1>8 DEF ViewHere
    <3> QED BY <1>3, <2>2, <3>1, <3>2
  <2> QED BY <1>8, <2>1, <2>2
<1>9. ViewHere'
  <2>1. view \in exists => /\ \A g \in known' : Turn(gens, g, view)
                           /\ Part(messages[view], 0, detail.messages)
    BY DEF ViewHere
  <2>2. \A l \in loads' : l.newest => LoadHere(l)'
    BY <1>3, <1>7
  <2> QED BY <1>1, <1>8, <2>1, <2>2 DEF ViewHere
<1> QED BY <1>6, <1>9

\* The turn that was followed ends: its view is refreshed.
LEMMA FollowEndsView ==
    ASSUME IInv, ServerInv, ViewShape, ViewHere, FollowEnds
    PROVE  ViewShape' /\ ViewHere'
<1>1. PICK g : g = shown.id
  OBVIOUS
<1>2. shown.status = "running" /\ Terminal(gens[g].status)
      /\ shown' = [shown EXCEPT !.status = gens[g].status]
      /\ loads' = Refresh(gens[g].thread, TRUE, loads)
      /\ UNCHANGED <<server, view, detail, torn, told, missed, known>>
  BY <1>1 DEF FollowEnds
<1>3. /\ shown = [id |-> g, status |-> "running"] /\ Turn(gens, g, view) /\ view # 0 /\ g # 0
  BY <1>1, <1>2 DEF ViewShape, GenShape, Nothing
<1>4. loads' = Requested(loads, Load("refresh", view, TRUE))
  BY <1>2, <1>3 DEF Refresh, Turn
<1>5. shown' = [id |-> g, status |-> gens[g].status] /\ gens[g].status \notin {"none", "running"}
  BY <1>2, <1>3 DEF Terminal
<1>6. GenShape(gens, shown', view) /\ GenOver(gens, shown')
  BY <1>2, <1>3, <1>5 DEF GenShape, GenOver
<1> QED BY <1>2, <1>3, <1>4, <1>6, ViewRefreshed

\* The conversation is gone.
LEMMA FollowGoneView ==
    ASSUME IInv, ServerInv, ViewShape, ViewHere, FollowGone
    PROVE  ViewShape' /\ ViewHere'
<1>1. PICK g : g = shown.id
  OBVIOUS
<1>2. shown.status = "running" /\ gens[g].status = "deleted" /\ shown' = Nothing
      /\ loads' = Refresh(view, FALSE, loads)
      /\ UNCHANGED <<server, view, detail, torn, told, missed, known>>
  BY <1>1 DEF FollowGone
<1>3. Turn(gens, g, view) /\ view # 0
  BY <1>1, <1>2 DEF ViewShape, GenShape, Nothing
<1>4. view \notin exists
  BY <1>2, <1>3 DEF ServerInv, Turn
<1>5. loads' = Requested(loads, Load("refresh", view, FALSE))
  BY <1>2, <1>3 DEF Refresh
<1>6. GenShape(gens, shown', view)
  BY <1>2 DEF GenShape, Nothing
<1> QED BY <1>2, <1>3, <1>4, <1>5, <1>6, ViewRefreshed

\* The view is left for a new conversation, or for v, which is loaded.
LEMMA EnterView ==
    ASSUME IInv, ServerInv, UNCHANGED server, NEW v, NEW ps, NEW ls, Enter(v, ls, ps),
           (v = 0 /\ ls = {})
             \/ (v # 0 /\ ls = {Load("open", v, FALSE)} /\ \E g \in DOMAIN gens : gens[g].thread = v)
    PROVE  ViewShape' /\ ViewHere'
<1>1. PICK k : k = Load("open", v, FALSE)
  OBVIOUS
<1>2. k.kind = "open" /\ k.phase = "sent" /\ k.after = 0 /\ ~k.silences /\ k.gen = Nothing
  BY <1>1 DEF Load
<1>3. AppliesGeneration(k)
  BY <1>2 DEF AppliesGeneration
<1>4. view' = v /\ detail' = NoDetail /\ shown' = Nothing /\ known' = {} /\ loads' = ls
  BY DEF Enter
<1>5. GenShape(gens, shown', v) /\ shown'.status = "none" /\ known' = {shown'.id} \ {0}
  BY <1>4 DEF GenShape, Nothing
<1>6. /\ loads' \subseteq {k} /\ (v = 0 => loads' = {} /\ shown' = Nothing)
      /\ (v # 0 => \E g \in DOMAIN gens : gens[g].thread = v)
  BY <1>1, <1>4
<1> QED BY <1>2, <1>3, <1>4, <1>5, <1>6, ViewEntered

\* The answer to a send or a retry is a turn of its conversation.
LEMMA AnswerIsTurn ==
    ASSUME IInv, OwnerInv, PostInv, NEW p \in posts, p.phase = "done", p.kind \in {"send", "retry"}
    PROVE  /\ p.gen \in DOMAIN gens /\ p.gen # 0 /\ gens[p.gen].thread \in Threads
           /\ gens[p.gen].purpose = "chat"
           /\ p.kind = "retry" \/ p.thread # 0 => gens[p.gen].thread = p.thread
<1>1. PICK owner : Owner(owner)
  BY DEF OwnerInv
<1>2. p.gen \in DOMAIN gens /\ gens[p.gen].request = p.id
  BY DEF IInv, AnswerInv
<1>3. owner[p.id] = Key(p) /\ MadeFor(gens, p.gen, owner[p.id])
  BY <1>1, <1>2 DEF Owner
<1>4. PICK key : key = Key(p) /\ MadeFor(gens, p.gen, key)
  BY <1>3
<1>5. key[1] = p.kind /\ key[2] = IF p.kind = "retry" THEN p.of ELSE p.thread
  BY <1>4 DEF Key
<1>6. p.kind = "retry" => gens[p.of].thread = p.thread
  BY DEF PostInv
<1>7. gens[p.gen] \in GenType /\ p.gen # 0
  BY <1>2, Types
<1> QED BY <1>2, <1>4, <1>5, <1>6, <1>7 DEF MadeFor, GenType

\* A send was answered.
LEMMA SendAnsweredView ==
    ASSUME IInv, ServerInv, OwnerInv, PostInv, ViewShape, ViewHere, NEW p \in posts, SendAnswered(p)
    PROVE  ViewShape' /\ ViewHere'
<1>1. PICK t, g : g = p.gen /\ t = gens[g].thread
  OBVIOUS
<1>2. p.kind = "send" /\ p.phase = "done" /\ UNCHANGED server
  BY DEF SendAnswered
<1>3. /\ g \in DOMAIN gens /\ g # 0 /\ t \in Threads /\ gens[g].purpose = "chat"
      /\ p.thread # 0 => t = p.thread
  BY <1>1, <1>2, AnswerIsTurn
<1>4. t # 0 /\ Turn(gens, g, t)
  BY <1>1, <1>3, WorkspaceAssumption DEF Threads, Turn
<1>5. PICK r : r = [id |-> g, status |-> "running"]
  OBVIOUS
<1>6. /\ GenShape(gens, r, t) /\ GenOver(gens, r) /\ r.id = g /\ r.status = "running"
  BY <1>3, <1>4, <1>5 DEF GenShape, GenOver
<1>7. CASE view # p.thread
  <2>1. UNCHANGED <<page, loads>>
    BY <1>7 DEF SendAnswered
  <2> QED BY <1>2, <2>1, SameView DEF page
<1>8. CASE view = p.thread /\ view = 0
  <2>1. PICK k : k = Load("refresh", t, TRUE)
    OBVIOUS
  <2>2. view' = t /\ detail' = NoDetail /\ shown' = r /\ known' = {g} /\ loads' = {k}
    BY <1>1, <1>5, <1>8, <2>1 DEF SendAnswered
  <2>3. detail.thread # t
    BY <1>4, <1>8 DEF ViewShape
  <2>4. k.kind = "refresh" /\ k.phase = "sent" /\ k.after = 0 /\ ~k.silences /\ k.gen = Nothing /\ k.epoch
    BY <2>1, <2>3 DEF Load
  <2>5. AppliesGeneration(k) /\ known' = {shown'.id} \ {0}
    BY <1>3, <1>6, <2>2, <2>4 DEF AppliesGeneration
  <2> QED BY <1>1, <1>2, <1>3, <1>4, <1>6, <2>2, <2>4, <2>5, ViewEntered
<1>9. CASE view = p.thread /\ view # 0
  <2>1. /\ shown' = r /\ known' = known \cup {g} /\ t = view
        /\ loads' = Requested(Superseded(loads), Load("refresh", view, TRUE))
        /\ UNCHANGED <<view, detail, torn, told, missed>>
    BY <1>1, <1>3, <1>5, <1>9 DEF SendAnswered, Adopt
  <2> QED BY <1>2, <1>4, <1>6, <1>9, <2>1, ViewRefreshed
<1> QED BY <1>7, <1>8, <1>9

\* A retry was answered: a refresh under way does not bring an older turn.
LEMMA RetryAnsweredView ==
    ASSUME IInv, ServerInv, OwnerInv, PostInv, ViewShape, ViewHere, NEW p \in posts, RetryAnswered(p)
    PROVE  ViewShape' /\ ViewHere'
<1>1. PICK g : g = p.gen
  OBVIOUS
<1>2. p.kind = "retry" /\ p.phase = "done" /\ UNCHANGED server
  BY DEF RetryAnswered
<1>3. CASE ~p.here
  <2>1. UNCHANGED <<page, loads>>
    BY <1>3 DEF RetryAnswered
  <2> QED BY <1>2, <2>1, SameView DEF page
<1>4. CASE p.here
  <2>1. /\ shown' = [id |-> g, status |-> "running"] /\ known' = known \cup {g}
        /\ loads' = Superseded(loads) /\ UNCHANGED <<view, detail, torn, told, missed>>
    BY <1>1, <1>4 DEF RetryAnswered, Adopt
  <2>2. p.thread = view /\ detail.thread = view
    BY <1>4 DEF PostInv
  <2>3. g # 0 /\ view # 0 /\ Turn(gens, g, view)
    BY <1>1, <1>2, <2>2, AnswerIsTurn, WorkspaceAssumption DEF Threads, Turn
  <2>4. UNCHANGED <<gens, messages, exists>>
    BY <1>2 DEF server
  <2>5. GenShape(gens, shown', view) /\ GenOver(gens, shown')
    BY <2>1, <2>3 DEF GenShape, GenOver
  <2>6. ASSUME NEW k \in loads'
        PROVE  \E l \in loads :
                 /\ k = [l EXCEPT !.epoch = FALSE] /\ k.newest = l.newest /\ k.kind = l.kind
                 /\ k.after = l.after /\ k.silences = l.silences /\ k.gen = l.gen
                 /\ k.phase = l.phase /\ k.messages = l.messages /\ ~k.epoch
    <3>1. PICK l \in loads : k = [l EXCEPT !.epoch = FALSE]
      BY <2>1 DEF Superseded
    <3>2. LoadType(l, Len(gens))
      BY Types
    <3> QED BY <3>1, <3>2 DEF LoadType, LoadFields
  <2>7. \A k, m \in loads' : k.newest /\ m.newest => k = m
    <3> SUFFICES ASSUME NEW k \in loads', NEW m \in loads', k.newest, m.newest PROVE k = m
      OBVIOUS
    <3>1. PICK a \in loads : k = [a EXCEPT !.epoch = FALSE] /\ a.newest
      BY <2>6
    <3>2. PICK b \in loads : m = [b EXCEPT !.epoch = FALSE] /\ b.newest
      BY <2>6
    <3> QED BY <3>1, <3>2 DEF ViewShape
  <2>8. ASSUME NEW k \in loads', k.newest PROVE LoadShape(k)' /\ (view \in exists => LoadHere(k)')
    <3>1. PICK l \in loads :
            /\ k = [l EXCEPT !.epoch = FALSE] /\ k.newest = l.newest /\ k.kind = l.kind
            /\ k.after = l.after /\ k.silences = l.silences /\ k.gen = l.gen
            /\ k.phase = l.phase /\ k.messages = l.messages /\ ~k.epoch
      BY <2>6
    <3>2. LoadShape(l) /\ k.kind # "open"
      BY <2>2, <2>8, <3>1 DEF ViewShape, LoadShape
    <3>3. LoadShape(k)'
      BY <2>1, <2>4, <3>1, <3>2 DEF LoadShape
    <3>4. ~AppliesGeneration(k)' /\ ~AppliesGeneration(k)
      BY <3>1, <3>2 DEF AppliesGeneration
    <3>5. ASSUME view \in exists PROVE LoadHere(k)'
      <4>1. LoadHere(l)
        BY <2>8, <3>1, <3>5 DEF ViewHere
      <4>2. ~Terminal(shown'.status) /\ shown'.status = "running"
        BY <2>1 DEF Terminal
      <4> HIDE DEF Terminal
      <4> QED BY <2>1, <2>4, <3>1, <3>4, <4>1, <4>2 DEF LoadHere
    <3> QED BY <3>3, <3>5
  <2>9. ViewShape'
    BY <2>1, <2>3, <2>4, <2>5, <2>7, <2>8 DEF ViewShape
  <2>10. ViewHere'
    BY <2>1, <2>3, <2>4, <2>5, <2>8 DEF ViewHere
  <2> QED BY <2>9, <2>10
<1> QED BY <1>3, <1>4

\* A turn was refused.
LEMMA TurnRefusedView ==
    ASSUME IInv, ServerInv, ViewShape, ViewHere, NEW p \in posts, TurnRefused(p)
    PROVE  ViewShape' /\ ViewHere'
<1>1. UNCHANGED <<server, view, detail, shown, known, torn, told, missed>>
  BY DEF TurnRefused, page
<1>2. CASE p.phase = "refused" /\ view = p.thread /\ view # 0
  <2>1. loads' = Requested(loads, Load("refresh", view, FALSE))
    BY <1>2 DEF TurnRefused, Refresh
  <2>2. GenShape(gens, shown', view) /\ (view \in exists => GenOver(gens, shown'))
    BY <1>1 DEF ViewShape, ViewHere
  <2> QED BY <1>1, <1>2, <2>1, <2>2, ViewRefreshed
<1>3. CASE ~(p.phase = "refused" /\ view = p.thread /\ view # 0)
  <2>1. loads' = loads
    BY <1>3 DEF TurnRefused, Refresh
  <2> QED BY <1>1, <2>1, SameView
<1> QED BY <1>2, <1>3

\* A conversation was deleted.
LEMMA DeleteAnsweredView ==
    ASSUME IInv, ServerInv, ViewShape, ViewHere, NEW p \in posts, DeleteAnswered(p)
    PROVE  ViewShape' /\ ViewHere'
<1>1. UNCHANGED server
  BY DEF DeleteAnswered
<1>2. CASE view = p.thread
  <2>1. Enter(0, {}, posts \ {p})
    BY <1>2 DEF DeleteAnswered, EnterNew
  <2> QED BY <1>1, <2>1, EnterView
<1>3. CASE view # p.thread
  <2>1. UNCHANGED <<page, loads>>
    BY <1>3 DEF DeleteAnswered
  <2> QED BY <1>1, <2>1, SameView DEF page
<1> QED BY <1>2, <1>3

\* A conversation is opened.
LEMMA OpenViewView ==
    ASSUME IInv, ServerInv, NEW v, OpenView(v)
    PROVE  ViewShape' /\ ViewHere'
<1>1. UNCHANGED server /\ (v = 0 \/ \E g \in DOMAIN gens : gens[g].thread = v)
  BY DEF OpenView
<1>2. CASE v = 0
  <2>1. Enter(0, {}, posts)
    BY <1>2 DEF OpenView, EnterNew
  <2> QED BY <1>1, <2>1, EnterView
<1>3. CASE v # 0
  <2>1. Enter(v, {Load("open", v, FALSE)}, posts)
    BY <1>3 DEF OpenView
  <2> QED BY <1>1, <1>3, <2>1, EnterView
<1> QED BY <1>2, <1>3

\* A load or a refresh fails.
LEMMA LoadFailsView ==
    ASSUME IInv, ServerInv, ViewShape, ViewHere, NEW l \in loads, LoadFails(l)
    PROVE  ViewShape' /\ ViewHere'
<1>1. UNCHANGED server /\ UNCHANGED <<gens, messages, exists>>
  BY DEF LoadFails, server
<1>2. CASE l.kind = "open" \/ l.phase = "gone"
  <2>1. Enter(0, {}, posts)
    BY <1>2 DEF LoadFails, EnterNew
  <2> QED BY <1>1, <2>1, EnterView
<1>3. CASE ~(l.kind = "open" \/ l.phase = "gone")
  <2>1. /\ told' = (told \/ l.tells) /\ missed' = (missed \/ l.silences) /\ loads' = loads \ {l}
        /\ UNCHANGED <<view, detail, shown, known, torn>>
    BY <1>3 DEF LoadFails
  <2>2. \A k \in loads : LoadShape(k)' <=> LoadShape(k)
    BY <1>1, <2>1 DEF LoadShape
  <2>3. ASSUME NEW k \in loads PROVE LoadHere(k)' <=> LoadHere(k)
    <3>1. Upto(k)' = Upto(k) /\ (AppliesGeneration(k)' <=> AppliesGeneration(k))
      BY <2>1 DEF Upto, AppliesGeneration
    <3> HIDE DEF Terminal
    <3> QED BY <1>1, <2>1, <3>1 DEF LoadHere
  <2>4. Complete' <=> Complete
    BY <1>1, <2>1 DEF Complete
  <2>5. ViewShape'
    BY <1>1, <2>1, <2>2 DEF ViewShape
  <2>6. ViewHere'
    BY <1>1, <2>1, <2>3, <2>4 DEF ViewHere
  <2> QED BY <2>5, <2>6
<1> QED BY <1>2, <1>3

\* The server reads something for a load.
LEMMA LoadReads ==
    ASSUME ViewShape, ViewHere, UNCHANGED <<server, page>>, NEW l \in loads, NEW k,
           loads' = (loads \ {l}) \cup {k},
           k.newest = l.newest, k.kind = l.kind, k.after = l.after,
           k.tells = l.tells, k.silences = l.silences,
           l.newest => GenShape(gens, k.gen, view),
           l.newest /\ view \in exists => LoadHere(k)
    PROVE  ViewShape' /\ ViewHere'
<1>1. UNCHANGED <<gens, messages, exists, view, detail, shown, known, torn, told, missed>>
  BY DEF server, page
<1>2. \A m : LoadShape(m)' <=> LoadShape(m)
  BY <1>1 DEF LoadShape
<1>3. ASSUME NEW m PROVE LoadHere(m)' <=> LoadHere(m)
  <2>1. Upto(m)' = Upto(m) /\ (AppliesGeneration(m)' <=> AppliesGeneration(m))
    BY <1>1 DEF Upto, AppliesGeneration
  <2> HIDE DEF Terminal
  <2> QED BY <1>1, <2>1 DEF LoadHere
<1>4. Complete' <=> Complete
  BY <1>1 DEF Complete
<1>5. l.newest => LoadShape(k)
  BY DEF ViewShape, LoadShape
<1>6. ViewShape'
  <2>1. \A m, n \in loads' : m.newest /\ n.newest => m = n
    BY DEF ViewShape
  <2>2. \A m \in loads' : m.newest => LoadShape(m)'
    BY <1>2, <1>5 DEF ViewShape
  <2>3. view = 0 => FALSE
    BY DEF ViewShape
  <2> QED BY <1>1, <2>1, <2>2, <2>3 DEF ViewShape
<1>7. ViewHere'
  <2>1. view \in exists => \A m \in loads' : m.newest => LoadHere(m)'
    BY <1>3 DEF ViewHere
  <2>2. (\E m \in loads : m.newest /\ (m.tells \/ m.silences)) =>
           \E m \in loads' : m.newest /\ (m.tells \/ m.silences)
    BY DEF ViewHere
  <2> QED BY <1>1, <1>4, <2>1, <2>2 DEF ViewHere
<1> QED BY <1>6, <1>7

\* The lengths of what is loaded and of what a load has read.
LEMMA PartLengths ==
    ASSUME NEW ms, NEW some, ms \in Seq(Message), NEW n \in Nat, Part(ms, n, some)
    PROVE  /\ Len(ms) \in Nat /\ Len(some) \in Nat /\ n + Len(some) <= Len(ms)
           /\ n + Len(some) \in Nat /\ n <= Len(ms)
<1>1. PICK a \in Nat : a = Len(ms)
  OBVIOUS
<1>2. PICK b \in Nat : b = Len(some)
  BY DEF Part
<1>3. n + b <= a
  BY <1>1, <1>2 DEF Part
<1> QED BY <1>1, <1>2, <1>3

\* Whatever was heard of is a turn of the conversation.
LEMMA HeardTurns ==
    ASSUME ServerInv, view \in exists, \A g \in known : Turn(gens, g, view),
           NEW n \in Nat, n <= Len(messages[view])
    PROVE  \A g \in Heard(known, messages[view], n) : Turn(gens, g, view)
<1>1. Ordered(gens, messages[view], view)
  BY DEF ServerInv
<1>2. Len(messages[view]) \in Nat /\ \A i \in 1 .. n : i \in 1 .. Len(messages[view])
  BY <1>1 DEF Ordered
<1> QED BY <1>1, <1>2 DEF Ordered, Heard

\* What the phases of a load do not change.
LEMMA LoadPhase ==
    ASSUME IInv, NEW l \in loads, NEW ph
    PROVE  /\ LET k == [l EXCEPT !.phase = ph] IN
              /\ k.newest = l.newest /\ k.kind = l.kind /\ k.after = l.after /\ k.tells = l.tells
              /\ k.silences = l.silences /\ k.epoch = l.epoch /\ k.gen = l.gen /\ k.phase = ph
           /\ \A ms : LET k == [l EXCEPT !.phase = ph, !.messages = ms] IN
              /\ k.newest = l.newest /\ k.kind = l.kind /\ k.after = l.after /\ k.tells = l.tells
              /\ k.silences = l.silences /\ k.epoch = l.epoch /\ k.gen = l.gen /\ k.phase = ph
              /\ k.messages = ms
           /\ \A g, t : LET k == [l EXCEPT !.phase = ph, !.gen = g, !.torn = t] IN
              /\ k.newest = l.newest /\ k.kind = l.kind /\ k.after = l.after /\ k.tells = l.tells
              /\ k.silences = l.silences /\ k.epoch = l.epoch /\ k.gen = g /\ k.phase = ph
              /\ k.messages = l.messages /\ k.torn = t
           /\ \A g, h, t : LET k == [l EXCEPT !.phase = ph, !.gen = g, !.handoff = h, !.torn = t] IN
              /\ k.newest = l.newest /\ k.kind = l.kind /\ k.after = l.after /\ k.tells = l.tells
              /\ k.silences = l.silences /\ k.epoch = l.epoch /\ k.gen = g /\ k.phase = ph
              /\ k.messages = l.messages /\ k.torn = t
<1>1. LoadType(l, Len(gens))
  BY Types
<1>2. DOMAIN l = LoadFields
  BY <1>1 DEF LoadType
<1> QED BY <1>2 DEF LoadFields

\* The messages are read.
LEMMA ReadMessagesView ==
    ASSUME IInv, ServerInv, ViewShape, ViewHere, NEW l \in loads, ReadMessages(l)
    PROVE  ViewShape' /\ ViewHere'
<1>1. PICK ms : ms = SubSeq(messages[view], l.after + 1, Len(messages[view]))
  OBVIOUS
<1>2. PICK k : k = IF view \notin exists THEN [l EXCEPT !.phase = "gone"]
                   ELSE IF ~l.newest THEN [l EXCEPT !.phase = "answered"]
                   ELSE [l EXCEPT !.phase = "row", !.messages = ms]
  OBVIOUS
<1>3. l.phase = "sent" /\ loads' = (loads \ {l}) \cup {k} /\ UNCHANGED <<server, page>>
  BY <1>1, <1>2 DEF ReadMessages
<1>4. /\ k.newest = l.newest /\ k.kind = l.kind /\ k.after = l.after /\ k.tells = l.tells
      /\ k.silences = l.silences /\ k.epoch = l.epoch /\ k.gen = l.gen
      /\ view \in exists /\ l.newest => k.phase = "row" /\ k.messages = ms
  BY <1>2, LoadPhase
<1>5. l.newest => GenShape(gens, k.gen, view)
  BY <1>4 DEF ViewShape, LoadShape
<1>6. ASSUME l.newest, view \in exists PROVE LoadHere(k)
  <2>1. LoadHere(l) /\ l.after = Len(detail.messages) /\ Part(messages[view], 0, detail.messages)
    BY <1>6 DEF ViewShape, ViewHere, LoadShape
  <2>2. PICK M : M = messages[view] /\ M \in Seq(Message)
    BY <1>6 DEF ServerInv, Ordered
  <2>3. PICK n \in Nat : n = Len(M)
    BY <2>2
  <2>4. PICK d \in Nat : d = Len(detail.messages)
    BY <2>1 DEF Part
  <2>5. d <= n
    BY <2>1, <2>2, <2>3, <2>4, PartLengths
  <2>6. ms = SubSeq(M, d + 1, n)
    BY <1>1, <2>1, <2>2, <2>3, <2>4
  <2>7. ms \in Seq(Message) /\ Len(ms) = n - d /\ \A i \in 1 .. n - d : ms[i] = M[d + i]
    <3>1. d + 1 \in 1 .. n + 1 /\ d \in 0 .. n
      BY <2>5
    <3>2. /\ ms \in Seq(Message)
          /\ Len(ms) = IF d + 1 <= n THEN n - (d + 1) + 1 ELSE 0
          /\ \A i \in 1 .. n - (d + 1) + 1 : ms[i] = M[(d + 1) + i - 1]
      BY <2>2, <2>3, <2>6, <3>1, SubSeqProperties
    <3> QED BY <3>1, <3>2
  <2>8. Part(M, d, ms)
    BY <2>3, <2>5, <2>7 DEF Part
  <2>9. ~AppliesGeneration(k) => shown.status = "running"
    BY <1>4, <2>1 DEF LoadHere, AppliesGeneration
  <2> QED BY <1>4, <1>6, <2>2, <2>4, <2>8, <2>9 DEF LoadHere
<1> QED BY <1>3, <1>4, <1>5, <1>6, LoadReads

\* The newest turn is read.
LEMMA ReadRowView ==
    ASSUME IInv, ServerInv, ViewShape, ViewHere, NEW l \in loads, ReadRow(l)
    PROVE  ViewShape' /\ ViewHere'
<1>1. PICK latest : latest = IF Chats(view) = {} THEN 0 ELSE Max(Chats(view))
  OBVIOUS
<1>2. PICK over \in BOOLEAN : over = (latest = 0 \/ gens[latest].status \in {"completed", "deleted"})
  OBVIOUS
<1>3. PICK r, t : /\ r = IF over THEN Nothing ELSE [id |-> latest, status |-> "running"]
                  /\ t = (Len(messages[view]) > l.after + Len(l.messages))
  OBVIOUS
<1>4. PICK k : k = [l EXCEPT !.phase = "snapshot", !.gen = r, !.torn = t]
  OBVIOUS
<1>5. l.phase = "row" /\ loads' = (loads \ {l}) \cup {k} /\ UNCHANGED <<server, page>>
  BY <1>1, <1>2, <1>3, <1>4 DEF ReadRow
<1>6. /\ k.newest = l.newest /\ k.kind = l.kind /\ k.after = l.after /\ k.tells = l.tells
      /\ k.silences = l.silences /\ k.epoch = l.epoch /\ k.gen = r /\ k.phase = "snapshot"
      /\ k.messages = l.messages /\ k.torn = t
  BY <1>4, LoadPhase
<1>7. Chats(view) # {} => Turn(gens, latest, view) /\ latest # 0 /\ latest \in Nat
                           /\ \A g : Turn(gens, g, view) => g <= latest
  <2> SUFFICES ASSUME Chats(view) # {}
               PROVE  Turn(gens, latest, view) /\ latest # 0 /\ latest \in Nat
                      /\ \A g : Turn(gens, g, view) => g <= latest
    OBVIOUS
  <2>1. Len(gens) \in Nat /\ DOMAIN gens = 1 .. Len(gens)
    BY Types
  <2>2. PICK n \in Nat : n = Len(gens)
    BY <2>1
  <2>5. PICK S : S = Chats(view)
    OBVIOUS
  <2>4. S \in SUBSET (0 .. n) /\ S # {}
    <3>1. \A g \in S : g \in 1 .. n
      BY <2>1, <2>2, <2>5 DEF Chats
    <3> QED BY <2>5, <3>1
  <2>3. latest \in S /\ \A x \in S : x <= latest
    BY <1>1, <2>4, <2>5, MaxIn
  <2> QED BY <2>1, <2>3, <2>5 DEF Chats, Turn
<1>8. Chats(view) = {} => latest = 0 /\ \A g : ~Turn(gens, g, view)
  BY <1>1 DEF Chats, Turn
<1>9. GenShape(gens, r, view)
  BY <1>2, <1>3, <1>7, <1>8 DEF GenShape, Nothing
<1>10. ASSUME l.newest, view \in exists PROVE LoadHere(k)
  <2>1. /\ LoadHere(l) /\ l.after = Len(detail.messages) /\ Part(messages[view], 0, detail.messages)
        /\ \A g \in known : Turn(gens, g, view)
    BY <1>10 DEF ViewShape, ViewHere, LoadShape
  <2>2. PICK M : M = messages[view] /\ M \in Seq(Message) /\ Ordered(gens, M, view)
    BY <1>10 DEF ServerInv, Ordered
  <2>3. Part(M, Len(detail.messages), l.messages)
    BY <1>5, <2>1, <2>2 DEF LoadHere
  <2>4. PICK d \in Nat : d = Len(detail.messages)
    BY <2>1 DEF Part
  <2>5. PICK e \in Nat : e = Len(l.messages)
    BY <2>3 DEF Part
  <2>6. PICK n \in Nat : n = Len(M)
    BY <2>2
  <2>7. d + e <= n /\ Upto(k) = d + e
    BY <1>6, <2>3, <2>4, <2>5, <2>6, PartLengths DEF Part, Upto
  <2>8. PICK heard : heard = Heard(known, messages[view], Upto(k))
    OBVIOUS
  <2>9. \A g \in heard : Turn(gens, g, view)
    BY <1>10, <2>1, <2>2, <2>6, <2>7, <2>8, HeardTurns
  <2>10. Offered(gens, heard, view, r.id)
    <3> SUFFICES ASSUME NEW g \in heard, gens[g].status \in {"running", "failed"}, Newest(gens, g, view)
                 PROVE  r.id = g
      BY DEF Offered
    <3>1. Turn(gens, g, view) /\ Turn(gens, latest, view) /\ latest \in Nat /\ g <= latest /\ latest # 0
      BY <1>7, <1>8, <2>9
    <3>2. latest <= g /\ g \in Nat
      BY <3>1, Types DEF Newest, Turn
    <3>3. latest = g
      BY <3>1, <3>2
    <3> QED BY <1>2, <1>3, <3>1, <3>3
  <2>11. ASSUME ~k.torn PROVE Present(gens, heard, messages[view], Upto(k), r.id)
    <3>1. ~(n > d + e)
      BY <1>3, <1>6, <2>1, <2>2, <2>4, <2>5, <2>6, <2>11
    <3>2. Upto(k) = n
      BY <2>7, <3>1
    <3> QED BY <2>2, <2>6, <2>9, <3>2 DEF Present, Ordered
  <2>12. ~AppliesGeneration(k) => shown.status = "running"
    BY <1>6, <2>1 DEF LoadHere, AppliesGeneration
  <2>13. Part(messages[view], Len(detail.messages), k.messages)
    BY <1>6, <2>2, <2>3
  <2> QED BY <1>6, <2>8, <2>10, <2>11, <2>12, <2>13 DEF LoadHere
<1> QED BY <1>5, <1>6, <1>9, <1>10, LoadReads

\* It is read how that stands.
LEMMA ReadSnapshotView ==
    ASSUME IInv, ServerInv, ViewShape, ViewHere, NEW l \in loads, ReadSnapshot(l)
    PROVE  ViewShape' /\ ViewHere'
<1>1. PICK g, status : g = l.gen.id /\ status = IF g = 0 THEN "none" ELSE gens[g].status
  OBVIOUS
<1>2. PICK running : running = {h \in Running(view) : gens[h].purpose = "handoff"}
  OBVIOUS
<1>3. PICK r, h, t : /\ r = IF status \in {"none", "deleted"} THEN Nothing ELSE [l.gen EXCEPT !.status = status]
                     /\ h = IF running = {} THEN 0 ELSE Max(running)
                     /\ t = (l.torn /\ status # "running")
  OBVIOUS
<1>4. PICK k : k = [l EXCEPT !.phase = "answered", !.gen = r, !.handoff = h, !.torn = t]
  OBVIOUS
<1>5. l.phase = "snapshot" /\ UNCHANGED <<server, page>>
  BY DEF ReadSnapshot
<1>6. loads' = (loads \ {l}) \cup {k}
  <2>1. LoadType(l, Len(gens))
    BY Types
  <2>2. k = [l EXCEPT !.phase = "answered",
                    !.gen = IF status \in {"none", "deleted"} THEN Nothing ELSE [@ EXCEPT !.status = status],
                    !.handoff = IF running = {} THEN 0 ELSE Max(running),
                    !.torn = @ /\ status # "running"]
    BY <1>3, <1>4, <2>1 DEF LoadType, LoadFields
  <2> QED BY <1>1, <1>2, <2>2 DEF ReadSnapshot
<1>7. /\ k.newest = l.newest /\ k.kind = l.kind /\ k.after = l.after /\ k.tells = l.tells
      /\ k.silences = l.silences /\ k.epoch = l.epoch /\ k.gen = r /\ k.phase = "answered"
      /\ k.messages = l.messages /\ k.torn = t
  BY <1>4, LoadPhase
<1>8. ASSUME l.newest
      PROVE  /\ GenShape(gens, r, view) /\ GenOver(gens, r)
             /\ r.id # 0 => r.id = g /\ r.status = gens[g].status
             /\ view \in exists => r.id = g
             /\ r.id = 0 => r.status = "none"
  <2>1. GenShape(gens, l.gen, view)
    BY <1>8 DEF ViewShape, LoadShape
  <2>2. g # 0 => Turn(gens, g, view) /\ gens[g] \in GenType
    BY <1>1, <2>1, Types DEF GenShape, Turn
  <2>3. CASE status \in {"none", "deleted"}
    <3>1. r = Nothing
      BY <1>3, <2>3
    <3>2. view \in exists => g = 0
      BY <1>1, <2>2, <2>3 DEF ServerInv, GenType, Turn
    <3> QED BY <3>1, <3>2 DEF GenShape, GenOver, Nothing
  <2>4. CASE status \notin {"none", "deleted"}
    <3>1. g # 0 /\ status = gens[g].status /\ Turn(gens, g, view) /\ gens[g] \in GenType
      BY <1>1, <2>2, <2>4
    <3>2. r = [id |-> g, status |-> status]
      BY <1>1, <1>3, <2>1, <2>4 DEF GenShape
    <3>3. status # "running" => Terminal(status)
      BY <2>4, <3>1 DEF GenType, Terminal
    <3> QED BY <2>4, <3>1, <3>2, <3>3 DEF GenShape, GenOver
  <2> QED BY <2>3, <2>4
<1>9. ASSUME l.newest, view \in exists PROVE LoadHere(k)
  <2>1. LoadHere(l) /\ GenOver(gens, shown) /\ GenShape(gens, shown, view)
    BY <1>9 DEF ViewShape, ViewHere
  <2>2. r.id = g /\ (r.id # 0 => r.status = gens[g].status) /\ (r.id = 0 => r.status = "none")
        /\ GenOver(gens, r)
    BY <1>8, <1>9
  <2>3. Upto(k) = Upto(l) /\ (AppliesGeneration(k) <=> AppliesGeneration(l))
    BY <1>7 DEF Upto, AppliesGeneration
  <2>4. ~k.torn /\ k.gen.status # "running" => ~l.torn
    BY <1>1, <1>3, <1>7, <2>2
  <2>5. k.gen.id = shown.id /\ Terminal(shown.status) => k.gen.status # "running"
    BY <1>7, <2>1, <2>2 DEF GenOver, GenShape, Terminal
  <2> HIDE DEF Terminal
  <2>6. AppliesGeneration(k) =>
          LET heard == Heard(known, messages[view], Upto(k)) IN
          /\ Offered(gens, heard, view, k.gen.id)
          /\ ~k.torn /\ (k.phase = "answered" => k.gen.status # "running") =>
               Present(gens, heard, messages[view], Upto(k), k.gen.id)
    BY <1>1, <1>5, <1>7, <2>1, <2>2, <2>3, <2>4 DEF LoadHere
  <2>7. Part(messages[view], Len(detail.messages), k.messages)
    BY <1>5, <1>7, <2>1 DEF LoadHere
  <2>8. ~AppliesGeneration(k) => shown.status = "running"
    BY <2>1, <2>3 DEF LoadHere
  <2> QED BY <1>7, <2>2, <2>5, <2>6, <2>7, <2>8 DEF LoadHere
<1> QED BY <1>5, <1>6, <1>7, <1>8, <1>9, LoadReads
-----------------------------------------------------------------------------
(* Answers that are merged.                                                *)

\* What is merged into the messages that were loaded follows them.
LEMMA MergedFollows ==
    ASSUME NEW M, Ordered(gens, M, view), NEW l, l.after = Len(detail.messages),
           Part(M, 0, detail.messages), Part(M, Len(detail.messages), l.messages)
    PROVE  /\ Part(M, 0, Merged(l).messages) /\ Len(Merged(l).messages) = Upto(l)
           /\ \A i \in 1 .. Upto(l) : Merged(l).messages[i] = M[i]
           /\ Upto(l) \in Nat /\ Upto(l) <= Len(M)
<1>1. PICK old, es : old = detail.messages /\ es = l.messages
  OBVIOUS
<1>2. M \in Seq(Message) /\ old \in Seq(Message) /\ es \in Seq(Message)
  BY <1>1 DEF Ordered, Part
<1>3. PICK d \in Nat : d = Len(old)
  BY <1>2
<1>4. PICK e \in Nat : e = Len(es)
  BY <1>2
<1>5. PICK n \in Nat : n = Len(M)
  BY <1>2
<1>6. /\ d + e <= n /\ Upto(l) = d + e
      /\ \A i \in 1 .. d : old[i] = M[i]
      /\ \A i \in 1 .. e : es[i] = M[d + i]
  <2>1. Part(M, 0, old) /\ Part(M, d, es)
    BY <1>1, <1>3
  <2>2. Upto(l) = d + e
    BY <1>1, <1>3, <1>4 DEF Upto
  <2>3. d + e <= n /\ \A i \in 1 .. e : es[i] = M[d + i]
    BY <1>4, <1>5, <2>1 DEF Part
  <2>4. \A i \in 1 .. d : old[i] = M[0 + i]
    BY <1>3, <2>1 DEF Part
  <2>5. \A i \in 1 .. d : old[i] = M[i]
    <3>1. \A i \in 1 .. d : 0 + i = i
      OBVIOUS
    <3> QED BY <2>4, <3>1
  <2> QED BY <2>2, <2>3, <2>5
<1>7. DOMAIN old = 1 .. d /\ DOMAIN es = 1 .. e
  BY <1>2, <1>3, <1>4
<1>8. PICK base : base = IF l.after = 0 THEN <<>> ELSE old
  OBVIOUS
<1>9. base \in Seq(Message) /\ Len(base) = d /\ \A i \in 1 .. d : base[i] = M[i]
  <2>1. CASE d = 0
    <3>1. base = <<>>
      BY <1>1, <1>3, <1>8, <2>1
    <3>2. Len(<<>>) = 0 /\ <<>> \in Seq(Message)
      OBVIOUS
    <3> QED BY <2>1, <3>1, <3>2
  <2>2. CASE d # 0
    BY <1>1, <1>2, <1>3, <1>6, <1>8, <2>2
  <2> QED BY <2>1, <2>2
<1>10. PICK seen : seen = {old[i] : i \in DOMAIN old}
  OBVIOUS
<1>11. PICK all : all = (l.after = 0)
  OBVIOUS
<1>12. \A i \in DOMAIN es : es[i] \notin seen
  <2> SUFFICES ASSUME NEW i \in 1 .. e, NEW j \in 1 .. d, es[i] = old[j] PROVE FALSE
    BY <1>7, <1>10
  <2>1. d + i \in 1 .. n /\ j \in 1 .. n /\ d + i # j
    BY <1>6
  <2>2. M[d + i] = M[j]
    BY <1>6
  <2> QED BY <1>5, <2>1, <2>2 DEF Ordered
<1>13. PICK f : f = (CHOOSE g : Merging(g, base, es, all, seen)) /\ Merging(f, base, es, all, seen)
  <2>1. \E g : Merging(g, base, es, all, seen)
    BY <1>7, MergingExists
  <2> QED BY <2>1
<1>14. PICK r : r = f[DOMAIN es]
  OBVIOUS
<1>15. Merged(l).messages = r
  BY <1>1, <1>8, <1>10, <1>11, <1>13, <1>14, MergedIs
<1>16. /\ r \in Seq(Message) /\ Len(r) = d + e
       /\ \A i \in 1 .. d : r[i] = base[i]
       /\ \A i \in 1 .. e : r[d + i] = es[i]
  <2>1. base \in Seq(Message) /\ es \in Seq(Message)
    BY <1>2, <1>9
  <2>2. Merging(f, base, es, all, seen)
    BY <1>13
  <2>3. Follows(Message, r, base, es)
    BY <1>12, <1>14, <2>1, <2>2, MergedInOrder
  <2> QED BY <1>4, <1>9, <2>3 DEF Follows
<1>17. \A i \in 1 .. d + e : r[i] = M[i]
  <2> SUFFICES ASSUME NEW i \in 1 .. d + e PROVE r[i] = M[i]
    OBVIOUS
  <2>1. CASE i <= d
    BY <1>9, <1>16, <2>1
  <2>2. CASE i > d
    <3>1. i - d \in 1 .. e /\ d + (i - d) = i
      BY <2>2
    <3> QED BY <1>6, <1>16, <3>1
  <2> QED BY <2>1, <2>2
<1>18. Part(M, 0, r)
  <2>1. PICK m \in Nat : m = d + e
    OBVIOUS
  <2>2. Len(r) = m /\ m <= n /\ \A i \in 1 .. m : r[i] = M[i]
    BY <1>6, <1>16, <1>17, <2>1
  <2>3. 0 + m = m /\ \A i \in 1 .. m : 0 + i = i
    OBVIOUS
  <2>4. \A i \in 1 .. m : r[i] = M[0 + i]
    BY <2>2, <2>3
  <2> QED BY <1>5, <1>16, <2>2, <2>3, <2>4 DEF Part
<1> QED BY <1>5, <1>6, <1>15, <1>16, <1>17, <1>18

\* The generation state that an answer brings.
LEMMA Brought ==
    ASSUME ViewShape, NEW l \in loads, l.newest, LoadAnswered(l)
    PROVE  /\ shown' = shown \/ shown' = l.gen
           /\ ~AppliesGeneration(l) => shown' = shown
           /\ AppliesGeneration(l) => shown'.id = l.gen.id
           /\ AppliesGeneration(l) /\ shown' # l.gen => Terminal(shown.status)
<1>1. shown' = IF ~AppliesGeneration(l) THEN shown
               ELSE IF l.kind = "open" THEN l.gen ELSE Newer(l.gen)
  BY DEF LoadAnswered
<1>2. CASE ~AppliesGeneration(l)
  BY <1>1, <1>2
<1>3. CASE AppliesGeneration(l)
  BY <1>1, <1>3 DEF Newer
<1> QED BY <1>2, <1>3

\* The newest load or refresh answers ...
LEMMA NewestAnswered ==
    ASSUME IInv, ServerInv, ViewShape, ViewHere, NEW l \in loads, l.newest, LoadAnswered(l)
    PROVE  ViewShape' /\ ViewHere'
<1>1. PICK R : R = Merged(l).messages
  OBVIOUS
<1>2. /\ l.phase = "answered" /\ loads' = loads \ {l} /\ UNCHANGED <<server, view, told, missed>>
      /\ detail' = Merged(l) /\ torn' = l.torn
      /\ known' = known \cup ({shown'.id} \ {0}) \cup {detail'.messages[i][1] : i \in DOMAIN detail'.messages}
  BY DEF LoadAnswered
<1>3. UNCHANGED <<gens, messages, exists>>
  BY <1>2 DEF server
<1>4. detail'.thread = view /\ detail'.messages = R
  BY <1>1, <1>2 DEF Merged
<1>5. \A k \in loads' : ~k.newest
  BY <1>2 DEF ViewShape
<1>6. view # 0
  BY DEF ViewShape
<1>7. /\ shown' = shown \/ shown' = l.gen
      /\ ~AppliesGeneration(l) => shown' = shown
      /\ AppliesGeneration(l) => shown'.id = l.gen.id
      /\ AppliesGeneration(l) /\ shown' # l.gen => Terminal(shown.status)
  BY Brought
<1>8. GenShape(gens, shown', view)
  BY <1>7 DEF ViewShape, LoadShape
<1>9. ViewShape'
  BY <1>2, <1>3, <1>4, <1>5, <1>6, <1>8 DEF ViewShape
<1>10. ASSUME view \in exists
       PROVE  /\ GenOver(gens, shown') /\ \A g \in known' : Turn(gens, g, view)
              /\ Part(messages[view], 0, R)
              /\ ~torn' => shown'.status = "running" \/ Complete'
  <2>1. /\ LoadHere(l) /\ GenOver(gens, shown) /\ l.after = Len(detail.messages)
        /\ Part(messages[view], 0, detail.messages) /\ \A g \in known : Turn(gens, g, view)
    BY <1>10 DEF ViewHere, ViewShape, LoadShape
  <2>2. PICK M : M = messages[view] /\ Ordered(gens, M, view)
    BY <1>10 DEF ServerInv
  <2>3. Part(M, Len(detail.messages), l.messages) /\ GenOver(gens, l.gen)
    BY <1>2, <2>1, <2>2 DEF LoadHere
  <2>4. PICK n \in Nat : n = Upto(l)
    BY <2>1, <2>2, <2>3, MergedFollows
  <2>5. Part(M, 0, R) /\ Len(R) = n /\ n <= Len(M) /\ \A i \in 1 .. n : R[i] = M[i]
    BY <1>1, <2>1, <2>2, <2>3, <2>4, MergedFollows
  <2>6. R \in Seq(Message) /\ DOMAIN R = 1 .. n
    BY <2>4, <2>5 DEF Part
  <2>7. PICK heard : heard = Heard(known, M, n)
    OBVIOUS
  <2>8. \A g \in heard : Turn(gens, g, view)
    BY <1>10, <2>1, <2>2, <2>4, <2>5, <2>7, HeardTurns
  <2>9. known' = heard \cup ({shown'.id} \ {0})
    BY <1>2, <1>4, <2>5, <2>6, <2>7 DEF Heard
  <2>10. Heard(known', M, n) = heard \cup ({shown'.id} \ {0})
    BY <2>7, <2>9 DEF Heard
  <2>11. \A g \in known' : Turn(gens, g, view)
    BY <1>8, <2>8, <2>9 DEF GenShape
  <2>12. GenOver(gens, shown')
    BY <1>7, <2>1, <2>3
  <2>13. ASSUME ~torn', shown'.status # "running" PROVE Complete'
    <3>1. AppliesGeneration(l)
      BY <1>7, <2>1, <2>13 DEF LoadHere
    <3>2. shown'.id = l.gen.id /\ l.gen.status # "running"
      BY <1>2, <1>7, <2>1, <2>13, <3>1 DEF LoadHere
    <3>3. PICK id : id = l.gen.id
      OBVIOUS
    <3>4. Offered(gens, heard, view, id) /\ Present(gens, heard, M, n, id)
      BY <1>2, <2>1, <2>2, <2>4, <2>7, <2>13, <3>1, <3>2, <3>3 DEF LoadHere
    <3>5. PICK more : more = Heard(known', M, n)
      OBVIOUS
    <3>6. \A g \in more : g \in heard \/ g = id
      BY <2>10, <3>2, <3>3, <3>5
    <3>7. Offered(gens, more, view, id) /\ Present(gens, more, M, n, id)
      BY <3>4, <3>6 DEF Offered, Present
    <3> QED BY <1>2, <1>3, <1>4, <2>2, <2>5, <3>2, <3>3, <3>5, <3>7 DEF Complete
  <2> QED BY <2>2, <2>5, <2>11, <2>12, <2>13
<1>11. ViewHere'
  BY <1>2, <1>3, <1>4, <1>5, <1>10 DEF ViewHere
<1> QED BY <1>9, <1>11

\* ... or an older one, which changes nothing.
LEMMA LoadAnsweredView ==
    ASSUME IInv, ServerInv, ViewShape, ViewHere, NEW l \in loads, LoadAnswered(l)
    PROVE  ViewShape' /\ ViewHere'
<1>1. CASE l.newest
  BY <1>1, NewestAnswered
<1>2. CASE ~l.newest
  <2>1. loads' = loads \ {l} /\ UNCHANGED <<server, view, detail, shown, known, torn, told, missed>>
    BY <1>2 DEF LoadAnswered
  <2>2. UNCHANGED <<gens, messages, exists>>
    BY <2>1 DEF server
  <2>3. \A k \in loads : LoadShape(k)' <=> LoadShape(k)
    BY <2>1, <2>2 DEF LoadShape
  <2>4. ASSUME NEW k \in loads PROVE LoadHere(k)' <=> LoadHere(k)
    <3>1. Upto(k)' = Upto(k) /\ (AppliesGeneration(k)' <=> AppliesGeneration(k))
      BY <2>1 DEF Upto, AppliesGeneration
    <3> HIDE DEF Terminal
    <3> QED BY <2>1, <2>2, <3>1 DEF LoadHere
  <2>5. Complete' <=> Complete
    BY <2>1, <2>2 DEF Complete
  <2>6. ViewShape'
    BY <2>1, <2>2, <2>3 DEF ViewShape
  <2>7. (\E k \in loads : k.newest /\ (k.tells \/ k.silences)) =>
          \E k \in loads' : k.newest /\ (k.tells \/ k.silences)
    BY <1>2, <2>1
  <2>8. ViewHere'
    BY <2>1, <2>2, <2>4, <2>5, <2>7 DEF ViewHere
  <2> QED BY <2>6, <2>8
<1> QED BY <1>1, <1>2
-----------------------------------------------------------------------------
(* The whole invariant.                                                    *)

ViewInv == IInv /\ ServerInv /\ OwnerInv /\ PostInv /\ ViewShape /\ ViewHere

\* The server's steps ...
LEMMA ServerStepView ==
    ASSUME ViewInv, ServerStep
    PROVE  ServerInv' /\ ViewShape' /\ ViewHere'
<1>1. IInv /\ ServerInv /\ ViewShape /\ ViewHere
  BY DEF ViewInv
<1>2. ASSUME ServerInv', Moves, UNCHANGED <<page, loads>> PROVE ServerInv' /\ ViewShape' /\ ViewHere'
  BY <1>1, <1>2, ViewMoves
<1>3. ASSUME UNCHANGED <<server, view>> PROVE ServerInv'
  BY <1>1, <1>3, NotServed
<1>4. ASSUME NEW g \in DOMAIN gens, NEW status \in {"completed", "failed", "over"}, Finish(g, status)
      PROVE  ServerInv' /\ ViewShape' /\ ViewHere'
  <2>1. UNCHANGED <<page, loads>>
    BY <1>4 DEF Finish
  <2> QED BY <1>1, <1>2, <1>4, <2>1, FinishServes
<1>5. ASSUME NEW p \in posts, Handle(p) PROVE ServerInv' /\ ViewShape' /\ ViewHere'
  <2>1. UNCHANGED <<page, loads>>
    BY <1>5 DEF Handle
  <2>2. view # 0 => \E g \in DOMAIN gens : gens[g].thread = view
    BY <1>1 DEF ViewShape
  <2>3. ServerInv' /\ Moves
    BY <1>1, <1>5, <2>2, HandleServes
  <2> QED BY <1>2, <2>1, <2>3
<1>6. ASSUME NEW p \in posts, HandleDelete(p) PROVE ServerInv' /\ ViewShape' /\ ViewHere'
  <2>1. UNCHANGED <<page, loads>>
    BY <1>6 DEF HandleDelete
  <2> QED BY <1>1, <1>2, <1>6, <2>1, HandleDeleteServes
<1>7. ASSUME NEW g \in stops, ReadStop(g) PROVE ServerInv' /\ ViewShape' /\ ViewHere'
  <2>1. UNCHANGED <<page, loads>>
    BY <1>7 DEF ReadStop
  <2> QED BY <1>1, <1>2, <1>7, <2>1, ReadStopServes
<1>8. ASSUME NEW g \in stops, StopLost(g) PROVE ServerInv' /\ ViewShape' /\ ViewHere'
  <2>1. UNCHANGED <<server, page, loads>>
    BY <1>8 DEF StopLost
  <2>2. UNCHANGED <<server, view>> /\ UNCHANGED <<shown, known, torn, told, missed, loads, detail>>
    BY <2>1 DEF page
  <2> QED BY <1>1, <1>3, <2>2, SameView
<1>9. ASSUME NEW l \in loads, ReadMessages(l) \/ ReadRow(l) \/ ReadSnapshot(l)
      PROVE  ServerInv' /\ ViewShape' /\ ViewHere'
  <2>1. UNCHANGED <<server, view>>
    BY <1>9 DEF ReadMessages, ReadRow, ReadSnapshot, page
  <2> QED BY <1>1, <1>3, <1>9, <2>1, ReadMessagesView, ReadRowView, ReadSnapshotView
<1> QED BY <1>4, <1>5, <1>6, <1>7, <1>8, <1>9 DEF ServerStep

\* ... those of the page ...
LEMMA PageStepView ==
    ASSUME ViewInv, PageStep
    PROVE  ServerInv' /\ ViewShape' /\ ViewHere'
<1>1. IInv /\ ServerInv /\ OwnerInv /\ PostInv /\ ViewShape /\ ViewHere
  BY DEF ViewInv
<1>2. UNCHANGED server
  BY DEF PageStep, LoadAnswered, LoadFails, FollowEnds, FollowGone, HandoffEnds, SendAnswered,
         RetryAnswered, TurnRefused, DeleteAnswered, HandoffAnswered, HandoffRefused, PostLost
<1>3. ServerInv'
  BY <1>1, <1>2 DEF ServerInv, server
<1>4. ASSUME NEW l \in loads, LoadAnswered(l) \/ LoadFails(l) PROVE ViewShape' /\ ViewHere'
  BY <1>1, <1>4, LoadAnsweredView, LoadFailsView
<1>5. ASSUME FollowEnds \/ FollowGone PROVE ViewShape' /\ ViewHere'
  BY <1>1, <1>5, FollowEndsView, FollowGoneView
<1>6. \A g : Cleared(g) => detail'.thread = detail.thread /\ detail'.messages = detail.messages
  BY <1>1, Types DEF Cleared, DetailType, DetailFields
<1>7. ASSUME HandoffEnds PROVE ViewShape' /\ ViewHere'
  <2>1. Cleared(dialog.gen) /\ UNCHANGED <<view, shown, known, torn, told, missed, loads>>
    BY <1>7 DEF HandoffEnds
  <2> QED BY <1>1, <1>2, <1>6, <2>1, SameView
<1>8. ASSUME NEW p \in posts,
             SendAnswered(p) \/ RetryAnswered(p) \/ TurnRefused(p) \/ DeleteAnswered(p)
      PROVE  ViewShape' /\ ViewHere'
  BY <1>1, <1>8, SendAnsweredView, RetryAnsweredView, TurnRefusedView, DeleteAnsweredView
<1>9. ASSUME NEW p \in posts, HandoffAnswered(p) \/ HandoffRefused(p) \/ PostLost(p)
      PROVE  ViewShape' /\ ViewHere'
  <2>1. UNCHANGED <<page, loads>>
    BY <1>9 DEF HandoffAnswered, HandoffRefused, PostLost
  <2> QED BY <1>1, <1>2, <2>1, SameView DEF page
<1> QED BY <1>3, <1>4, <1>5, <1>7, <1>8, <1>9 DEF PageStep

\* ... and those of the user.
LEMMA UserStepView ==
    ASSUME ViewInv, UserStep
    PROVE  ServerInv' /\ ViewShape' /\ ViewHere'
<1>1. IInv /\ ServerInv /\ ViewShape /\ ViewHere
  BY DEF ViewInv
<1>2. UNCHANGED server
  BY DEF UserStep, OpenView, Type, Send, Retry, OpenHandoff, CloseHandoff, Delete
<1>3. ServerInv'
  BY <1>1, <1>2 DEF ServerInv, server
<1>4. ASSUME NEW v \in 0 .. MaxThreads, OpenView(v) PROVE ViewShape' /\ ViewHere'
  BY <1>1, <1>4, OpenViewView
<1>5. ASSUME Type \/ Send \/ Retry \/ OpenHandoff \/ \E t \in Threads : Delete(t)
      PROVE  ViewShape' /\ ViewHere'
  <2>1. UNCHANGED <<page, loads>>
    BY <1>5 DEF Type, Send, Retry, OpenHandoff, Delete
  <2> QED BY <1>1, <1>2, <2>1, SameView DEF page
<1>6. ASSUME CloseHandoff PROVE ViewShape' /\ ViewHere'
  <2>1. \A g : Cleared(g) => detail'.thread = detail.thread /\ detail'.messages = detail.messages
    BY <1>1, Types DEF Cleared, DetailType, DetailFields
  <2>2. (detail' = detail \/ Cleared(dialog.gen)) /\ UNCHANGED <<view, shown, known, torn, told, missed, loads>>
    BY <1>6 DEF CloseHandoff
  <2> QED BY <1>1, <1>2, <2>1, <2>2, SameView
<1> QED BY <1>3, <1>4, <1>5, <1>6 DEF UserStep

\* An empty page satisfies it, ...
LEMMA InitView ==
    ASSUME Init
    PROVE  ViewInv
<1>1. IInv
  BY InitInv
<1>2. /\ gens = <<>> /\ messages = [t \in Threads |-> <<>>] /\ exists = {} /\ view = 0
      /\ detail = NoDetail /\ shown = Nothing /\ ids = {} /\ loads = {} /\ posts = {}
  BY DEF Init
<1>3. DOMAIN gens = {}
  BY <1>2
<1>4. ServerInv
  <2>1. <<>> \in Seq(Message) /\ Len(<<>>) = 0 /\ 1 .. 0 = {}
    OBVIOUS
  <2>2. \A t \in Threads : messages[t] = <<>>
    BY <1>2
  <2>3. \A t \in Threads : Ordered(gens, <<>>, t) /\ NewestRuns(gens, t)
    BY <1>3, <2>1 DEF Ordered, NewestRuns, Turn
  <2> QED BY <1>2, <1>3, <2>2, <2>3 DEF ServerInv
<1>5. OwnerInv /\ PostInv
  BY <1>2, <1>3 DEF OwnerInv, Owner, PostInv
<1>6. GenShape(gens, shown, 0)
  BY <1>2 DEF GenShape, Nothing
<1>7. ViewShape /\ ViewHere
  BY <1>2, <1>6 DEF ViewShape, ViewHere, NoDetail
<1> QED BY <1>1, <1>4, <1>5, <1>7 DEF ViewInv

\* ... every step preserves it, ...
LEMMA NextView ==
    ASSUME ViewInv, [Next]_vars
    PROVE  ViewInv'
<1>1. IInv /\ ServerInv /\ OwnerInv /\ PostInv /\ ViewShape /\ ViewHere
  BY DEF ViewInv
<1>2. IInv'
  BY <1>1, NextInv
<1>3. CASE ServerStep
  BY <1>1, <1>2, <1>3, ServerStepView, ServerStepOwner DEF ViewInv
<1>4. CASE PageStep
  BY <1>1, <1>2, <1>4, PageStepView, PageStepOwner DEF ViewInv
<1>5. CASE UserStep
  <2>1. shown.status = "failed" => shown.id \in DOMAIN gens /\ gens[shown.id].thread = view
    BY <1>1 DEF ViewShape, GenShape, Turn
  <2> QED BY <1>1, <1>2, <1>5, <2>1, UserStepView, UserStepOwner DEF ViewInv
<1>6. CASE UNCHANGED vars
  <2>1. UNCHANGED <<server, view, detail, shown, known, torn, told, missed, loads>>
        /\ UNCHANGED <<gens, messages, exists, ids, requests, posts>>
    BY <1>6 DEF vars, server, page, input
  <2>2. ServerInv'
    BY <1>1, <2>1 DEF ServerInv
  <2>3. OwnerInv' /\ PostInv'
    BY <1>1, <2>1, OwnerFewer
  <2>4. ViewShape' /\ ViewHere'
    BY <1>1, <2>1, SameView
  <2> QED BY <1>2, <2>2, <2>3, <2>4 DEF ViewInv
<1> QED BY <1>3, <1>4, <1>5, <1>6 DEF Next

\* ... and a settled view shows the conversation.
LEMMA SettledIsComplete ==
    ASSUME ViewInv
    PROVE  SettledViewIsComplete
<1> SUFFICES ASSUME Settled, ~told, ~missed, ~torn
             PROVE  /\ IsPrefix(detail.messages, messages[view])
                    /\ \A g \in known : gens[g].status = "completed" =>
                         Contains(detail.messages, <<g, "answer">>) \/ shown.id = g
                    /\ \A g \in known : gens[g].status = "failed" /\ g = Max(Chats(view)) => shown.id = g
  BY DEF SettledViewIsComplete
<1>1. IInv /\ ServerInv /\ ViewShape /\ ViewHere
  BY DEF ViewInv
<1>2. view \in exists /\ detail.thread = view /\ shown.status # "running" /\ loads = {}
  BY DEF Settled
<1>3. PICK M, D : M = messages[view] /\ D = detail.messages
  OBVIOUS
<1>4. Part(M, 0, D) /\ M \in Seq(Message) /\ \A g \in known : Turn(gens, g, view)
  BY <1>1, <1>2, <1>3 DEF ViewHere, ServerInv, Ordered
<1>5. PICK d \in Nat : d = Len(D) /\ D \in Seq(Message)
  BY <1>4 DEF Part
<1>6. PICK n \in Nat : n = Len(M)
  BY <1>4
<1>7. d <= n /\ DOMAIN D = 1 .. d /\ DOMAIN M = 1 .. n /\ \A i \in 1 .. d : D[i] = M[i]
  <2>1. 0 + d <= n /\ \A i \in 1 .. d : D[i] = M[0 + i]
    BY <1>4, <1>5, <1>6 DEF Part
  <2>2. \A i \in 1 .. d : 0 + i = i
    OBVIOUS
  <2> QED BY <1>4, <1>5, <1>6, <2>1, <2>2
<1>8. IsPrefix(D, M)
  <2>1. SubSeq(M, 1, d) = D
    BY <1>4, <1>5, <1>6, <1>7
  <2> QED BY <1>4, <1>5, <1>6, <1>7, <2>1 DEF IsPrefix
<1>9. PICK heard : heard = Heard(known, M, d)
  OBVIOUS
<1>10. Offered(gens, heard, view, shown.id) /\ Present(gens, heard, M, d, shown.id)
  BY <1>1, <1>2, <1>3, <1>5, <1>9 DEF ViewHere, Complete
<1>11. known \subseteq heard
  BY <1>9 DEF Heard
<1>12. ASSUME NEW g \in known, gens[g].status = "completed"
       PROVE  Contains(D, <<g, "answer">>) \/ shown.id = g
  <2>1. Stored(M, g, d) \/ shown.id = g
    BY <1>10, <1>11, <1>12 DEF Present
  <2>2. ASSUME Stored(M, g, d) PROVE Contains(D, <<g, "answer">>)
    <3>1. PICK i \in 1 .. d : M[i] = <<g, "answer">>
      BY <2>2 DEF Stored
    <3>2. i \in 1 .. Len(D) /\ D[i] = <<g, "answer">>
      BY <1>5, <1>7, <3>1
    <3> QED BY <3>2 DEF Contains
  <2> QED BY <2>1, <2>2
<1>13. ASSUME NEW g \in known, gens[g].status = "failed", g = Max(Chats(view))
       PROVE  shown.id = g
  <2>1. Turn(gens, g, view)
    BY <1>4
  <2>2. PICK k \in Nat : k = Len(gens) /\ DOMAIN gens = 1 .. k
    BY <1>1, Types
  <2>3. PICK S : S = Chats(view)
    OBVIOUS
  <2>4. S \in SUBSET (0 .. k) /\ g \in S
    <3>1. \A x \in S : x \in 0 .. k
      BY <2>2, <2>3 DEF Chats
    <3> QED BY <2>1, <2>3, <3>1 DEF Chats, Turn
  <2>5. \A x \in S : x <= g
    BY <1>13, <2>3, <2>4, MaxIn
  <2>6. Newest(gens, g, view)
    BY <2>3, <2>5 DEF Newest, Chats, Turn
  <2> QED BY <1>10, <1>11, <1>13, <2>6 DEF Offered
<1> QED BY <1>3, <1>8, <1>12, <1>13

\* When a view comes to rest, it shows the conversation, however late and in
\* whatever order its loads, refreshes, sends and retries were answered: a
\* gap-free beginning of it, the answer of every turn it was told of, and the
\* last turn for a retry if that failed; unless it was not loaded again after a
\* refresh failed (told, missed) or was read from two states (torn).
THEOREM SettledViewsAreComplete == Spec => []SettledViewIsComplete
BY InitView, NextView, SettledIsComplete, PTL DEF Spec
=============================================================================
