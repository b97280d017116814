-------------------------- MODULE EventStreamProofs --------------------------
(***************************************************************************)
(* EventStream, proved for every number of readers, every queue size and   *)
(* any number of updates, lost connections and Stops: a browser shows the  *)
(* draft, or the stored end, and a closed stream sends one event at most.  *)
(***************************************************************************)
EXTENDS EventStream, SequenceTheorems, WellFoundedInduction, NaturalsInduction, TLAPS

Texts == Seq(Nat)
Items == [kind : {"delta", "resync", "close", "none"}, seq : Nat,
          op : TextOps \cup {"none", "running", "stopping"}]
Views == [status : Active \cup Terminal \cup {"none"}, seq : Nat, blocks : Texts, draft : BOOLEAN]

ReaderRows ==
    [pc : {"off", "open", "select", "wait", "recheck", "reread", "poll"},
     mode : {"stream", "poll", "done", "gone"}, queue : Seq(Items), pending : Items,
     item : Items, last : Nat, view : Views, closed : BOOLEAN, sent : Nat]

\* A delta on its way leads from one draft of the history to the next.
ItemOk(d) ==
    d.kind = "delta" =>
        /\ d.seq \in 1 .. Len(drafts) /\ d.op # "none"
        /\ drafts[d.seq] = IF d.op \in TextOps THEN Append(DraftAt(d.seq - 1), d.seq)
                           ELSE DraftAt(d.seq - 1)

ItemsOk(q) == \A i \in 1 .. Len(q) : ItemOk(q[i])

\* No Stop reached the row yet, and it did not end.
Early == row.status \in {"queued", "running"}

\* What a view shows until a Stop; one from the stored row has no text.
ViewOk(v) ==
    IF v.draft THEN v.seq \in 0 .. Len(drafts) /\ v.blocks = DraftAt(v.seq)
    ELSE v.seq \in {0, 1} /\ v.blocks = <<>>

\* A browser that shows an end has stopped following.
FinalOk(rd) ==
    rd.view.status \in Terminal =>
        /\ rd.mode = "done" /\ rd.pc = "off"
        /\ row.status = "deleted" \/ (rd.view.status = row.status /\ rd.view.blocks = row.blocks)

\* What the browser shows, and what it was sent.
ViewerInv(rd) ==
    /\ rd \in ReaderRows
    /\ Early => ViewOk(rd.view)
    /\ FinalOk(rd)
    /\ session # "closed" => rd.sent = 0

\* In a closed stream the close is next, unless one item was already in hand.
StreamInv(rd) ==
    /\ ItemsOk(rd.queue) /\ ItemOk(rd.pending) /\ ItemOk(rd.item)
    /\ rd.pending # Nothing => rd.pc = "wait"
    /\ rd.closed =>
         /\ session = "closed" /\ rd.pc \in {"select", "wait", "recheck", "reread"}
         /\ rd.sent <= 1
         /\ rd.pending # Close =>
              /\ rd.queue # <<>> /\ rd.queue[1] = Close
              /\ rd.pc # "wait" \/ rd.pending # Nothing => rd.sent = 0

ReaderInv(rd) == ViewerInv(rd) /\ StreamInv(rd)

\* A stream between taking an item and what it makes of it.
InHand(rd) ==
    /\ ViewerInv(rd) /\ ItemsOk(rd.queue)
    /\ rd.pc \in {"open", "select", "wait", "recheck", "reread"} /\ rd.pending = Nothing
    /\ rd.closed => session = "closed" /\ rd.sent = 0 /\ rd.queue # <<>> /\ rd.queue[1] = Close

\* The draft in memory is the last one of its history.
DraftInv ==
    /\ live \in [status : Active \cup Terminal \cup {"none"}, seq : Nat, blocks : Texts]
    /\ drafts \in Seq(Texts)
    /\ live.status # "none" => Len(drafts) = live.seq /\ live.blocks = DraftAt(live.seq)
    /\ live.status = "running" => drafts # <<>>

\* Until a Stop the stored row holds no text, and `running' is announced on an
\* empty draft.
RowInv ==
    /\ row \in [status : Active \cup Terminal \cup {"deleted"}, rev : Nat, blocks : Texts]
    /\ Early =>
         /\ stop = "none" /\ row.blocks = <<>>
         /\ row.rev = IF row.status = "queued" THEN 0 ELSE 1
         /\ task \in {"unborn", "start", "announce"} => drafts = <<>>
         /\ drafts # <<>> => drafts[1] = <<>>

\* An entry of _live lives as long as its task.
WriterInv ==
    /\ DraftInv /\ RowInv
    /\ session \in {"in", "revoked", "closed"}
    /\ live.status = "none" <=> task \in {"unborn", "done"}
    /\ task = "unborn" => drafts = <<>> /\ live.seq = 0 /\ live.blocks = <<>>

ReadersInv ==
    /\ reader \in [Readers -> ReaderRows]
    /\ \A r \in Readers : ReaderInv(reader[r])

\* The inductive invariant.
IInv == WriterInv /\ ReadersInv

\* What a step may do to the state the readers' invariant speaks of: the
\* history only grows, and a row that ended keeps its end until it is deleted.
WriterMoves ==
    /\ drafts' = drafts \/ \E draft \in Texts : drafts' = Append(drafts, draft)
    /\ session' = session
    /\ Early' => Early
    /\ row' = row \/ row'.status = "deleted" \/ row.status \in Active

-----------------------------------------------------------------------------
(* Sequences of deltas, and what applyDelta makes of them.                 *)

\* Every non-empty set of numbers has a least one: what a recursive function
\* computes is shown by ruling out a first place where it fails.
LEMMA Least ==
    ASSUME NEW S \in SUBSET Nat, S # {}
    PROVE  \E m \in S : \A k \in S : m <= k
<1> DEFINE R == OpToRel(<, Nat)
<1>1. IsWellFoundedOn(R, Nat)
  BY NatLessThanWellFounded
<1>2. PICK m \in S : \A y \in S : ~(<<y, m>> \in R)
  <2> HIDE DEF R
  <2> QED BY <1>1, WFMin
<1>3. \A y \in S : ~(y < m)
  BY <1>2 DEF OpToRel
<1> QED BY <1>3

\* A run of queued deltas that continue an item exists, and is what _events
\* coalesces.
LEMMA FollowingIs ==
    ASSUME NEW q \in Seq(Items), NEW item \in Items
    PROVE  /\ Following(q, item) \in 0 .. Len(q)
           /\ \A i \in 1 .. Following(q, item) :
                q[i].kind = "delta" /\ q[i].seq = item.seq + i
<1> DEFINE P(i) == q[i].kind = "delta" /\ q[i].seq = item.seq + i
           Run(n) == (\A i \in 1 .. n : P(i)) /\ (n < Len(q) => ~P(n + 1))
<1>1. Len(q) \in Nat
  BY LenProperties
<1>2. \E n \in 0 .. Len(q) : Run(n)
  <2>1. CASE \A i \in 1 .. Len(q) : P(i)
    BY <2>1, <1>1
  <2>2. CASE ~ \A i \in 1 .. Len(q) : P(i)
    <3> DEFINE S == {i \in 1 .. Len(q) : ~P(i)}
    <3>1. PICK k \in S : \A i \in S : k <= i
      <4>1. S \in SUBSET Nat /\ S # {}
        BY <2>2, <1>1
      <4> HIDE DEF S
      <4> QED BY <4>1, Least
    <3> HIDE DEF P
    <3>2. \A i \in 1 .. k - 1 : P(i)
      BY <3>1, <1>1
    <3>3. ~P(k - 1 + 1) /\ k - 1 \in 0 .. Len(q)
      BY <3>1, <1>1
    <3> QED BY <3>2, <3>3
  <2> QED BY <2>1, <2>2
<1>3. Following(q, item) = CHOOSE n \in 0 .. Len(q) : Run(n)
  <2>1. \A n \in 0 .. Len(q) : item.seq + n + 1 = item.seq + (n + 1)
    BY <1>1 DEF Items
  <2> QED BY <2>1 DEF Following
<1> HIDE DEF Run
<1>4. Following(q, item) \in 0 .. Len(q) /\ Run(Following(q, item))
  BY <1>2, <1>3
<1> QED BY <1>4 DEF Run

\* The view after each op exists, and is the op applied to the one before.
LEMMA AfterUnfolds ==
    ASSUME NEW view, NEW deltas, Len(deltas) \in Nat
    PROVE  \A i \in 0 .. Len(deltas) :
             After(view, deltas)[i] =
               IF i = 0 THEN view ELSE Apply(After(view, deltas)[i - 1], deltas[i])
<1> DEFINE Step(f, n) == [i \in 0 .. n |-> IF i = 0 THEN view ELSE Apply(f[i - 1], deltas[i])]
           Has(n) == \E f : f = Step(f, n)
           S == {n \in 0 .. Len(deltas) : ~Has(n)}
<1>1. S = {}
  <2> SUFFICES ASSUME S # {} PROVE FALSE
    OBVIOUS
  <2>1. PICK m \in S : \A k \in S : m <= k
    <3>1. S \in SUBSET Nat
      OBVIOUS
    <3> HIDE DEF S
    <3> QED BY <3>1, Least
  <2>2. CASE m = 0
    <3> DEFINE f == [i \in 0 .. 0 |-> view]
    <3>1. f = Step(f, 0)
      OBVIOUS
    <3> QED BY <3>1, <2>1, <2>2
  <2>3. CASE m # 0
    <3>1. m - 1 \in 0 .. Len(deltas) /\ m \in 1 .. Len(deltas)
      BY <2>1, <2>3
    <3>2. PICK f : f = Step(f, m - 1)
      <4>1. m - 1 \notin S
        <5>1. m \in Nat /\ ~(m <= m - 1)
          BY <3>1
        <5> HIDE DEF S
        <5> QED BY <2>1, <5>1
      <4> QED BY <4>1, <3>1
    <3> DEFINE g == Step(f, m)
    <3>3. \A i \in 0 .. m - 1 : f[i] = g[i]
      BY <3>1, <3>2
    <3>4. \A i \in 0 .. m : i # 0 => f[i - 1] = g[i - 1]
      <4>1. \A i \in 0 .. m : i # 0 => i - 1 \in 0 .. m - 1
        BY <3>1
      <4> HIDE DEF g
      <4> QED BY <3>3, <4>1
    <3>5. g = Step(g, m)
      BY <3>4
    <3> QED BY <3>5, <2>1
  <2> QED BY <2>2, <2>3
<1>2. Has(Len(deltas))
  BY <1>1
<1>3. After(view, deltas) = CHOOSE f : f = Step(f, Len(deltas))
  BY DEF After
<1>4. After(view, deltas) = Step(After(view, deltas), Len(deltas))
  BY <1>2, <1>3
<1> QED BY <1>4

\* One op of applyDelta keeps the view a view, and sets its seq and its text.
LEMMA ApplyIs ==
    ASSUME NEW view \in Views, NEW d \in Items, view.status \notin Terminal
    PROVE  /\ Apply(view, d) \in Views /\ Apply(view, d).status \notin Terminal
           /\ Apply(view, d).seq = d.seq /\ Apply(view, d).draft
           /\ Apply(view, d).blocks =
                IF d.op \in TextOps THEN Append(view.blocks, d.seq) ELSE view.blocks
<1>1. d.seq \in Nat /\ d.op \in TextOps \cup {"none", "running", "stopping"}
  BY DEF Items
<1>2. view.blocks \in Texts /\ Append(view.blocks, d.seq) \in Texts
  BY <1>1 DEF Views, Texts
<1> QED BY <1>1, <1>2 DEF Apply, Views, TextOps, Active, Terminal

\* A view an event was applied to is a view of an active draft.
LEMMA AfterIsView ==
    ASSUME NEW view \in Views, view.status \notin Terminal, NEW deltas \in Seq(Items)
    PROVE  \A i \in 0 .. Len(deltas) :
             After(view, deltas)[i] \in Views /\ After(view, deltas)[i].status \notin Terminal
<1> DEFINE a == After(view, deltas)
           S == {i \in 0 .. Len(deltas) : ~(a[i] \in Views /\ a[i].status \notin Terminal)}
<1>1. Len(deltas) \in Nat
  BY LenProperties
<1>2. \A i \in 0 .. Len(deltas) : a[i] = IF i = 0 THEN view ELSE Apply(a[i - 1], deltas[i])
  BY <1>1, AfterUnfolds
<1> HIDE DEF a
<1> SUFFICES ASSUME S # {} PROVE FALSE
  BY DEF a
<1>3. PICK m \in S : \A k \in S : m <= k
  <2>1. S \in SUBSET Nat
    OBVIOUS
  <2> HIDE DEF S
  <2> QED BY <2>1, Least
<1>4. m # 0 /\ m \in 1 .. Len(deltas) /\ m - 1 \in 0 .. Len(deltas) /\ ~(m <= m - 1)
  BY <1>1, <1>2, <1>3
<1>5. a[m - 1] \in Views /\ a[m - 1].status \notin Terminal
  BY <1>3, <1>4
<1>6. deltas[m] \in Items
  BY <1>4, ElementOfSeq
<1>7. a[m] = Apply(a[m - 1], deltas[m])
  BY <1>2, <1>4
<1> QED BY <1>3, <1>5, <1>6, <1>7, ApplyIs

\* Ops in the order of their seq take a view from draft to draft.
LEMMA AfterIsDraft ==
    ASSUME NEW view \in Views, view.status \notin Terminal, view.blocks = DraftAt(view.seq),
           NEW deltas \in Seq(Items), ItemsOk(deltas),
           \A i \in 1 .. Len(deltas) : deltas[i].kind = "delta" /\ deltas[i].seq = view.seq + i
    PROVE  \A i \in 0 .. Len(deltas) :
             /\ After(view, deltas)[i].seq = view.seq + i
             /\ After(view, deltas)[i].blocks = DraftAt(view.seq + i)
             /\ i > 0 => After(view, deltas)[i].draft
<1> DEFINE a == After(view, deltas)
           P(i) == a[i].seq = view.seq + i /\ a[i].blocks = DraftAt(view.seq + i) /\ (i > 0 => a[i].draft)
           S == {i \in 0 .. Len(deltas) : ~P(i)}
<1>1. Len(deltas) \in Nat /\ view.seq \in Nat
  BY LenProperties DEF Views
<1>2. \A i \in 0 .. Len(deltas) : a[i] = IF i = 0 THEN view ELSE Apply(a[i - 1], deltas[i])
  BY <1>1, AfterUnfolds
<1>3. \A i \in 0 .. Len(deltas) : a[i] \in Views /\ a[i].status \notin Terminal
  BY AfterIsView
<1> HIDE DEF a
<1> SUFFICES ASSUME S # {} PROVE FALSE
  BY DEF a
<1>4. PICK m \in S : \A k \in S : m <= k
  <2>1. S \in SUBSET Nat
    OBVIOUS
  <2> HIDE DEF S
  <2> QED BY <2>1, Least
<1>5. m # 0
  BY <1>1, <1>2, <1>4
<1>6. m \in 1 .. Len(deltas) /\ m - 1 \in 0 .. Len(deltas) /\ ~(m <= m - 1)
  BY <1>1, <1>4, <1>5
<1>7. P(m - 1)
  BY <1>4, <1>6
<1>8. deltas[m] \in Items /\ ItemOk(deltas[m]) /\ deltas[m].kind = "delta" /\ deltas[m].seq = view.seq + m
  BY <1>6, ElementOfSeq DEF ItemsOk
<1>9. a[m] = Apply(a[m - 1], deltas[m])
  BY <1>2, <1>6
<1>10. /\ a[m].seq = deltas[m].seq /\ a[m].draft
       /\ a[m].blocks = IF deltas[m].op \in TextOps THEN Append(a[m - 1].blocks, deltas[m].seq)
                        ELSE a[m - 1].blocks
  <2>1. a[m - 1] \in Views /\ a[m - 1].status \notin Terminal
    BY <1>3, <1>6
  <2>2. \A v \in Views, d \in Items : v.status \notin Terminal =>
          /\ Apply(v, d).seq = d.seq /\ Apply(v, d).draft
          /\ Apply(v, d).blocks = IF d.op \in TextOps THEN Append(v.blocks, d.seq) ELSE v.blocks
    BY ApplyIs
  <2>3. deltas[m] \in Items
    BY <1>8
  <2> QED BY <1>9, <2>1, <2>2, <2>3
<1>11. view.seq + m # 0 /\ view.seq + m - 1 = view.seq + (m - 1)
  BY <1>1, <1>6
<1>12. a[m].blocks = DraftAt(view.seq + m)
  <2>1. drafts[view.seq + m] = IF deltas[m].op \in TextOps
                               THEN Append(DraftAt(view.seq + (m - 1)), view.seq + m)
                               ELSE DraftAt(view.seq + (m - 1))
    <3>1. deltas[m].seq - 1 = view.seq + (m - 1)
      BY <1>1, <1>6, <1>8
    <3>2. drafts[deltas[m].seq] = IF deltas[m].op \in TextOps
                                  THEN Append(DraftAt(deltas[m].seq - 1), deltas[m].seq)
                                  ELSE DraftAt(deltas[m].seq - 1)
      BY <1>8 DEF ItemOk
    <3> QED BY <1>8, <3>1, <3>2
  <2>2. DraftAt(view.seq + m) = drafts[view.seq + m]
    BY <1>11 DEF DraftAt
  <2> QED BY <1>7, <1>8, <1>10, <2>1, <2>2
<1> QED BY <1>4, <1>8, <1>10, <1>12

\* The ops of one delta event are those of consecutive seqs.
LEMMA DeltasAre ==
    ASSUME NEW q \in Seq(Items), ItemsOk(q), NEW item \in Items, item.kind = "delta", ItemOk(item)
    PROVE  LET n == Following(q, item)
               deltas == <<item>> \o SubSeq(q, 1, n)
           IN  /\ deltas \in Seq(Items) /\ Len(deltas) = n + 1 /\ ItemsOk(deltas)
               /\ \A i \in 1 .. n + 1 : deltas[i].kind = "delta" /\ deltas[i].seq = item.seq + i - 1
<1> DEFINE n == Following(q, item)
           sub == SubSeq(q, 1, n)
           deltas == <<item>> \o sub
<1>1. /\ n \in 0 .. Len(q) /\ Len(q) \in Nat /\ item.seq \in Nat
      /\ \A i \in 1 .. n : q[i].kind = "delta" /\ q[i].seq = item.seq + i
  BY FollowingIs, LenProperties DEF Items
<1> HIDE DEF n
<1>2. sub \in Seq(Items) /\ Len(sub) = n /\ \A i \in 1 .. n : sub[i] = q[i]
  <2>1. \A i \in 1 .. n : q[i] \in Items
    BY <1>1, ElementOfSeq
  <2>2. /\ sub \in Seq(Items) /\ Len(sub) = IF 1 <= n THEN n - 1 + 1 ELSE 0
        /\ \A i \in 1 .. n - 1 + 1 : sub[i] = q[1 + i - 1]
    BY <1>1, <2>1, SubSeqProperties
  <2> QED BY <1>1, <2>2
<1> HIDE DEF sub
<1>3. /\ deltas \in Seq(Items) /\ Len(deltas) = n + 1
      /\ deltas[1] = item /\ \A i \in 2 .. n + 1 : deltas[i] = sub[i - 1]
  <2>1. <<item>> \in Seq(Items) /\ Len(<<item>>) = 1 /\ <<item>>[1] = item
    OBVIOUS
  <2>2. /\ deltas \in Seq(Items) /\ Len(deltas) = 1 + n
        /\ \A i \in 1 .. 1 + n : deltas[i] = IF i <= 1 THEN item ELSE sub[i - 1]
    BY <1>2, <2>1, ConcatProperties
  <2> HIDE DEF deltas
  <2> QED BY SMTT(30), <1>1, <2>2
<1> HIDE DEF deltas
<1>4. \A i \in 2 .. n + 1 : i - 1 \in 1 .. n /\ deltas[i] = q[i - 1]
  BY <1>1, <1>2, <1>3
<1>5. \A i \in 1 .. n + 1 : i = 1 \/ i \in 2 .. n + 1
  BY <1>1
<1>6. ItemsOk(deltas)
  <2>1. \A i \in 1 .. n : ItemOk(q[i])
    BY <1>1 DEF ItemsOk
  <2> QED BY <1>3, <1>4, <1>5, <2>1 DEF ItemsOk
<1>7. \A i \in 1 .. n + 1 : deltas[i].kind = "delta" /\ deltas[i].seq = item.seq + i - 1
  <2> TAKE i \in 1 .. n + 1
  <2>1. CASE i = 1
    BY <1>1, <1>3, <2>1
  <2>2. CASE i \in 2 .. n + 1
    BY <1>1, <1>4, <2>2
  <2> QED BY <1>5, <2>1, <2>2
<1> QED BY <1>3, <1>6, <1>7 DEF n, sub, deltas

-----------------------------------------------------------------------------
(* A stream and its browser.                                               *)

\* The queue's markers are items.
LEMMA MarkersAreOk ==
    /\ Nothing \in Items /\ Close \in Items /\ Resync \in Items
    /\ ItemOk(Nothing) /\ ItemOk(Close) /\ ItemOk(Resync) /\ ItemsOk(<<>>)
    /\ Close # Nothing /\ Close # Resync /\ Close.kind # "delta"
BY DEF Nothing, Close, Resync, Items, ItemOk, ItemsOk

\* A stream may end at any time.
LEMMA OffOk ==
    ASSUME NEW rd, ViewerInv(rd)
    PROVE  ReaderInv(Off(rd))
<1>1. rd \in ReaderRows
  BY DEF ViewerInv
<1>2. Off(rd) \in ReaderRows
  <2>1. <<>> \in Seq(Items) /\ Nothing \in Items
    BY MarkersAreOk
  <2> QED BY <1>1, <2>1 DEF Off, ReaderRows
<1>3. /\ Off(rd).pc = "off" /\ Off(rd).queue = <<>> /\ Off(rd).pending = Nothing
      /\ Off(rd).item = Nothing /\ ~Off(rd).closed
      /\ Off(rd).mode = rd.mode /\ Off(rd).view = rd.view /\ Off(rd).sent = rd.sent
  BY <1>1 DEF Off, ReaderRows
<1>4. StreamInv(Off(rd))
  BY <1>3, MarkersAreOk DEF StreamInv
<1>5. ViewerInv(Off(rd))
  BY <1>2, <1>3 DEF ViewerInv, FinalOk
<1> QED BY <1>4, <1>5 DEF ReaderInv

\* The parts of a stream with an item in hand.
LEMMA InHandIs ==
    ASSUME NEW rd, InHand(rd)
    PROVE  /\ rd \in ReaderRows /\ rd.view \in Views /\ rd.queue \in Seq(Items)
           /\ rd.sent \in Nat /\ rd.view.status \notin Terminal
BY DEF InHand, ViewerInv, FinalOk, ReaderRows

\* What is counted as sent after sign-out stays within one event.
LEMMA SentIs ==
    ASSUME NEW rd, InHand(rd)
    PROVE  /\ Sent(rd) \in Nat
           /\ session # "closed" => Sent(rd) = 0
           /\ rd.closed => Sent(rd) <= 1
BY InHandIs DEF Sent, InHand, ViewerInv

\* A snapshot may be shown when it is the draft's or the row's.
LEMMA ShowOk ==
    ASSUME NEW rd, InHand(rd), NEW snap \in Views, Early => ViewOk(snap),
           snap.status \in Terminal => snap.status = row.status /\ snap.blocks = row.blocks
    PROVE  ReaderInv(Show(rd, snap))
<1> DEFINE shown == [rd EXCEPT !.view = snap, !.last = snap.seq, !.pc = "wait",
                               !.item = Nothing, !.sent = Sent(rd)]
<1>1. rd \in ReaderRows
  BY InHandIs
<1>2. shown \in ReaderRows
  BY <1>1, SentIs, MarkersAreOk DEF ReaderRows, Views
<1>3. /\ shown.pc = "wait" /\ shown.queue = rd.queue /\ shown.pending = Nothing
      /\ shown.item = Nothing /\ shown.closed = rd.closed
      /\ shown.mode = rd.mode /\ shown.view = snap /\ shown.sent = Sent(rd)
  BY <1>1 DEF ReaderRows, InHand
<1>4. Show(rd, snap) = IF snap.status \in Terminal THEN [Off(shown) EXCEPT !.mode = "done"] ELSE shown
  BY DEF Show
<1> HIDE DEF shown
<1>5. CASE snap.status \notin Terminal
  <2>1. ViewerInv(shown)
    BY <1>2, <1>3, <1>5, SentIs DEF ViewerInv, FinalOk
  <2>2. StreamInv(shown)
    BY <1>3, SentIs, MarkersAreOk DEF StreamInv, InHand
  <2> QED BY <1>4, <1>5, <2>1, <2>2 DEF ReaderInv
<1>6. CASE snap.status \in Terminal
  <2> DEFINE end == [Off(shown) EXCEPT !.mode = "done"]
  <2>1. end \in ReaderRows
    <3>1. <<>> \in Seq(Items) /\ Nothing \in Items
      BY MarkersAreOk
    <3> QED BY <1>2, <3>1 DEF Off, ReaderRows
  <2>2. /\ end.pc = "off" /\ end.queue = <<>> /\ end.pending = Nothing
        /\ end.item = Nothing /\ ~end.closed
        /\ end.mode = "done" /\ end.view = snap /\ end.sent = Sent(rd)
    BY <1>2, <1>3 DEF Off, ReaderRows
  <2> HIDE DEF end
  <2>3. ViewerInv(end)
    BY <1>6, <2>1, <2>2, SentIs DEF ViewerInv, FinalOk
  <2>4. StreamInv(end)
    BY <2>2, MarkersAreOk DEF StreamInv
  <2> QED BY <1>4, <1>6, <2>3, <2>4 DEF ReaderInv, end
<1> QED BY <1>5, <1>6

\* What a delta event leaves in the queue.
LEMMA RestIs ==
    ASSUME NEW q \in Seq(Items), ItemsOk(q), NEW n \in 0 .. Len(q)
    PROVE  /\ SubSeq(q, n + 2, Len(q)) \in Seq(Items) /\ ItemsOk(SubSeq(q, n + 2, Len(q)))
           /\ n < Len(q) => q[n + 1] \in Items /\ ItemOk(q[n + 1])
<1> DEFINE rest == SubSeq(q, n + 2, Len(q))
<1>1. Len(q) \in Nat
  BY LenProperties
<1>2. \A i \in 1 .. Len(q) : q[i] \in Items /\ ItemOk(q[i])
  BY ElementOfSeq DEF ItemsOk
<1>3. /\ rest \in Seq(Items)
      /\ Len(rest) = IF n + 2 <= Len(q) THEN Len(q) - (n + 2) + 1 ELSE 0
      /\ \A i \in 1 .. Len(q) - (n + 2) + 1 : rest[i] = q[n + 2 + i - 1]
  <2>1. n + 2 \in Int /\ Len(q) \in Int /\ \A i \in n + 2 .. Len(q) : i \in 1 .. Len(q)
    BY <1>1
  <2> QED BY <1>2, <2>1, SubSeqProperties
<1> HIDE DEF rest
<1>4. \A i \in 1 .. Len(rest) : /\ i \in 1 .. Len(q) - (n + 2) + 1
                               /\ n + 2 + i - 1 \in 1 .. Len(q)
  BY <1>1, <1>3
<1>5. ItemsOk(rest)
  BY <1>2, <1>3, <1>4 DEF ItemsOk
<1>6. n < Len(q) => n + 1 \in 1 .. Len(q)
  BY <1>1
<1> QED BY <1>2, <1>3, <1>5, <1>6 DEF rest

\* A delta event, applied or refused, keeps a reader's invariant.
LEMMA SendDeltaOk ==
    ASSUME WriterInv, NEW rd, InHand(rd),
           NEW item \in Items, item.kind = "delta", ItemOk(item)
    PROVE  ReaderInv(SendDelta(rd, item))
<1> DEFINE n == Following(rd.queue, item)
           deltas == <<item>> \o SubSeq(rd.queue, 1, n)
           view == After(rd.view, deltas)[n + 1]
           sent == [rd EXCEPT !.sent = Sent(rd)]
           pending == IF n < Len(rd.queue) THEN rd.queue[n + 1] ELSE Nothing
           rest == SubSeq(rd.queue, n + 2, Len(rd.queue))
           shown == [sent EXCEPT !.view = view, !.last = view.seq, !.pc = "wait", !.item = Nothing,
                        !.pending = pending, !.queue = rest]
<1>1. /\ rd \in ReaderRows /\ rd.view \in Views /\ rd.queue \in Seq(Items)
      /\ rd.view.status \notin Terminal /\ ItemsOk(rd.queue)
  BY InHandIs DEF InHand
<1>2. SendDelta(rd, item) = IF Refused(rd.view, deltas) THEN [Off(sent) EXCEPT !.mode = "poll"] ELSE shown
  BY DEF SendDelta
<1>3. sent \in ReaderRows /\ sent.view = rd.view /\ sent.sent = Sent(rd) /\ sent.closed = rd.closed
  BY <1>1, SentIs DEF ReaderRows
<1>4. CASE Refused(rd.view, deltas)
  <2> DEFINE end == [Off(sent) EXCEPT !.mode = "poll"]
  <2> HIDE DEF sent
  <2>1. end \in ReaderRows
    <3>1. <<>> \in Seq(Items) /\ Nothing \in Items
      BY MarkersAreOk
    <3> QED BY <1>3, <3>1 DEF Off, ReaderRows
  <2>2. /\ end.queue = <<>> /\ end.pending = Nothing /\ end.item = Nothing /\ ~end.closed
        /\ end.view = rd.view /\ end.sent = Sent(rd)
    BY <1>3 DEF Off, ReaderRows
  <2> HIDE DEF end
  <2>3. ViewerInv(end)
    BY <1>1, <2>1, <2>2, SentIs DEF ViewerInv, FinalOk, InHand
  <2>4. StreamInv(end)
    BY <2>2, MarkersAreOk DEF StreamInv
  <2>5. SendDelta(rd, item) = end
    BY <1>2, <1>4 DEF end
  <2> QED BY <2>3, <2>4, <2>5 DEF ReaderInv
<1>5. CASE ~Refused(rd.view, deltas)
  <2>1. /\ deltas \in Seq(Items) /\ Len(deltas) = n + 1 /\ ItemsOk(deltas)
        /\ \A i \in 1 .. n + 1 : deltas[i].kind = "delta" /\ deltas[i].seq = item.seq + i - 1
    BY <1>1, DeltasAre
  <2>2. /\ n \in 0 .. Len(rd.queue) /\ Len(rd.queue) \in Nat /\ item.seq \in Nat
        /\ \A i \in 1 .. n : rd.queue[i].kind = "delta"
        /\ rd.view.seq \in Nat
    BY ZenonT(40), <1>1, FollowingIs, LenProperties DEF Items, Views
  <2>3. /\ rest \in Seq(Items) /\ ItemsOk(rest) /\ pending \in Items /\ ItemOk(pending)
    BY <1>1, <2>2, RestIs, MarkersAreOk
  <2>4. deltas[1].seq = item.seq /\ item.seq = rd.view.seq + 1
    BY <1>5, <2>1, <2>2 DEF Refused
  <2>5. view \in Views /\ view.status \notin Terminal
    <3>1. n + 1 \in 0 .. Len(deltas)
      BY <2>1, <2>2
    <3> QED BY <1>1, <2>1, <3>1, AfterIsView
  <2>6. Early => ViewOk(view)
    <3> SUFFICES ASSUME Early PROVE ViewOk(view)
      OBVIOUS
    <3> HIDE DEF deltas, n, view, rest, pending, sent, shown
    <3>1. deltas[n + 1].seq \in 1 .. Len(drafts) /\ deltas[1].seq \in 1 .. Len(drafts)
      <4>1. 1 \in 1 .. Len(deltas) /\ n + 1 \in 1 .. Len(deltas)
        BY <2>1, <2>2
      <4>2. \A i \in 1 .. Len(deltas) : deltas[i].seq \in 1 .. Len(drafts)
        BY <2>1 DEF ItemsOk, ItemOk
      <4> QED BY <4>1, <4>2
    <3>2. Len(drafts) \in Nat
      BY LenProperties DEF WriterInv, DraftInv, RowInv
    <3>3. rd.view.blocks = DraftAt(rd.view.seq)
      <4>1. ViewOk(rd.view)
        BY DEF InHand, ViewerInv
      <4>2. drafts # <<>> => drafts[1] = <<>>
        BY DEF WriterInv, RowInv
      <4>3. drafts # <<>>
        BY <3>1, <3>2
      <4> QED BY <4>1, <4>2, <4>3 DEF ViewOk, DraftAt
    <3>4. \A i \in 1 .. Len(deltas) : deltas[i].kind = "delta" /\ deltas[i].seq = rd.view.seq + i
      <4> TAKE i \in 1 .. Len(deltas)
      <4>1. i \in 1 .. n + 1 /\ i \in Nat
        BY <2>1, <2>2
      <4>2. deltas[i].kind = "delta" /\ deltas[i].seq = item.seq + i - 1
        BY <2>1, <4>1
      <4>3. \A a, b \in Nat : a = b + 1 => a + i - 1 = b + i
        BY <4>1
      <4>4. item.seq + i - 1 = rd.view.seq + i
        <5>1. item.seq \in Nat /\ rd.view.seq \in Nat
          BY <2>2
        <5> QED BY <2>4, <4>3, <5>1
      <4> QED BY <4>2, <4>4
    <3>5. n + 1 \in 0 .. Len(deltas) /\ n + 1 > 0
      BY <2>1, <2>2
    <3>6. view.seq = rd.view.seq + (n + 1) /\ view.blocks = DraftAt(rd.view.seq + (n + 1)) /\ view.draft
      BY <1>1, <2>1, <3>3, <3>4, <3>5, AfterIsDraft DEF view
    <3>7. view.seq = deltas[n + 1].seq
      BY <2>1, <2>2, <3>4, <3>6
    <3>8. view.seq \in 0 .. Len(drafts)
      BY <3>1, <3>2, <3>7
    <3> QED BY <3>6, <3>8 DEF ViewOk
  <2>7. rd.closed => pending = Close
    <3> SUFFICES ASSUME rd.closed PROVE pending = Close
      OBVIOUS
    <3>1. rd.queue # <<>> /\ rd.queue[1] = Close
      BY DEF InHand
    <3>2. Len(rd.queue) > 0
      BY <1>1, <3>1, EmptySeq, <2>2
    <3>3. n = 0
      BY <2>2, <3>1, MarkersAreOk
    <3> HIDE DEF n
    <3> QED BY <3>1, <3>2, <3>3
  <2> HIDE DEF view, pending, rest, sent
  <2>8. shown \in ReaderRows
    BY <1>3, <2>3, <2>5, MarkersAreOk DEF ReaderRows, Views
  <2>9. /\ shown.view = view /\ shown.pc = "wait" /\ shown.item = Nothing
        /\ shown.pending = pending /\ shown.queue = rest
        /\ shown.closed = rd.closed /\ shown.sent = Sent(rd)
    BY <1>3 DEF ReaderRows
  <2> HIDE DEF shown
  <2>10. ViewerInv(shown)
    BY <2>5, <2>6, <2>8, <2>9, SentIs DEF ViewerInv, FinalOk
  <2>11. StreamInv(shown)
    BY <2>3, <2>7, <2>9, SentIs, MarkersAreOk DEF StreamInv, InHand
  <2>12. SendDelta(rd, item) = shown
    BY <1>2, <1>5
  <2> QED BY <2>10, <2>11, <2>12 DEF ReaderInv
<1> QED BY <1>4, <1>5

\* A stream may wait, check its session or read the row with an item in hand.
LEMMA MoveOk ==
    ASSUME NEW rd, InHand(rd), NEW pc \in {"select", "wait", "recheck", "reread"},
           NEW item \in Items, ItemOk(item)
    PROVE  ReaderInv([rd EXCEPT !.pc = pc, !.item = item])
<1> DEFINE moved == [rd EXCEPT !.pc = pc, !.item = item]
<1>1. rd \in ReaderRows
  BY InHandIs
<1>2. moved \in ReaderRows
  BY <1>1 DEF ReaderRows
<1>3. /\ moved.pc = pc /\ moved.item = item /\ moved.queue = rd.queue
      /\ moved.pending = Nothing /\ moved.closed = rd.closed
      /\ moved.mode = rd.mode /\ moved.view = rd.view /\ moved.sent = rd.sent
  BY <1>1 DEF ReaderRows, InHand
<1> HIDE DEF moved
<1>4. ViewerInv(moved)
  BY <1>2, <1>3, InHandIs DEF ViewerInv, FinalOk, InHand
<1>5. StreamInv(moved)
  BY <1>3, InHandIs, MarkersAreOk DEF StreamInv, InHand
<1> QED BY <1>4, <1>5 DEF ReaderInv, moved

\* get_snapshot from memory: an active draft as it is.
LEMMA DraftSnapshotOk ==
    ASSUME WriterInv, ServedFromMemory
    PROVE  /\ DraftSnapshot \in Views /\ DraftSnapshot.status \notin Terminal
           /\ Early => ViewOk(DraftSnapshot)
<1>1. /\ live.status \in Active /\ live.seq \in Nat /\ live.blocks \in Texts
      /\ Len(drafts) = live.seq /\ live.blocks = DraftAt(live.seq)
  BY DEF WriterInv, DraftInv, RowInv, ServedFromMemory, Active
<1> QED BY <1>1 DEF DraftSnapshot, Views, ViewOk, Active, Terminal

\* get_snapshot from the database: the row as it is.
LEMMA RowSnapshotOk ==
    ASSUME WriterInv, row.status # "deleted", NEW snap, snap = RowSnapshot
    PROVE  /\ snap \in Views /\ (Early => ViewOk(snap))
           /\ snap.status = row.status /\ snap.blocks = row.blocks
<1>1. snap \in Views
  BY DEF RowSnapshot, Views, WriterInv, RowInv
<1>2. Early => row.blocks = <<>> /\ row.rev \in {0, 1}
  BY DEF WriterInv, RowInv
<1> QED BY <1>1, <1>2 DEF RowSnapshot, ViewOk

\* Whatever the loop makes of an item keeps a reader's invariant.
LEMMA ServeOk ==
    ASSUME WriterInv, NEW rd, InHand(rd), NEW item \in Items, ItemOk(item)
    PROVE  ReaderInv(Serve(rd, item))
<1> DEFINE waiting == [rd EXCEPT !.pc = "wait", !.item = Nothing]
           reread == [rd EXCEPT !.pc = "reread", !.item = Nothing]
<1>1. ReaderInv(waiting) /\ ReaderInv(reread)
  BY MoveOk, MarkersAreOk
<1>2. item.kind = "delta" => ReaderInv(SendDelta(rd, item))
  BY SendDeltaOk
<1>3. ServedFromMemory => ReaderInv(Show(rd, DraftSnapshot))
  BY DraftSnapshotOk, ShowOk
<1> HIDE DEF waiting, reread
<1>4. \/ Serve(rd, item) = waiting
      \/ Serve(rd, item) = reread
      \/ item.kind = "delta" /\ Serve(rd, item) = SendDelta(rd, item)
      \/ ServedFromMemory /\ Serve(rd, item) = Show(rd, DraftSnapshot)
  BY DEF Serve, waiting, reread
<1> QED BY <1>1, <1>2, <1>3, <1>4

\* Outside of its wait a stream has nothing pending.
LEMMA StandingInHand ==
    ASSUME NEW rd, ReaderInv(rd), rd.pc \in {"open", "select", "recheck", "reread"}
    PROVE  InHand(rd)
<1>1. rd.pending = Nothing /\ ViewerInv(rd) /\ ItemsOk(rd.queue) /\ StreamInv(rd)
  BY DEF ReaderInv, StreamInv
<1> QED BY <1>1, MarkersAreOk DEF StreamInv, InHand

-----------------------------------------------------------------------------
(* The writer's steps, seen from the streams.                              *)

\* _offer keeps every item sound and a close at the head where it is.
LEMMA OfferOk ==
    ASSUME NEW q \in Seq(Items), ItemsOk(q)', NEW item \in Items, ItemOk(item)'
    PROVE  /\ Offer(q, item) \in Seq(Items) /\ ItemsOk(Offer(q, item))'
           /\ q # <<>> /\ q[1] = Close => Offer(q, item) # <<>> /\ Offer(q, item)[1] = Close
<1>1. Len(q) \in Nat /\ (q # <<>> => 1 \in 1 .. Len(q))
  BY EmptySeq, LenProperties
<1>2. CASE Len(q) < QueueSize
  <2> DEFINE longer == Append(q, item)
  <2>1. /\ longer \in Seq(Items) /\ longer # <<>> /\ Len(longer) = Len(q) + 1
        /\ \A i \in 1 .. Len(q) : longer[i] = q[i]
        /\ longer[Len(q) + 1] = item
    BY AppendProperties
  <2> HIDE DEF longer
  <2>2. \A i \in 1 .. Len(longer) : i \in 1 .. Len(q) \/ i = Len(q) + 1
    BY <1>1, <2>1
  <2>3. ItemsOk(longer)'
    BY <2>1, <2>2 DEF ItemsOk
  <2>4. Offer(q, item) = longer
    BY <1>2 DEF Offer, longer
  <2> QED BY <1>1, <2>1, <2>3, <2>4
<1>3. CASE ~(Len(q) < QueueSize)
  <2> DEFINE only == IF item = Close \/ InQueue(q, Close) THEN Close ELSE Resync
  <2>1. only \in Items /\ ItemOk(only)'
    BY DEF Nothing, Close, Resync, Items, ItemOk
  <2>2. q # <<>> /\ q[1] = Close => only = Close
    BY <1>1 DEF InQueue
  <2>3. Offer(q, item) = <<only>>
    BY <1>3 DEF Offer
  <2> HIDE DEF only
  <2>4. <<only>> \in Seq(Items) /\ Len(<<only>>) = 1 /\ <<only>>[1] = only /\ <<only>> # <<>>
    BY <2>1
  <2>5. ItemsOk(<<only>>)'
    BY <2>1, <2>4 DEF ItemsOk
  <2> QED BY <2>2, <2>3, <2>4, <2>5
<1> QED BY <1>2, <1>3

\* The history only grows: what was a draft at its seq stays one.
LEMMA HistoryKept ==
    ASSUME drafts \in Seq(Texts), WriterMoves
    PROVE  /\ \A d : ItemOk(d) /\ d \in Items => ItemOk(d)'
           /\ \A v : ViewOk(v) => ViewOk(v)'
<1>1. /\ Len(drafts) \in Nat /\ Len(drafts') \in Nat /\ Len(drafts) <= Len(drafts')
      /\ \A i \in 1 .. Len(drafts) : drafts'[i] = drafts[i]
  <2>1. CASE drafts' = drafts
    BY <2>1, LenProperties
  <2>2. ASSUME NEW draft \in Texts, drafts' = Append(drafts, draft)
        PROVE  <1>1!:
    BY <2>2, AppendProperties, LenProperties
  <2> QED BY <2>1, <2>2 DEF WriterMoves
<1>2. \A seq \in 0 .. Len(drafts) : DraftAt(seq)' = DraftAt(seq)
  BY <1>1 DEF DraftAt
<1>3. ASSUME NEW d \in Items, ItemOk(d) PROVE ItemOk(d)'
  <2> SUFFICES ASSUME d.kind = "delta" PROVE ItemOk(d)'
    BY DEF ItemOk
  <2>1. d.seq \in 1 .. Len(drafts) /\ d.op # "none"
    BY <1>3 DEF ItemOk
  <2>2. d.seq \in 1 .. Len(drafts') /\ d.seq - 1 \in 0 .. Len(drafts)
    BY <1>1, <2>1
  <2>3. drafts'[d.seq] = drafts[d.seq] /\ DraftAt(d.seq - 1)' = DraftAt(d.seq - 1)
    BY <1>1, <1>2, <2>1, <2>2
  <2> QED BY <1>3, <2>1, <2>2, <2>3 DEF ItemOk
<1>4. ASSUME NEW v, ViewOk(v) PROVE ViewOk(v)'
  <2>1. CASE v.draft
    <3>1. v.seq \in 0 .. Len(drafts) /\ v.blocks = DraftAt(v.seq)
      BY <1>4, <2>1 DEF ViewOk
    <3>2. v.seq \in 0 .. Len(drafts') /\ v.blocks = DraftAt(v.seq)'
      BY <1>1, <1>2, <3>1
    <3> QED BY <2>1, <3>2 DEF ViewOk
  <2>2. CASE ~v.draft
    BY <1>4, <2>2 DEF ViewOk
  <2> QED BY <2>1, <2>2
<1> QED BY <1>3, <1>4

\* What a browser shows stays right while the writer moves.
LEMMA ViewerKept ==
    ASSUME drafts \in Seq(Texts), WriterMoves, NEW rd, ViewerInv(rd)
    PROVE  ViewerInv(rd)'
<1>1. Early' => ViewOk(rd.view)'
  BY HistoryKept DEF WriterMoves, ViewerInv
<1>2. FinalOk(rd)'
  BY DEF FinalOk, ViewerInv, WriterMoves, Active, Terminal
<1>3. session' # "closed" => rd.sent = 0
  BY DEF WriterMoves, ViewerInv
<1> QED BY <1>1, <1>2, <1>3 DEF ViewerInv

\* So does a stream nothing is published to.
LEMMA ReaderKept ==
    ASSUME drafts \in Seq(Texts), WriterMoves, NEW rd, ReaderInv(rd)
    PROVE  ReaderInv(rd)'
<1>1. rd.queue \in Seq(Items) /\ rd.pending \in Items /\ rd.item \in Items
  BY DEF ReaderInv, ViewerInv, ReaderRows
<1>2. ItemsOk(rd.queue)' /\ ItemOk(rd.pending)' /\ ItemOk(rd.item)'
  <2>1. \A i \in 1 .. Len(rd.queue) : rd.queue[i] \in Items
    BY <1>1, ElementOfSeq
  <2>2. ItemsOk(rd.queue) /\ ItemOk(rd.pending) /\ ItemOk(rd.item)
    BY DEF ReaderInv, StreamInv
  <2> QED BY <1>1, <2>1, <2>2, HistoryKept DEF ItemsOk
<1>3. StreamInv(rd)'
  BY <1>2 DEF ReaderInv, StreamInv, WriterMoves
<1> QED BY <1>3, ViewerKept DEF ReaderInv

\* And a stream an item is published to.
LEMMA OfferedKept ==
    ASSUME drafts \in Seq(Texts), WriterMoves, NEW rd, ReaderInv(rd),
           NEW item \in Items, ItemOk(item)'
    PROVE  /\ [rd EXCEPT !.queue = Offer(rd.queue, item)] \in ReaderRows
           /\ rd.pc # "off" => ReaderInv([rd EXCEPT !.queue = Offer(rd.queue, item)])'
<1> DEFINE offered == [rd EXCEPT !.queue = Offer(rd.queue, item)]
<1>1. ViewerInv(rd)' /\ StreamInv(rd)' /\ rd \in ReaderRows /\ rd.queue \in Seq(Items)
  BY ReaderKept DEF ReaderInv, ViewerInv, ReaderRows
<1>2. ItemsOk(rd.queue)'
  BY <1>1 DEF StreamInv
<1>3. /\ Offer(rd.queue, item) \in Seq(Items) /\ ItemsOk(Offer(rd.queue, item))'
      /\ rd.queue # <<>> /\ rd.queue[1] = Close =>
           Offer(rd.queue, item) # <<>> /\ Offer(rd.queue, item)[1] = Close
  BY <1>1, <1>2, OfferOk
<1> DEFINE queue == Offer(rd.queue, item)
<1> HIDE DEF queue
<1>4. offered \in ReaderRows /\ offered.queue = queue /\ offered.pc = rd.pc
      /\ offered.pending = rd.pending /\ offered.item = rd.item /\ offered.closed = rd.closed
      /\ offered.sent = rd.sent /\ offered.view = rd.view /\ offered.mode = rd.mode
  BY <1>1, <1>3 DEF ReaderRows, queue
<1> HIDE DEF offered
<1>5. ViewerInv(offered)'
  BY <1>1, <1>4 DEF ViewerInv, FinalOk
<1>6. StreamInv(offered)'
  BY <1>1, <1>3, <1>4 DEF StreamInv, queue
<1> QED BY <1>4, <1>5, <1>6 DEF ReaderInv, offered

\* Publishing keeps every reader's invariant.
LEMMA PublishKept ==
    ASSUME drafts \in Seq(Texts), WriterMoves, ReadersInv,
           NEW item \in Items, ItemOk(item)', reader' = Publish(item)
    PROVE  ReadersInv'
<1>1. ASSUME NEW r \in Readers
      PROVE  (reader[r] \in ReaderRows /\ ReaderInv(reader[r]))'
  <2>1. PICK rd : rd = reader[r]
    OBVIOUS
  <2>2. rd \in ReaderRows /\ ReaderInv(rd)
    BY <2>1 DEF ReadersInv
  <2>3. ReaderInv(rd)'
    BY <2>2, ReaderKept
  <2>4. CASE Subscribed(r)
    <3>1. PICK offered : offered = [rd EXCEPT !.queue = Offer(rd.queue, item)]
      OBVIOUS
    <3>2. rd.pc # "off"
      BY <2>1, <2>4 DEF Subscribed
    <3>3. offered \in ReaderRows /\ ReaderInv(offered)'
      BY <2>2, <3>1, <3>2, OfferedKept
    <3>4. reader'[r] = offered
      BY <2>1, <2>2, <2>4, <3>1 DEF Publish, ReaderRows
    <3> QED BY <3>3, <3>4
  <2>5. CASE ~Subscribed(r)
    <3>1. reader'[r] = rd
      BY <2>1, <2>5 DEF Publish
    <3> QED BY <2>2, <2>3, <3>1
  <2> QED BY <2>4, <2>5
<1>2. reader' = [r \in Readers |-> reader'[r]]
  BY DEF Publish
<1> QED BY <1>1, <1>2 DEF ReadersInv

\* So does a step of the writer that publishes nothing.
LEMMA NoReaderStep ==
    ASSUME drafts \in Seq(Texts), WriterMoves, ReadersInv, reader' = reader
    PROVE  ReadersInv'
<1>1. ASSUME NEW r \in Readers PROVE ReaderInv(reader[r])'
  <2>1. PICK rd : rd = reader[r]
    OBVIOUS
  <2>2. ReaderInv(rd)'
    BY <2>1, ReaderKept DEF ReadersInv
  <2> QED BY <2>1, <2>2
<1> QED BY <1>1 DEF ReadersInv

-----------------------------------------------------------------------------
(* The draft and its history.                                              *)

\* An update of the draft is the next entry of its history.
LEMMA DraftGrows ==
    ASSUME DraftInv, live.status # "none", NEW s \in Active, NEW blocks \in Texts,
           live' = [live EXCEPT !.status = s, !.seq = @ + 1, !.blocks = blocks],
           drafts' = Append(drafts, blocks)
    PROVE  /\ DraftInv' /\ live'.status = s /\ drafts' # <<>>
           /\ drafts = <<>> => drafts'[1] = blocks
           /\ drafts # <<>> => drafts'[1] = drafts[1]
<1>1. /\ drafts \in Seq(Texts) /\ Len(drafts) \in Nat /\ Len(drafts) = live.seq
      /\ live \in [status : Active \cup Terminal \cup {"none"}, seq : Nat, blocks : Texts]
  BY LenProperties DEF DraftInv
<1>2. /\ drafts' \in Seq(Texts) /\ drafts' # <<>> /\ Len(drafts') = Len(drafts) + 1
      /\ \A i \in 1 .. Len(drafts) : drafts'[i] = drafts[i]
      /\ drafts'[Len(drafts) + 1] = blocks
  BY <1>1, AppendProperties
<1>3. /\ live'.status = s /\ live'.seq = live.seq + 1 /\ live'.blocks = blocks
      /\ live' \in [status : Active \cup Terminal \cup {"none"}, seq : Nat, blocks : Texts]
  <2>1. live.seq + 1 \in Nat /\ s \in Active \cup Terminal \cup {"none"}
    BY <1>1
  <2> QED BY <1>1, <2>1
<1>4. live'.seq # 0
  BY <1>1, <1>3
<1>5. live'.blocks = DraftAt(live.seq)'
  BY <1>1, <1>2, <1>3, <1>4 DEF DraftAt
<1>6. DraftInv'
  BY <1>1, <1>2, <1>3, <1>5 DEF DraftInv
<1>7. drafts = <<>> => Len(drafts) = 0
  BY EmptySeq
<1>8. drafts # <<>> => 1 \in 1 .. Len(drafts)
  BY <1>1, EmptySeq
<1> QED BY <1>1, <1>2, <1>3, <1>6, <1>7, <1>8

\* The delta published for an update leads from the last draft to it.
LEMMA NewDelta ==
    ASSUME DraftInv, live.status # "none", NEW op \in TextOps \cup {"running", "stopping"},
           NEW blocks \in Texts, drafts' = Append(drafts, blocks),
           blocks = IF op \in TextOps THEN Append(live.blocks, live.seq + 1) ELSE live.blocks,
           NEW item, item = Delta(live.seq + 1, op)
    PROVE  item \in Items /\ ItemOk(item)'
<1>1. PICK n : n = live.seq
  OBVIOUS
<1>2. /\ n \in Nat /\ n = Len(drafts) /\ live.blocks = DraftAt(n) /\ drafts \in Seq(Texts)
      /\ live.blocks \in Texts
  BY <1>1 DEF DraftInv
<1>3. /\ Len(drafts') = n + 1 /\ drafts'[n + 1] = blocks
      /\ \A i \in 1 .. n : drafts'[i] = drafts[i]
  BY <1>2, AppendProperties
<1>4. item.kind = "delta" /\ item.seq = n + 1 /\ item.op = op /\ item.seq - 1 = n
  BY <1>1, <1>2 DEF Delta
<1>5. item \in Items
  BY <1>1, <1>2 DEF Delta, Items
<1>6. live.blocks = DraftAt(n)'
  BY <1>2, <1>3 DEF DraftAt
<1>7. n + 1 \in 1 .. Len(drafts') /\ op # "none"
  BY <1>2, <1>3 DEF TextOps
<1>8. drafts'[item.seq] = IF item.op \in TextOps THEN Append(DraftAt(item.seq - 1)', item.seq)
                          ELSE DraftAt(item.seq - 1)'
  BY <1>1, <1>3, <1>4, <1>6
<1>9. ItemOk(item)'
  BY <1>4, <1>7, <1>8 DEF ItemOk
<1> QED BY <1>5, <1>9

\* A status update grows the draft by no text, or only announces its end.
LEMMA SetLiveStatusOk ==
    ASSUME DraftInv, NEW s \in {"running", "stopping"} \cup Terminal, SetLiveStatus(s)
    PROVE  /\ DraftInv' /\ (live.status = "none" <=> live'.status = "none")
           /\ drafts' = drafts \/ \E draft \in Texts : drafts' = Append(drafts, draft)
           /\ live.status = "none" => live' = live /\ drafts' = drafts
           /\ drafts # <<>> /\ drafts' # drafts => drafts'[1] = drafts[1]
           /\ drafts = <<>> /\ drafts' # drafts => drafts'[1] = <<>>
           /\ \E item \in Items : ItemOk(item)' /\ reader' = Publish(item)
<1>1. /\ live \in [status : Active \cup Terminal \cup {"none"}, seq : Nat, blocks : Texts]
      /\ drafts \in Seq(Texts)
  BY DEF DraftInv
<1>2. Resync \in Items /\ ItemOk(Resync)'
  BY DEF Resync, Items, ItemOk
<1>3. CASE live.status \in Terminal \cup {"none"}
  <2>1. live' = live /\ drafts' = drafts /\ reader' = Publish(Resync)
    BY <1>3 DEF SetLiveStatus
  <2>2. DraftInv'
    BY <2>1 DEF DraftInv, DraftAt
  <2> QED BY <1>2, <2>1, <2>2
<1>4. CASE live.status \notin Terminal \cup {"none"} /\ s \in Terminal
  <2>1. live' = [live EXCEPT !.status = s] /\ drafts' = drafts /\ reader' = Publish(Resync)
    BY <1>4 DEF SetLiveStatus
  <2>2. DraftInv'
    BY <1>1, <1>4, <2>1 DEF DraftInv, DraftAt, Terminal
  <2>3. live'.status = s /\ s # "none"
    BY <1>1, <1>4, <2>1 DEF Terminal
  <2> QED BY <1>2, <1>4, <2>1, <2>2, <2>3
<1>5. CASE live.status \notin Terminal \cup {"none"} /\ s \notin Terminal
  <2>1. /\ live' = [live EXCEPT !.status = s, !.seq = @ + 1]
        /\ drafts' = Append(drafts, live.blocks) /\ reader' = Publish(Delta(live.seq + 1, s))
    BY <1>5 DEF SetLiveStatus
  <2>2. live' = [live EXCEPT !.status = s, !.seq = @ + 1, !.blocks = live.blocks]
    BY <1>1, <2>1
  <2>3. s \in Active /\ live.blocks \in Texts /\ s \in {"running", "stopping"} /\ s \notin TextOps
    BY <1>1, <1>5 DEF Active, TextOps
  <2>4. /\ DraftInv' /\ live'.status = s /\ drafts' # <<>>
        /\ drafts = <<>> => drafts'[1] = live.blocks
        /\ drafts # <<>> => drafts'[1] = drafts[1]
    BY <1>5, <2>1, <2>2, <2>3, DraftGrows
  <2>5. live.seq = Len(drafts) /\ live.seq \in Nat /\ live.blocks = DraftAt(live.seq)
    BY <1>1, <1>5 DEF DraftInv
  <2>6. drafts = <<>> => live.blocks = <<>>
    BY <2>5, EmptySeq DEF DraftAt
  <2>7. PICK item : item = Delta(live.seq + 1, s)
    OBVIOUS
  <2>8. item \in Items /\ ItemOk(item)'
    BY <1>5, <2>1, <2>3, <2>7, NewDelta DEF TextOps
  <2>9. live.status # "none" /\ live'.status # "none"
    BY <1>5, <2>3, <2>4
  <2> QED BY <2>1, <2>3, <2>4, <2>6, <2>7, <2>8, <2>9
<1> QED BY <1>3, <1>4, <1>5

\* The readers' part of a step that publishes.
LEMMA Published ==
    ASSUME IInv, WriterMoves, NEW item \in Items, ItemOk(item)', reader' = Publish(item)
    PROVE  ReadersInv'
<1>1. drafts \in Seq(Texts)
  BY DEF IInv, WriterInv, DraftInv
<1> QED BY <1>1, PublishKept DEF IInv

\* A resync is an item in every state.
LEMMA ResyncOk == Resync \in Items /\ ItemOk(Resync)'
BY DEF Resync, Items, ItemOk

\* Steps on the row, and the task's start: nothing is published.
LEMMA RowStepOk ==
    ASSUME IInv,
           \/ Schedule \/ TaskSetRunning \/ TaskFinishRow \/ StopRow \/ RowRemoved
    PROVE  WriterInv' /\ ReadersInv'
<1>1. /\ WriterInv' /\ WriterMoves /\ reader' = reader /\ drafts \in Seq(Texts)
  <2>1. CASE Schedule
    <3>1. DraftInv' /\ live'.status = "queued"
      BY <2>1, EmptySeq DEF IInv, WriterInv, DraftInv, Schedule, DraftAt, Active
    <3> QED BY <2>1, <3>1 DEF IInv, WriterInv, RowInv, Early, Schedule, WriterMoves, DraftInv
  <2>2. CASE TaskSetRunning
    <3>1. row' = row \/ (row.status = "queued" /\ row' = [status |-> "running", rev |-> row.rev + 1, blocks |-> <<>>])
      BY <2>2 DEF TaskSetRunning, SetRow
    <3>2. DraftInv' /\ <<>> \in Texts
      BY <2>2 DEF IInv, WriterInv, DraftInv, DraftAt, TaskSetRunning, Texts
    <3>3. RowInv'
      BY <2>2, <3>1, <3>2 DEF IInv, WriterInv, RowInv, Early, TaskSetRunning, Active
    <3> QED BY <2>2, <3>1, <3>2, <3>3 DEF IInv, WriterInv, RowInv, Early, TaskSetRunning, WriterMoves, Active, DraftInv
  <2>3. CASE TaskFinishRow
    <3>1. live.blocks \in Texts /\ <<>> \in Texts /\ row.rev \in Nat /\ row.blocks \in Texts
      BY DEF IInv, WriterInv, DraftInv, RowInv, Texts
    <3>2. /\ row' = row \/ (row.status \in Active /\ row'.status \in Terminal)
          /\ row' \in [status : Active \cup Terminal \cup {"deleted"}, rev : Nat, blocks : Texts]
          /\ ~Early'
      <4>1. row \in [status : Active \cup Terminal \cup {"deleted"}, rev : Nat, blocks : Texts]
        BY DEF IInv, WriterInv, RowInv
      <4> QED BY <2>3, <3>1, <4>1 DEF TaskFinishRow, SetRow, Early, Active, Terminal
    <3>3. task \notin {"unborn", "done"} /\ task' \notin {"unborn", "done"}
      BY <2>3 DEF TaskFinishRow
    <3>4. DraftInv' /\ UNCHANGED <<live, drafts, session, reader>>
      BY <2>3 DEF IInv, WriterInv, DraftInv, DraftAt, TaskFinishRow
    <3>5. RowInv'
      BY <3>2 DEF RowInv
    <3> QED BY <3>2, <3>3, <3>4, <3>5 DEF IInv, WriterInv, WriterMoves, DraftInv
  <2>4. CASE StopRow
    <3>1. /\ row' = row \/ (row.status \in Active /\ row'.status = "stopping")
          /\ row' \in [status : Active \cup Terminal \cup {"deleted"}, rev : Nat, blocks : Texts]
          /\ ~Early'
      BY <2>4 DEF IInv, WriterInv, RowInv, StopRow, SetRow, Early, Active
    <3>2. DraftInv' /\ UNCHANGED <<live, drafts, task, session, reader>>
      BY <2>4 DEF IInv, WriterInv, DraftInv, DraftAt, StopRow
    <3>3. RowInv'
      BY <3>1 DEF RowInv
    <3> QED BY <3>1, <3>2, <3>3 DEF IInv, WriterInv, WriterMoves, DraftInv
  <2>5. CASE RowRemoved
    <3>1. /\ row'.status = "deleted" /\ ~Early'
          /\ row' \in [status : Active \cup Terminal \cup {"deleted"}, rev : Nat, blocks : Texts]
      <4>1. row \in [status : Active \cup Terminal \cup {"deleted"}, rev : Nat, blocks : Texts]
        BY DEF IInv, WriterInv, RowInv
      <4>2. row' = [row EXCEPT !.status = "deleted", !.blocks = <<>>] /\ <<>> \in Texts
        BY <2>5 DEF RowRemoved, Texts
      <4> QED BY <4>1, <4>2 DEF Early
    <3>2. DraftInv' /\ UNCHANGED <<live, drafts, task, session, reader>>
      BY <2>5 DEF IInv, WriterInv, DraftInv, DraftAt, RowRemoved
    <3>3. RowInv'
      BY <3>1 DEF RowInv
    <3> QED BY <3>1, <3>2, <3>3 DEF IInv, WriterInv, WriterMoves, DraftInv
  <2> QED BY <2>1, <2>2, <2>3, <2>4, <2>5
<1> QED BY <1>1, NoReaderStep DEF IInv

\* Steps on the draft in memory, each published to the streams.
LEMMA DraftStepOk ==
    ASSUME IInv,
           \/ TaskAnnounce
           \/ \E op \in TextOps : TaskEmit(op)
           \/ TaskReset
           \/ TaskMarkFinished
           \/ Forget /\ task # "unborn"
           \/ StopSignal
           \/ StopFinish
    PROVE  WriterInv' /\ ReadersInv'
<1>1. /\ WriterInv' /\ WriterMoves
      /\ \E item \in Items : ItemOk(item)' /\ reader' = Publish(item)
  <2>1. CASE TaskAnnounce
    <3>1. SetLiveStatus("running") /\ task' = "stream" /\ UNCHANGED <<row, stop, session>>
      BY <2>1 DEF TaskAnnounce
    <3>2. task = "announce"
      BY <2>1 DEF TaskAnnounce
    <3>3. /\ DraftInv' /\ (live.status = "none" <=> live'.status = "none")
          /\ drafts' = drafts \/ \E draft \in Texts : drafts' = Append(drafts, draft)
          /\ drafts = <<>> /\ drafts' # drafts => drafts'[1] = <<>>
          /\ \E item \in Items : ItemOk(item)' /\ reader' = Publish(item)
      BY <3>1, SetLiveStatusOk DEF IInv, WriterInv
    <3>4. RowInv'
      BY <3>1, <3>2, <3>3 DEF IInv, WriterInv, RowInv, Early
    <3> QED BY <3>1, <3>2, <3>3, <3>4 DEF IInv, WriterInv, WriterMoves, Early
  <2>2. ASSUME NEW op \in TextOps, TaskEmit(op) PROVE <1>1!:
    <3> DEFINE blocks == Append(live.blocks, live.seq + 1)
    <3>1. /\ live.status = "running" /\ task = "stream" /\ drafts # <<>> /\ DraftInv
          /\ live \in [status : Active \cup Terminal \cup {"none"}, seq : Nat, blocks : Texts]
      BY <2>2 DEF TaskEmit, IInv, WriterInv, DraftInv
    <3>2. blocks \in Texts
      BY <3>1 DEF Texts
    <3>3. /\ live' = [live EXCEPT !.status = "running", !.seq = @ + 1, !.blocks = blocks]
          /\ drafts' = Append(drafts, blocks)
          /\ reader' = Publish(Delta(live.seq + 1, op)) /\ UNCHANGED <<row, task, stop, session>>
      BY <2>2, <3>1 DEF TaskEmit
    <3> HIDE DEF blocks
    <3>4. DraftInv' /\ live'.status = "running" /\ drafts'[1] = drafts[1] /\ drafts' # <<>>
      BY <3>1, <3>2, <3>3, DraftGrows DEF Active
    <3>5. PICK item : item = Delta(live.seq + 1, op)
      OBVIOUS
    <3>6. item \in Items /\ ItemOk(item)'
      BY <3>1, <3>2, <3>3, <3>5, NewDelta DEF blocks
    <3>7. RowInv'
      BY <3>1, <3>3, <3>4 DEF IInv, WriterInv, RowInv, Early
    <3> QED BY <3>1, <3>2, <3>3, <3>4, <3>5, <3>6, <3>7 DEF IInv, WriterInv, WriterMoves, Early
  <2>3. CASE TaskReset
    <3>1. /\ live.status = "running" /\ task = "stream" /\ drafts # <<>> /\ DraftInv
          /\ live \in [status : Active \cup Terminal \cup {"none"}, seq : Nat, blocks : Texts]
      BY <2>3 DEF TaskReset, IInv, WriterInv, DraftInv
    <3>2. <<>> \in Texts
      BY DEF Texts
    <3>3. /\ live' = [live EXCEPT !.status = "running", !.seq = @ + 1, !.blocks = <<>>]
          /\ drafts' = Append(drafts, <<>>)
          /\ reader' = Publish(Resync) /\ UNCHANGED <<row, task, stop, session>>
      BY <2>3, <3>1 DEF TaskReset
    <3>4. DraftInv' /\ live'.status = "running" /\ drafts'[1] = drafts[1] /\ drafts' # <<>>
      BY <3>1, <3>2, <3>3, DraftGrows DEF Active
    <3>5. RowInv'
      BY <3>1, <3>3, <3>4 DEF IInv, WriterInv, RowInv, Early
    <3> QED BY <3>1, <3>2, <3>3, <3>4, <3>5, ResyncOk DEF IInv, WriterInv, WriterMoves, Early
  <2>4. CASE TaskMarkFinished
    <3>1. /\ task \in {"markCompleted", "markFailed", "markStopped"} /\ task' = "ending"
          /\ Marked[task] \in Terminal /\ SetLiveStatus(Marked[task])
          /\ UNCHANGED <<row, stop, session>>
      BY <2>4 DEF TaskMarkFinished, Marked, Terminal
    <3>2. PICK s \in Terminal : SetLiveStatus(s)
      BY <3>1
    <3>3. /\ DraftInv' /\ (live.status = "none" <=> live'.status = "none")
          /\ drafts' = drafts \/ \E draft \in Texts : drafts' = Append(drafts, draft)
          /\ drafts # <<>> /\ drafts' # drafts => drafts'[1] = drafts[1]
          /\ drafts = <<>> /\ drafts' # drafts => drafts'[1] = <<>>
          /\ \E item \in Items : ItemOk(item)' /\ reader' = Publish(item)
      BY <3>2, SetLiveStatusOk DEF IInv, WriterInv
    <3>4. RowInv'
      BY <3>1, <3>3 DEF IInv, WriterInv, RowInv, Early
    <3> QED BY <3>1, <3>3, <3>4 DEF IInv, WriterInv, WriterMoves, Early
  <2>5. CASE Forget /\ task # "unborn"
    <3>1. /\ task' = "done" /\ live' = [status |-> "none", seq |-> 0, blocks |-> <<>>]
          /\ reader' = Publish(Resync) /\ UNCHANGED <<row, drafts, stop, session>>
      BY <2>5 DEF Forget
    <3>2. DraftInv'
      BY <3>1 DEF IInv, WriterInv, DraftInv, Texts
    <3>3. RowInv'
      BY <3>1 DEF IInv, WriterInv, RowInv, Early
    <3> QED BY <3>1, <3>2, <3>3, ResyncOk DEF IInv, WriterInv, WriterMoves, Early
  <2>6. CASE StopSignal
    <3>1. SetLiveStatus("stopping") /\ UNCHANGED <<row, task, session>> /\ ~Early
      BY <2>6 DEF StopSignal, IInv, WriterInv, RowInv
    <3>2. /\ DraftInv' /\ (live.status = "none" <=> live'.status = "none")
          /\ drafts' = drafts \/ \E draft \in Texts : drafts' = Append(drafts, draft)
          /\ live.status = "none" => live' = live /\ drafts' = drafts
          /\ \E item \in Items : ItemOk(item)' /\ reader' = Publish(item)
      BY <3>1, SetLiveStatusOk DEF IInv, WriterInv
    <3>3. RowInv'
      BY <3>1 DEF IInv, WriterInv, RowInv, Early
    <3> QED BY <3>1, <3>2, <3>3 DEF IInv, WriterInv, WriterMoves, Early
  <2>7. CASE StopFinish
    <3>1. /\ reader' = Publish(Resync) /\ UNCHANGED <<live, drafts, task, session>> /\ ~Early
          /\ row' = row \/ (row.status \in Active /\ row' = [status |-> "stopped", rev |-> row.rev + 1, blocks |-> <<>>])
      BY <2>7 DEF StopFinish, SetRow, IInv, WriterInv, RowInv
    <3>2. DraftInv'
      BY <3>1 DEF IInv, WriterInv, DraftInv, DraftAt
    <3>3. RowInv' /\ ~Early'
      <4>1. row \in [status : Active \cup Terminal \cup {"deleted"}, rev : Nat, blocks : Texts]
        BY DEF IInv, WriterInv, RowInv
      <4>2. row.rev + 1 \in Nat /\ <<>> \in Texts /\ "stopped" \in Terminal
        BY <4>1 DEF Texts, Terminal
      <4>3. row' \in [status : Active \cup Terminal \cup {"deleted"}, rev : Nat, blocks : Texts]
        BY <3>1, <4>1, <4>2
      <4>4. ~Early'
        BY <3>1 DEF Early
      <4> QED BY <4>3, <4>4 DEF RowInv
    <3> QED BY <3>1, <3>2, <3>3, ResyncOk DEF IInv, WriterInv, WriterMoves, Early
  <2> QED BY <2>1, <2>2, <2>3, <2>4, <2>5, <2>6, <2>7
<1> QED BY <1>1, Published

-----------------------------------------------------------------------------
(* The readers' steps.                                                     *)

\* One reader's step leaves the writer and the other readers alone.
LEMMA ReaderMoves ==
    ASSUME IInv, NEW r \in Readers, NEW rd, ReaderInv(rd),
           reader' = [reader EXCEPT ![r] = rd],
           UNCHANGED <<row, live, drafts, task, stop, session>>
    PROVE  IInv'
<1>1. WriterInv'
  BY DEF IInv, WriterInv, DraftInv, RowInv, DraftAt, Early
<1>2. drafts \in Seq(Texts) /\ WriterMoves
  BY DEF IInv, WriterInv, DraftInv, WriterMoves, Early
<1>3. ASSUME NEW q \in Readers
      PROVE  (reader[q] \in ReaderRows /\ ReaderInv(reader[q]))'
  <2>1. PICK x : x = reader'[q]
    OBVIOUS
  <2>2. x = rd \/ x = reader[q]
    BY <2>1 DEF IInv, ReadersInv
  <2>3. ReaderInv(x)
    BY <2>2 DEF IInv, ReadersInv
  <2>4. ReaderInv(x)' /\ x \in ReaderRows
    BY <1>2, <2>3, ReaderKept DEF ReaderInv, ViewerInv
  <2> QED BY <2>1, <2>4
<1>4. reader' = [q \in Readers |-> reader'[q]]
  BY DEF IInv, ReadersInv
<1>5. ReadersInv'
  BY <1>3, <1>4 DEF ReadersInv
<1> QED BY <1>1, <1>5 DEF IInv

\* Taking an item: the pending one, or the head of the queue.
LEMMA TakeOk ==
    ASSUME WriterInv, NEW rd, ReaderInv(rd), rd.pc = "wait", NEW item, NEW rest,
           item = IF rd.pending # Nothing THEN rd.pending
                  ELSE IF rd.queue # <<>> THEN Head(rd.queue) ELSE Nothing,
           rest = IF rd.pending # Nothing THEN [rd EXCEPT !.pending = Nothing]
                  ELSE IF rd.queue # <<>> THEN [rd EXCEPT !.queue = Tail(@)] ELSE rd
    PROVE  /\ item \in Items /\ ItemOk(item)
           /\ item # Close => InHand(rest)
<1>1. /\ rd \in ReaderRows /\ rd.queue \in Seq(Items) /\ rd.pending \in Items
      /\ ViewerInv(rd) /\ StreamInv(rd) /\ ItemsOk(rd.queue) /\ ItemOk(rd.pending)
  BY DEF ReaderInv, ViewerInv, StreamInv, ReaderRows
<1>2. rd.queue # <<>> =>
        /\ Head(rd.queue) = rd.queue[1] /\ rd.queue[1] \in Items /\ ItemOk(rd.queue[1])
        /\ Tail(rd.queue) \in Seq(Items) /\ ItemsOk(Tail(rd.queue))
  <2> SUFFICES ASSUME rd.queue # <<>>
               PROVE  <1>2!2
    OBVIOUS
  <2>1. Len(rd.queue) \in Nat /\ 1 \in 1 .. Len(rd.queue)
    BY <1>1, EmptySeq, LenProperties
  <2>2. /\ Tail(rd.queue) \in Seq(Items) /\ Len(Tail(rd.queue)) = Len(rd.queue) - 1
        /\ \A i \in 1 .. Len(Tail(rd.queue)) : Tail(rd.queue)[i] = rd.queue[i + 1]
    BY <1>1, HeadTailProperties
  <2>3. \A i \in 1 .. Len(Tail(rd.queue)) : i + 1 \in 1 .. Len(rd.queue)
    BY <2>1, <2>2
  <2>4. ItemsOk(Tail(rd.queue))
    BY <1>1, <2>2, <2>3 DEF ItemsOk
  <2>5. ItemOk(rd.queue[1]) /\ rd.queue[1] \in Items
    BY <1>1, <2>1, ElementOfSeq DEF ItemsOk
  <2>6. Head(rd.queue) = rd.queue[1]
    BY <1>1
  <2> QED BY <2>2, <2>4, <2>5, <2>6
<1>3. item \in Items /\ ItemOk(item)
  BY <1>1, <1>2, MarkersAreOk
<1>4. ASSUME item # Close PROVE InHand(rest)
  <2>1. rest \in ReaderRows
    <3>1. CASE rd.pending # Nothing
      BY <1>1, <3>1, MarkersAreOk DEF ReaderRows
    <3>2. CASE rd.pending = Nothing /\ rd.queue # <<>>
      BY <1>1, <1>2, <3>2 DEF ReaderRows
    <3>3. CASE rd.pending = Nothing /\ rd.queue = <<>>
      BY <1>1, <3>3
    <3> QED BY <3>1, <3>2, <3>3
  <2>2. /\ rest.pc = "wait" /\ rest.pending = Nothing /\ rest.closed = rd.closed
        /\ rest.sent = rd.sent /\ rest.view = rd.view /\ rest.mode = rd.mode
        /\ rest.queue = IF rd.pending # Nothing \/ rd.queue = <<>> THEN rd.queue ELSE Tail(rd.queue)
    <3>1. CASE rd.pending # Nothing
      BY <1>1, <3>1 DEF ReaderRows
    <3>2. CASE rd.pending = Nothing /\ rd.queue # <<>>
      BY <1>1, <3>2 DEF ReaderRows
    <3>3. CASE rd.pending = Nothing /\ rd.queue = <<>>
      BY <1>1, <3>3
    <3> QED BY <3>1, <3>2, <3>3
  <2>3. ViewerInv(rest)
    BY <1>1, <2>1, <2>2 DEF ViewerInv, FinalOk
  <2>4. ItemsOk(rest.queue)
    BY <1>1, <1>2, <2>2
  <2>5. rd.closed => /\ rd.pending # Nothing /\ session = "closed" /\ rd.sent = 0
                     /\ rd.queue # <<>> /\ rd.queue[1] = Close
    BY <1>1, <1>2, <1>4, MarkersAreOk DEF StreamInv
  <2> QED BY <2>2, <2>3, <2>4, <2>5 DEF InHand
<1> QED BY <1>3, <1>4

\* The steps of a stream and of the browser behind it.
LEMMA ReaderStepOk ==
    ASSUME IInv, NEW r \in Readers, ReaderStep(r)
    PROVE  IInv'
<1> PICK rd : rd = reader[r]
  OBVIOUS
<1>1. /\ WriterInv /\ ReaderInv(rd) /\ ViewerInv(rd) /\ rd \in ReaderRows
      /\ rd.item \in Items /\ ItemOk(rd.item)
  BY DEF IInv, ReadersInv, ReaderInv, ViewerInv, StreamInv, ReaderRows
<1>2. \A x : Read(r, x) /\ ReaderInv(x) => IInv'
  BY ReaderMoves DEF Read
<1>3. ReaderInv(Off(rd))
  BY <1>1, OffOk
<1>4. CASE Connect(r)
  <2>1. rd.pc = "off" /\ rd.mode = "stream"
    BY <1>4 DEF Connect
  <2>2. ASSUME NEW x, x = [rd EXCEPT !.pc = "open"] \/ x = [rd EXCEPT !.mode = "poll"]
        PROVE  ReaderInv(x)
    <3>1. /\ x \in ReaderRows /\ x.queue = rd.queue /\ x.pending = rd.pending
          /\ x.item = rd.item /\ x.closed = rd.closed /\ x.view = rd.view /\ x.sent = rd.sent
          /\ x.pc # "wait"
      BY <1>1, <2>1, <2>2 DEF ReaderRows
    <3>2. rd.view.status \notin Terminal
      BY <1>1, <2>1 DEF ViewerInv, FinalOk
    <3>3. ViewerInv(x)
      BY <1>1, <3>1, <3>2 DEF ViewerInv, FinalOk
    <3>4. StreamInv(x)
      BY <1>1, <2>1, <3>1 DEF ReaderInv, StreamInv
    <3> QED BY <3>3, <3>4 DEF ReaderInv
  <2> QED BY <1>2, <1>4, <2>2 DEF Connect
<1>5. CASE Subscribe(r)
  <2>1. InHand(rd)
    BY <1>1, <1>5, StandingInHand DEF Subscribe
  <2>2. ServedFromMemory => ReaderInv(Show(rd, DraftSnapshot))
    BY <1>1, <2>1, DraftSnapshotOk, ShowOk
  <2>3. ReaderInv([rd EXCEPT !.pc = "select"])
    <3>1. ReaderInv([rd EXCEPT !.pc = "select", !.item = rd.item])
      BY <1>1, <2>1, MoveOk
    <3>2. [rd EXCEPT !.pc = "select", !.item = rd.item] = [rd EXCEPT !.pc = "select"]
      BY <1>1 DEF ReaderRows
    <3> QED BY <3>1, <3>2
  <2> QED BY <1>2, <1>5, <2>2, <2>3 DEF Subscribe
<1>6. CASE FirstSelect(r)
  <2>1. InHand(rd)
    BY <1>1, <1>6, StandingInHand DEF FirstSelect
  <2>2. row.status # "deleted" => ReaderInv(Show(rd, RowSnapshot))
    <3>1. PICK snap : snap = RowSnapshot
      OBVIOUS
    <3>2. row.status # "deleted" =>
            /\ snap \in Views /\ (Early => ViewOk(snap))
            /\ snap.status = row.status /\ snap.blocks = row.blocks
      BY <1>1, <3>1, RowSnapshotOk
    <3>3. row.status # "deleted" => ReaderInv(Show(rd, snap))
      BY <2>1, <3>2, ShowOk
    <3> QED BY <3>1, <3>3
  <2> QED BY <1>2, <1>3, <1>6, <2>2 DEF FirstSelect
<1>7. CASE Take(r)
  <2>1. PICK item, rest :
          /\ item = IF rd.pending # Nothing THEN rd.pending
                    ELSE IF rd.queue # <<>> THEN Head(rd.queue) ELSE Nothing
          /\ rest = IF rd.pending # Nothing THEN [rd EXCEPT !.pending = Nothing]
                    ELSE IF rd.queue # <<>> THEN [rd EXCEPT !.queue = Tail(@)] ELSE rd
    OBVIOUS
  <2>2. /\ rd.pc = "wait"
        /\ IF item = Close THEN Read(r, Off(rd))
           ELSE Read(r, Serve(rest, item)) \/ Read(r, [rest EXCEPT !.pc = "recheck", !.item = item])
    BY <1>7, <2>1 DEF Take
  <2>3. item \in Items /\ ItemOk(item) /\ (item # Close => InHand(rest))
    BY <1>1, <2>1, <2>2, TakeOk
  <2>4. item # Close => /\ ReaderInv(Serve(rest, item))
                        /\ ReaderInv([rest EXCEPT !.pc = "recheck", !.item = item])
    BY <1>1, <2>3, ServeOk, MoveOk
  <2> QED BY <1>2, <1>3, <2>2, <2>4
<1>8. CASE Recheck(r)
  <2>1. InHand(rd)
    BY <1>1, <1>8, StandingInHand DEF Recheck
  <2>2. ReaderInv(Serve(rd, rd.item))
    BY <1>1, <2>1, ServeOk
  <2> QED BY <1>2, <1>3, <1>8, <2>2 DEF Recheck
<1>9. CASE Reread(r)
  <2>1. InHand(rd)
    BY <1>1, <1>9, StandingInHand DEF Reread
  <2>2. row.status # "deleted" => ReaderInv(Show(rd, RowSnapshot))
    <3>1. PICK snap : snap = RowSnapshot
      OBVIOUS
    <3>2. row.status # "deleted" =>
            /\ snap \in Views /\ (Early => ViewOk(snap))
            /\ snap.status = row.status /\ snap.blocks = row.blocks
      BY <1>1, <3>1, RowSnapshotOk
    <3>3. row.status # "deleted" => ReaderInv(Show(rd, snap))
      BY <2>1, <3>2, ShowOk
    <3> QED BY <3>1, <3>3
  <2>3. ReaderInv([rd EXCEPT !.pc = "wait"])
    <3>1. ReaderInv([rd EXCEPT !.pc = "wait", !.item = rd.item])
      BY <1>1, <2>1, MoveOk
    <3>2. [rd EXCEPT !.pc = "wait", !.item = rd.item] = [rd EXCEPT !.pc = "wait"]
      BY <1>1 DEF ReaderRows
    <3> QED BY <3>1, <3>2
  <2> QED BY <1>2, <1>3, <1>9, <2>2, <2>3 DEF Reread
<1>10. CASE Poll(r)
  <2> DEFINE Snap(s) == [rd EXCEPT !.view = s, !.pc = "off",
                                   !.mode = IF s.status \in Terminal THEN "done" ELSE "poll"]
  <2>1. rd.mode = "poll" /\ rd.pc \in {"off", "poll"}
    BY <1>10 DEF Poll
  <2>2. rd.view.status \notin Terminal /\ ~rd.closed /\ rd.pending = Nothing /\ StreamInv(rd)
    BY <1>1, <2>1 DEF ReaderInv, ViewerInv, FinalOk, StreamInv
  <2>3. ASSUME NEW s \in Views, Early => ViewOk(s),
               s.status \in Terminal => s.status = row.status /\ s.blocks = row.blocks
        PROVE  ReaderInv(Snap(s))
    <3> DEFINE x == Snap(s)
    <3>1. /\ x \in ReaderRows /\ x.queue = rd.queue /\ x.pending = rd.pending
          /\ x.item = rd.item /\ x.closed = rd.closed /\ x.view = s /\ x.sent = rd.sent
          /\ x.pc = "off" /\ (s.status \in Terminal => x.mode = "done")
      BY <1>1, <2>3 DEF ReaderRows
    <3> HIDE DEF x
    <3>2. ViewerInv(x)
      BY <1>1, <2>3, <3>1 DEF ViewerInv, FinalOk
    <3>3. StreamInv(x)
      BY <2>2, <3>1 DEF StreamInv
    <3> QED BY <3>2, <3>3 DEF ReaderInv, x
  <2>4. ASSUME NEW x,
               \/ x = [rd EXCEPT !.mode = "gone"]
               \/ x = [rd EXCEPT !.mode = "gone", !.pc = "off"]
               \/ x = [rd EXCEPT !.pc = "poll"]
        PROVE  ReaderInv(x)
    <3>1. /\ x \in ReaderRows /\ x.queue = rd.queue /\ x.pending = rd.pending
          /\ x.item = rd.item /\ x.closed = rd.closed /\ x.view = rd.view /\ x.sent = rd.sent
      BY <1>1, <2>4 DEF ReaderRows
    <3>2. ViewerInv(x)
      BY <1>1, <2>2, <3>1 DEF ViewerInv, FinalOk
    <3>3. StreamInv(x)
      BY <2>2, <3>1 DEF StreamInv
    <3> QED BY <3>2, <3>3 DEF ReaderInv
  <2>5. ServedFromMemory => ReaderInv(Snap(DraftSnapshot))
    BY <1>1, <2>3, DraftSnapshotOk
  <2>6. row.status # "deleted" => ReaderInv(Snap(RowSnapshot))
    <3>1. PICK snap : snap = RowSnapshot
      OBVIOUS
    <3>2. row.status # "deleted" =>
            /\ snap \in Views /\ (Early => ViewOk(snap))
            /\ snap.status = row.status /\ snap.blocks = row.blocks
      BY <1>1, <3>1, RowSnapshotOk
    <3> HIDE DEF Snap
    <3>3. row.status # "deleted" => ReaderInv(Snap(snap))
      BY <2>3, <3>2
    <3> QED BY <3>1, <3>3
  <2>7. \/ Read(r, [rd EXCEPT !.mode = "gone"])
        \/ Read(r, [rd EXCEPT !.mode = "gone", !.pc = "off"])
        \/ Read(r, [rd EXCEPT !.pc = "poll"])
        \/ ServedFromMemory /\ Read(r, Snap(DraftSnapshot))
        \/ row.status # "deleted" /\ Read(r, Snap(RowSnapshot))
    BY <1>10 DEF Poll
  <2> QED BY <1>2, <2>4, <2>5, <2>6, <2>7
<1> QED BY <1>4, <1>5, <1>6, <1>7, <1>8, <1>9, <1>10 DEF ReaderStep

\* A lost connection.
LEMMA DropOk ==
    ASSUME IInv, NEW r \in Readers, Drop(r)
    PROVE  IInv'
<1> PICK rd : rd = reader[r]
  OBVIOUS
<1>1. ReaderInv(Off(rd))
  BY OffOk DEF IInv, ReadersInv, ReaderInv
<1>2. reader' = [reader EXCEPT ![r] = Off(rd)] /\ UNCHANGED <<row, live, drafts, task, stop, session>>
  BY DEF Drop
<1> QED BY <1>1, <1>2, ReaderMoves

\* Sign-out, and the close it puts at the head of every queue.
LEMMA SignOutOk ==
    ASSUME IInv, SignOut \/ CloseStreams
    PROVE  IInv'
<1>1. /\ UNCHANGED <<row, live, drafts, task, stop>>
      /\ session # "closed" /\ session' \in {"revoked", "closed"}
  BY DEF SignOut, CloseStreams
<1>2. WriterInv'
  BY <1>1 DEF IInv, WriterInv, DraftInv, RowInv, DraftAt, Early
<1>3. \A d, v : (ItemOk(d)' <=> ItemOk(d)) /\ (ViewOk(v)' <=> ViewOk(v))
  BY <1>1 DEF ItemOk, ViewOk, DraftAt
<1>4. ASSUME NEW x, ReaderInv(x)
      PROVE  ViewerInv(x)' /\ StreamInv(x)' /\ ~x.closed /\ x.sent = 0
  <2>1. ViewerInv(x)' /\ x.sent = 0
    BY <1>1, <1>3, <1>4 DEF ReaderInv, ViewerInv, FinalOk, Early
  <2>2. ~x.closed /\ StreamInv(x)'
    BY <1>1, <1>3, <1>4 DEF ReaderInv, StreamInv, ItemsOk
  <2> QED BY <2>1, <2>2
<1>5. ASSUME NEW r \in Readers
      PROVE  (reader[r] \in ReaderRows /\ ReaderInv(reader[r]))'
  <2>1. PICK rd, x : rd = reader[r] /\ x = reader'[r]
    OBVIOUS
  <2>2. ReaderInv(rd) /\ rd \in ReaderRows
    BY <2>1 DEF IInv, ReadersInv
  <2>3. ViewerInv(rd)' /\ StreamInv(rd)' /\ rd.sent = 0
    BY <1>4, <2>2
  <2>4. CASE x = rd
    BY <2>1, <2>2, <2>3, <2>4 DEF ReaderInv
  <2>5. CASE x # rd
    <3>1. /\ x = [rd EXCEPT !.queue = <<Close>>, !.closed = TRUE] /\ session' = "closed"
          /\ rd.pc \in {"select", "wait", "recheck", "reread"}
      BY <2>1, <2>5 DEF SignOut, CloseStreams, Subscribed
    <3>2. <<Close>> \in Seq(Items) /\ <<Close>> # <<>> /\ <<Close>>[1] = Close /\ ItemsOk(<<Close>>)'
      <4>1. Close \in Items /\ ItemOk(Close)'
        BY DEF Close, Items, ItemOk
      <4> QED BY <4>1 DEF ItemsOk
    <3> DEFINE queue == <<Close>>
    <3> HIDE DEF queue
    <3>3. /\ x \in ReaderRows /\ x.queue = queue /\ x.pending = rd.pending /\ x.pc = rd.pc
          /\ x.item = rd.item /\ x.view = rd.view /\ x.sent = rd.sent /\ x.mode = rd.mode
      BY <2>2, <3>1, <3>2 DEF ReaderRows, queue
    <3>4. ViewerInv(x)'
      BY <2>3, <3>3 DEF ViewerInv, FinalOk
    <3>5. StreamInv(x)'
      BY <2>3, <3>1, <3>2, <3>3 DEF StreamInv, queue
    <3> QED BY <2>1, <3>3, <3>4, <3>5 DEF ReaderInv
  <2> QED BY <2>4, <2>5
<1>6. reader' = [r \in Readers |-> reader'[r]]
  BY DEF IInv, ReadersInv, SignOut, CloseStreams
<1> QED BY <1>2, <1>5, <1>6 DEF IInv, ReadersInv

\* IInv holds initially and every step keeps it.
LEMMA IInvHolds == Spec => []IInv
<1>1. Init => IInv
  <2> SUFFICES ASSUME Init PROVE IInv
    OBVIOUS
  <2>1. WriterInv
    BY EmptySeq DEF Init, WriterInv, DraftInv, RowInv, Active, Texts
  <2>2. NoView \in Views /\ NewReader \in ReaderRows
    <3>1. <<>> \in Seq(Items) /\ <<>> \in Texts /\ Nothing \in Items
      BY MarkersAreOk DEF Texts
    <3>2. NoView \in Views
      BY <3>1 DEF NoView, Views
    <3> QED BY <3>1, <3>2 DEF NewReader, ReaderRows
  <2>3. ViewerInv(NewReader)
    BY <2>2 DEF ViewerInv, NewReader, ViewOk, FinalOk, NoView, Terminal
  <2>4. StreamInv(NewReader)
    BY MarkersAreOk DEF StreamInv, NewReader
  <2> QED BY <2>1, <2>2, <2>3, <2>4 DEF Init, IInv, ReadersInv, ReaderInv
<1>2. IInv /\ [Next]_vars => IInv'
  <2> SUFFICES ASSUME IInv, [Next]_vars PROVE IInv'
    OBVIOUS
  <2>1. CASE WriterStep
    <3>1. CASE Schedule \/ TaskSetRunning \/ TaskFinishRow
      BY <3>1, RowStepOk DEF IInv
    <3>2. CASE \/ TaskAnnounce
               \/ \E op \in TextOps : TaskEmit(op)
               \/ TaskReset
               \/ TaskMarkFinished
               \/ StopSignal
               \/ StopFinish
      BY <3>2, DraftStepOk DEF IInv
    <3>3. CASE TaskEnds \/ TaskLost
      <4>1. Forget /\ task # "unborn"
        BY <3>3 DEF TaskEnds, TaskLost
      <4> QED BY <4>1, DraftStepOk DEF IInv
    <3> QED BY <2>1, <3>1, <3>2, <3>3 DEF WriterStep
  <2>2. CASE StopRow \/ RowRemoved
    BY <2>2, RowStepOk DEF IInv
  <2>3. CASE SignOut \/ CloseStreams
    BY <2>3, SignOutOk
  <2>4. CASE \E r \in Readers : ReaderStep(r) \/ Drop(r)
    BY <2>4, ReaderStepOk, DropOk
  <2>5. CASE UNCHANGED vars
    <3>1. drafts \in Seq(Texts) /\ WriterMoves /\ reader' = reader
      BY <2>5 DEF vars, IInv, WriterInv, DraftInv, WriterMoves, Early
    <3>2. WriterInv'
      BY <2>5 DEF vars, IInv, WriterInv, DraftInv, RowInv, DraftAt, Early
    <3> QED BY <3>1, <3>2, NoReaderStep DEF IInv
  <2> QED BY <2>1, <2>2, <2>3, <2>4, <2>5 DEF Next
<1> QED BY <1>1, <1>2, PTL DEF Spec

-----------------------------------------------------------------------------
(* The theorems.                                                           *)

\* Until a Stop a browser shows the draft as it was at the seq it shows:
\* applyDelta refuses what does not follow, _offer replaces what it drops by a
\* resync, and a delta carries one step of _apply_live_events.
THEOREM ViewsAreDrafts == Spec => []ViewIsDraft
<1>1. IInv => ViewIsDraft
  <2> SUFFICES ASSUME IInv, Early, NEW r \in Readers, reader[r].view.draft
               PROVE  reader[r].view.blocks = DraftAt(reader[r].view.seq)
    BY DEF ViewIsDraft, ShowsDraft, Early
  <2>1. ViewOk(reader[r].view)
    BY DEF IInv, ReadersInv, ReaderInv, ViewerInv
  <2> QED BY <2>1 DEF ViewOk
<1> QED BY <1>1, IInvHolds, PTL

\* A browser that shows an end shows the stored one: get_snapshot serves the
\* draft in memory only while it is active, and a row that ended keeps its end.
THEOREM EndsShownAreStored == Spec => []FinalViewIsStored
<1>1. IInv => FinalViewIsStored
  BY DEF IInv, ReadersInv, ReaderInv, ViewerInv, FinalOk, FinalViewIsStored
<1> QED BY <1>1, IInvHolds, PTL

\* A stream closed by sign-out sends at most the event it has in hand: the close
\* is next in its queue and _offer never drops it.
THEOREM ClosedStreamsEnd == Spec => []CloseEndsStream
<1>1. IInv => CloseEndsStream
  BY DEF IInv, ReadersInv, ReaderInv, StreamInv, CloseEndsStream
<1> QED BY <1>1, IInvHolds, PTL
=============================================================================
