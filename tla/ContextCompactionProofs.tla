----------------------- MODULE ContextCompactionProofs -----------------------
(***************************************************************************)
(* ContextCompaction, proved for conversations of every length, every size *)
(* of messages, summaries and extracts, and every budget: requests fit,    *)
(* summaries are exact and the model is shown everything.                  *)
(*                                                                         *)
(* The recursive functions of the model are reasoned about without an      *)
(* induction rule: the numbers for which a statement holds are a set       *)
(* (NatSet).  For each of them it is shown that the function exists, which *)
(* is what its definition leaves open, and then what it computes.          *)
(***************************************************************************)
EXTENDS ContextCompaction, FiniteSetTheorems, SequenceTheorems, WellFoundedInduction,
        NaturalsInduction, TLAPS

\* What messages, summaries, and extracts or merge requests are.
Message == [role : {"user", "assistant"}, size : Sizes]
Note == [through : Nat, covers : SUBSET Nat, size : Nat]
Part == [covers : SUBSET Nat, size : Nat]
Extracted == [covers : SUBSET Nat, size : NoteSizes]

ChatPhases == {"select", "summarise", "check", "store", "recompose"}
HandoffPhases == {"chunk", "extract"}

Runs ==
    [pc : {"none", "compose", "respond"} \cup ChatPhases \cup HandoffPhases,
     kind : {"none", "chat", "handoff"}, cutoff : Nat, note : Note,
     todo : Seq(Part), extracts : Seq(Extracted), from : Nat \ {0},
     sent : SUBSET Nat, size : Nat]

TypeOK ==
    /\ messages \in Seq(Message)
    /\ summary \in Note
    /\ status \in {"none", "running", "stopping"}
    /\ run \in Runs

\* A task is there as long as its row, and each phase belongs to one kind.
PhaseInv ==
    /\ run.pc = "none" <=> status = "none"
    /\ run.pc \in ChatPhases => run.kind = "chat"
    /\ run.pc \in HandoffPhases => run.kind = "handoff"

\* The stretch a summary is being made of, and what came back.
CutoffInv ==
    run.pc = "summarise" =>
        /\ run.cutoff \in summary.through + 1 .. Len(messages) - MinRecent
        /\ SummarySize(run.cutoff) <= Budget
        /\ \A c \in run.cutoff + 1 .. Len(messages) - Retained(Cardinality(After(0))) :
               SummarySize(c) > Budget
NoteInv ==
    run.pc \in {"check", "store"} =>
        /\ run.note.through \in summary.through + 1 .. Len(messages) - MinRecent
        /\ run.note.covers = 1 .. run.note.through

\* The turns some requests or extracts stand for.
Covers(es) == UNION {es[i].covers : i \in DOMAIN es}

\* Every user turn is in a request to come or in an extract.
HandoffInv ==
    /\ run.pc = "compose" => run.todo = <<>> /\ run.extracts = <<>> /\ run.from = 1
    /\ run.pc = "chunk" =>
         /\ run.from \in 1 .. Cardinality(UserOrdinals) + 1
         /\ Covers(run.todo) = UserTurns(1, run.from - 1)
         /\ run.extracts = <<>>
    /\ run.pc = "extract" => Covers(run.todo) \cup Covers(run.extracts) = UserOrdinals

\* What is sent fits, and so will what is prepared.
SizeInv ==
    /\ run.size <= Budget
    /\ run.pc \in HandoffPhases => \A i \in DOMAIN run.todo : run.todo[i].size <= Budget

IInv ==
    /\ TypeOK /\ PhaseInv /\ SummaryIsExact /\ CutoffInv /\ NoteInv
    /\ HandoffInv /\ SizeInv /\ ModelSeesEverything
-----------------------------------------------------------------------------
(* The binary search.                                                      *)

\* Induction, for a set of numbers.
LEMMA NatSet ==
    ASSUME NEW S, 0 \in S, \A n \in Nat : n \in S => n + 1 \in S
    PROVE  Nat \subseteq S
<1> DEFINE Missing == Nat \ S
           R == OpToRel(<, Nat)
<1>1. SUFFICES ASSUME Missing # {} PROVE FALSE
  OBVIOUS
<1>2. IsWellFoundedOn(R, Nat)
  BY NatLessThanWellFounded
<1>3. PICK m \in Missing : \A k \in Missing : <<k, m>> \notin R
  <2>1. Missing \subseteq Nat /\ Missing # {}
    BY <1>1
  <2> HIDE DEF R, Missing
  <2> QED BY <1>2, <2>1, WFMin
<1>4. \A k \in Missing : ~(k < m)
  BY <1>3 DEF OpToRel
<1>5. m # 0 /\ m - 1 \in Nat
  OBVIOUS
<1>6. m - 1 \in S
  BY <1>4, <1>5
<1> QED BY <1>5, <1>6

\* The function the search is computed by ...
Searched(g, low, high, fitting) ==
    g = [w \in (low .. high + 1) \X (low - 1 .. high) |->
          LET middle == (w[1] + w[2]) \div 2
              better == g[<<middle + 1, w[2]>>] IN
          IF w[1] > w[2] THEN 0
          ELSE IF middle \notin fitting THEN g[<<w[1], middle - 1>>]
          ELSE IF better = 0 THEN middle ELSE better]

\* The middle of a stretch lies in it.
LEMMA Middle ==
    ASSUME NEW l \in Int, NEW h \in Int, l <= h
    PROVE  (l + h) \div 2 \in l .. h
OBVIOUS

\* ... exists, by induction on the length of the stretch, ...
LEMMA SearchExists ==
    ASSUME NEW low \in Nat, NEW high \in Nat, NEW fitting
    PROVE  \E g : Searched(g, low, high, fitting)
<1> DEFINE L == low .. high + 1
           H == low - 1 .. high
           Body(g, l, h) ==
              LET middle == (l + h) \div 2 IN
              IF l > h THEN 0
              ELSE IF middle \notin fitting THEN g[<<l, middle - 1>>]
              ELSE IF g[<<middle + 1, h>>] = 0 THEN middle ELSE g[<<middle + 1, h>>]
           Upto(g, n) == \A l \in L, h \in H : h - l < n => g[<<l, h>>] = Body(g, l, h)
           S == {n \in Nat : \E g : Upto(g, n)}
<1>1. 0 \in S
  <2>1. Upto([w \in L \X H |-> 0], 0)
    OBVIOUS
  <2> QED BY <2>1
<1>2. ASSUME NEW n \in Nat, n \in S PROVE n + 1 \in S
  <2>1. PICK f : Upto(f, n)
    BY <1>2
  <2> DEFINE g == [w \in L \X H |-> Body(f, w[1], w[2])]
  <2>2. ASSUME NEW l \in L, NEW h \in H, h - l < n + 1, l <= h
        PROVE  g[<<l, h>>] = Body(g, l, h)
    <3> DEFINE m == (l + h) \div 2
    <3>1. m \in l .. h
      BY <2>2, Middle
    <3> HIDE DEF m
    <3>2. m + 1 \in L /\ h - (m + 1) < n /\ m - 1 \in H /\ (m - 1) - l < n
      BY <2>2, <3>1
    <3> HIDE DEF L, H
    <3>3. f[<<m + 1, h>>] = Body(f, m + 1, h) /\ f[<<l, m - 1>>] = Body(f, l, m - 1)
      BY <2>1, <3>2
    <3>4. g[<<m + 1, h>>] = Body(f, m + 1, h) /\ g[<<l, m - 1>>] = Body(f, l, m - 1)
          /\ g[<<l, h>>] = Body(f, l, h)
      <4> HIDE DEF Body
      <4> QED BY <3>2
    <3>5. Body(f, l, h) = Body(g, l, h)
      <4>1. f[<<m + 1, h>>] = g[<<m + 1, h>>] /\ f[<<l, m - 1>>] = g[<<l, m - 1>>]
        <5> HIDE DEF Body, g
        <5> QED BY <3>3, <3>4
      <4> HIDE DEF g
      <4> QED BY <4>1 DEF m
    <3> HIDE DEF Body, g
    <3> QED BY <3>4, <3>5
  <2>3. ASSUME NEW l \in L, NEW h \in H, l > h
        PROVE  g[<<l, h>>] = Body(g, l, h)
    BY <2>3
  <2>4. Upto(g, n + 1)
    <3> HIDE DEF Body, g
    <3> QED BY <2>2, <2>3
  <2> HIDE DEF Upto
  <2> QED BY <2>4
<1>3. high + 2 \in S
  <2> HIDE DEF S
  <2> QED BY <1>1, <1>2, NatSet
<1>4. PICK f : Upto(f, high + 2)
  BY <1>3
<1> DEFINE g == [w \in L \X H |-> f[w]]
<1>5. ASSUME NEW l \in L, NEW h \in H PROVE g[<<l, h>>] = Body(g, l, h)
  <2>1. g[<<l, h>>] = Body(f, l, h)
    BY <1>4
  <2>2. CASE l > h
    BY <2>1, <2>2
  <2>3. CASE l <= h
    <3> DEFINE m == (l + h) \div 2
    <3>1. m \in l .. h
      BY <2>3, Middle
    <3> HIDE DEF m
    <3>2. m + 1 \in L /\ m - 1 \in H
      BY <2>3, <3>1
    <3>3. g[<<m + 1, h>>] = f[<<m + 1, h>>] /\ g[<<l, m - 1>>] = f[<<l, m - 1>>]
      BY <3>2
    <3> HIDE DEF g
    <3> QED BY <2>1, <3>3 DEF m
  <2> QED BY <2>2, <2>3
<1>6. g = [w \in L \X H |-> Body(g, w[1], w[2])]
  <2>1. g = [w \in L \X H |-> g[w]]
    OBVIOUS
  <2> HIDE DEF g, Body
  <2> QED BY <1>5, <2>1
<1> HIDE DEF g
<1> QED BY <1>6 DEF Searched

\* ... and finds what it is to find on every stretch.
LEMMA SearchFinds ==
    ASSUME NEW low \in Nat \ {0}, NEW high \in Nat, NEW fitting, NEW g,
           Searched(g, low, high, fitting),
           NEW l \in low .. high + 1, NEW h \in low - 1 .. high
    PROVE  /\ g[<<l, h>>] \in {0} \cup (fitting \cap l .. h)
           /\ (\A c, d \in low .. high : c < d /\ d \in fitting => c \in fitting)
                => \A c \in l .. h : c > g[<<l, h>>] => c \notin fitting
<1> DEFINE L == low .. high + 1
           H == low - 1 .. high
           Down == \A c, d \in low .. high : c < d /\ d \in fitting => c \in fitting
           Good(a, b) ==
              /\ g[<<a, b>>] \in {0} \cup (fitting \cap a .. b)
              /\ Down => \A c \in a .. b : c > g[<<a, b>>] => c \notin fitting
           S == {n \in Nat : \A a \in L, b \in H : b - a < n => Good(a, b)}
<1>1. ASSUME NEW a \in L, NEW b \in H
      PROVE  /\ a > b => g[<<a, b>>] = 0
             /\ a <= b => LET m == (a + b) \div 2 IN
                  g[<<a, b>>] = IF m \in fitting
                                THEN IF g[<<m + 1, b>>] = 0 THEN m ELSE g[<<m + 1, b>>]
                                ELSE g[<<a, m - 1>>]
  BY DEF Searched
<1>2. ASSUME NEW a \in L, NEW b \in H, a > b PROVE Good(a, b)
  <2>1. g[<<a, b>>] = 0
    BY <1>1, <1>2
  <2>2. \A c \in a .. b : FALSE
    BY <1>2
  <2> HIDE DEF L, H
  <2> QED BY <2>1, <2>2
<1>3. 0 \in S
  <2>1. \A a \in L, b \in H : b - a < 0 => a > b
    OBVIOUS
  <2> HIDE DEF Good
  <2> QED BY <1>2, <2>1
<1>4. ASSUME NEW n \in Nat, n \in S PROVE n + 1 \in S
  <2>1. ASSUME NEW a \in L, NEW b \in H, b - a < n + 1, a <= b PROVE Good(a, b)
    <3> DEFINE m == (a + b) \div 2
    <3>1. m \in a .. b
      BY <2>1, Middle
    <3>2. g[<<a, b>>] = IF m \in fitting
                    THEN IF g[<<m + 1, b>>] = 0 THEN m ELSE g[<<m + 1, b>>]
                    ELSE g[<<a, m - 1>>]
      BY <1>1, <2>1
    <3> HIDE DEF m
    <3>3. m + 1 \in L /\ b - (m + 1) < n /\ m - 1 \in H /\ (m - 1) - a < n
      BY <2>1, <3>1
    <3>4. Good(m + 1, b) /\ Good(a, m - 1)
      <4> HIDE DEF Good
      <4> QED BY <1>4, <3>3
    <3>5. a \in low .. high + 1 /\ b \in low - 1 .. high /\ m \in low .. high
      BY <3>1
    <3>6. CASE m \in fitting
      BY <3>1, <3>2, <3>4, <3>5, <3>6
    <3>7. CASE m \notin fitting
      <4>1. g[<<a, b>>] = g[<<a, m - 1>>]
        BY <3>2, <3>7
      <4>2. g[<<a, b>>] \in {0} \cup (fitting \cap a .. b)
        BY <3>1, <3>4, <3>5, <4>1
      <4>3. ASSUME Down, NEW c \in a .. b, c > g[<<a, b>>], c \in fitting
            PROVE  FALSE
        <5>1. c \in low .. high
          BY <3>5
        <5>2. ~(m < c)
          BY <3>5, <3>7, <4>3, <5>1
        <5>3. c \in a .. m - 1
          BY <3>1, <3>5, <3>7, <4>3, <5>1, <5>2
        <5> QED BY <3>4, <4>1, <4>3, <5>3
      <4> QED BY <4>2, <4>3
    <3> QED BY <3>6, <3>7
  <2>2. \A a \in L, b \in H : a <= b \/ a > b
    OBVIOUS
  <2> HIDE DEF Good
  <2> QED BY <1>2, <2>1, <2>2
<1>5. high + 2 \in S
  <2> HIDE DEF S
  <2> QED BY <1>3, <1>4, NatSet
<1>6. Good(l, h)
  <2> HIDE DEF Good
  <2> QED BY <1>5
<1> QED BY <1>6

\* The binary search of both compactions returns a value that fits or, when it
\* finds none, 0.  If whatever is smaller than a fitting value fits as well,
\* no larger value fits than the one returned (_largest_bounded_summary_snapshot
\* and _largest_bounded_handoff_end).
THEOREM LargestFittingFinds ==
    ASSUME NEW low \in Nat \ {0}, NEW high \in Nat, low <= high, NEW fitting
    PROVE  LET best == LargestFitting(low, high, fitting) IN
           /\ best \in {0} \cup (fitting \cap low .. high)
           /\ (\A c, d \in low .. high : c < d /\ d \in fitting => c \in fitting)
                => \A c \in low .. high : c > best => c \notin fitting
<1> DEFINE g == CHOOSE g : Searched(g, low, high, fitting)
<1>1. Searched(g, low, high, fitting)
  BY SearchExists
<1>2. LargestFitting(low, high, fitting) = g[<<low, high>>]
  BY DEF LargestFitting, Searched
<1> HIDE DEF g
<1>3. low \in low .. high + 1 /\ high \in low - 1 .. high
  OBVIOUS
<1> QED BY <1>1, <1>2, <1>3, SearchFinds
-----------------------------------------------------------------------------
(* Sizes add up.                                                           *)

\* The element that goes first.
Pick(s) == CHOOSE x \in s : TRUE

\* The function a total is computed by ...
Totals(f, ms, S) ==
    f = [s \in SUBSET S |-> IF s = {} THEN 0 ELSE ms[Pick(s)].size + f[s \ {Pick(s)}]]

\* ... is the one in its definition, ...
LEMMA TotalIs ==
    ASSUME NEW ms, NEW S
    PROVE  TotalSize(ms, S) = (CHOOSE f : Totals(f, ms, S))[S]
BY DEF TotalSize, MapThenSumSet, MapThenFoldSet, Totals, Pick

\* One element less.
LEMMA PickOne ==
    ASSUME NEW s, IsFiniteSet(s), s # {}
    PROVE  /\ Pick(s) \in s
           /\ IsFiniteSet(s \ {Pick(s)}) /\ Cardinality(s \ {Pick(s)}) = Cardinality(s) - 1
           /\ Cardinality(s) \in Nat /\ Cardinality(s) - 1 \in Nat
<1>1. Pick(s) \in s
  BY DEF Pick
<1>2. Cardinality(s) \in Nat /\ Cardinality(s) # 0
  BY FS_CardinalityType, FS_EmptySet
<1> QED BY <1>1, <1>2, FS_RemoveElement

\* ... exists, by induction on the number of elements, ...
LEMMA TotalsExist ==
    ASSUME NEW ms, NEW S, IsFiniteSet(S)
    PROVE  \E f : Totals(f, ms, S)
<1> DEFINE Body(f, s) == IF s = {} THEN 0 ELSE ms[Pick(s)].size + f[s \ {Pick(s)}]
           Upto(f, n) == \A s \in SUBSET S : Cardinality(s) < n => f[s] = Body(f, s)
           N == {n \in Nat : \E f : Upto(f, n)}
<1>1. \A s \in SUBSET S : IsFiniteSet(s) /\ Cardinality(s) \in Nat
  BY FS_Subset, FS_CardinalityType
<1>2. 0 \in N
  BY <1>1
<1>3. ASSUME NEW n \in Nat, n \in N PROVE n + 1 \in N
  <2>1. PICK f : Upto(f, n)
    BY <1>3
  <2> DEFINE g == [s \in SUBSET S |-> Body(f, s)]
  <2>2. ASSUME NEW s \in SUBSET S, Cardinality(s) < n + 1 PROVE g[s] = Body(g, s)
    <3>1. CASE s = {}
      BY <3>1
    <3>2. CASE s # {}
      <4> DEFINE t == s \ {Pick(s)}
      <4>1. t \in SUBSET S /\ Cardinality(t) < n
        BY <1>1, <2>2, <3>2, PickOne
      <4>2. f[t] = Body(f, t)
        BY <2>1, <4>1
      <4>3. g[t] = Body(f, t) /\ g[s] = Body(f, s)
        <5> HIDE DEF Body, t
        <5> QED BY <4>1
      <4>4. f[t] = g[t]
        <5> HIDE DEF Body, g, t
        <5> QED BY <4>2, <4>3
      <4>5. Body(f, s) = Body(g, s)
        <5> HIDE DEF g
        <5> QED BY <3>2, <4>4
      <4> HIDE DEF Body, g
      <4> QED BY <4>3, <4>5
    <3> QED BY <3>1, <3>2
  <2>3. Upto(g, n + 1)
    <3> HIDE DEF g, Body
    <3> QED BY <2>2
  <2> HIDE DEF Upto
  <2> QED BY <2>3
<1>4. Cardinality(S) + 1 \in N
  <2>1. Nat \subseteq N
    <3> HIDE DEF N
    <3> QED BY <1>2, <1>3, NatSet
  <2> HIDE DEF N
  <2> QED BY <1>1, <2>1
<1>5. PICK f : Upto(f, Cardinality(S) + 1)
  BY <1>4
<1> DEFINE g == [s \in SUBSET S |-> f[s]]
<1>6. \A s \in SUBSET S : Cardinality(s) < Cardinality(S) + 1
  BY <1>1, FS_Subset
<1>7. ASSUME NEW s \in SUBSET S PROVE g[s] = Body(g, s)
  <2>1. g[s] = Body(f, s)
    BY <1>5, <1>6
  <2>2. Body(f, s) = Body(g, s)
    <3>1. g[s \ {Pick(s)}] = f[s \ {Pick(s)}]
      OBVIOUS
    <3> HIDE DEF g
    <3> QED BY <3>1
  <2> HIDE DEF Body, g
  <2> QED BY <2>1, <2>2
<1>8. g = [s \in SUBSET S |-> Body(g, s)]
  <2>1. g = [s \in SUBSET S |-> g[s]]
    OBVIOUS
  <2> HIDE DEF g, Body
  <2> QED BY <1>7, <2>1
<1> HIDE DEF g
<1> QED BY <1>8 DEF Totals

\* ... and does not depend on the set it was defined for.
LEMMA TotalsAgree ==
    ASSUME NEW ms, NEW S, NEW T, IsFiniteSet(S), NEW f, NEW g, Totals(f, ms, S), Totals(g, ms, T),
           NEW s \in SUBSET S, s \subseteq T
    PROVE  f[s] = g[s]
<1> DEFINE N == {n \in Nat : \A t \in SUBSET S : t \subseteq T /\ Cardinality(t) < n => f[t] = g[t]}
<1>1. \A t \in SUBSET S : IsFiniteSet(t) /\ Cardinality(t) \in Nat
  BY FS_Subset, FS_CardinalityType
<1>2. 0 \in N
  BY <1>1
<1>3. ASSUME NEW n \in Nat, n \in N PROVE n + 1 \in N
  <2>1. ASSUME NEW t \in SUBSET S, t \subseteq T, Cardinality(t) < n + 1 PROVE f[t] = g[t]
    <3>1. CASE t = {}
      BY <2>1, <3>1 DEF Totals
    <3>2. CASE t # {}
      <4> DEFINE r == t \ {Pick(t)}
      <4>1. r \in SUBSET S /\ r \subseteq T /\ Cardinality(r) < n
        BY <1>1, <2>1, <3>2, PickOne
      <4>2. f[r] = g[r]
        BY <1>3, <4>1
      <4>3. f[t] = ms[Pick(t)].size + f[r] /\ g[t] = ms[Pick(t)].size + g[r]
        BY <2>1, <3>2 DEF Totals
      <4> QED BY <4>2, <4>3
    <3> QED BY <3>1, <3>2
  <2> QED BY <2>1
<1>4. Cardinality(s) + 1 \in N
  <2>1. Nat \subseteq N
    <3> HIDE DEF N
    <3> QED BY <1>2, <1>3, NatSet
  <2> HIDE DEF N
  <2> QED BY <1>1, <2>1
<1> QED BY <1>1, <1>4

\* TotalSize takes one element at a time ...
LEMMA TotalStep ==
    ASSUME NEW ms, NEW S, IsFiniteSet(S)
    PROVE  TotalSize(ms, S) =
             IF S = {} THEN 0 ELSE ms[Pick(S)].size + TotalSize(ms, S \ {Pick(S)})
<1> DEFINE f == CHOOSE f : Totals(f, ms, S)
           T == S \ {Pick(S)}
           g == CHOOSE g : Totals(g, ms, T)
<1>1. Totals(f, ms, S)
  BY TotalsExist
<1>2. IsFiniteSet(T)
  BY FS_Subset
<1>3. Totals(g, ms, T)
  <2> HIDE DEF T
  <2> QED BY <1>2, TotalsExist
<1>4. TotalSize(ms, S) = f[S] /\ TotalSize(ms, T) = g[T]
  <2> HIDE DEF T
  <2> QED BY TotalIs
<1> HIDE DEF f, g
<1>5. f[T] = g[T]
  <2>1. T \in SUBSET S /\ T \subseteq T
    OBVIOUS
  <2> HIDE DEF T
  <2> QED BY <1>1, <1>2, <1>3, <2>1, TotalsAgree
<1>6. f[S] = IF S = {} THEN 0 ELSE ms[Pick(S)].size + f[T]
  BY <1>1 DEF Totals
<1> HIDE DEF T
<1> QED BY <1>4, <1>5, <1>6 DEF T

\* ... nothing of nothing ...
LEMMA TotalEmpty ==
    ASSUME NEW ms
    PROVE  TotalSize(ms, {}) = 0
BY FS_EmptySet, TotalStep

\* ... and whichever element comes first.
LEMMA TotalAny ==
    ASSUME NEW ms, NEW S, IsFiniteSet(S), \A x \in S : ms[x].size \in Nat
    PROVE  /\ TotalSize(ms, S) \in Nat
           /\ \A x \in S : TotalSize(ms, S) = ms[x].size + TotalSize(ms, S \ {x})
<1> DEFINE Total(s) == TotalSize(ms, s)
           Good(s) == Total(s) \in Nat /\ \A x \in s : Total(s) = ms[x].size + Total(s \ {x})
           N == {n \in Nat : \A s \in SUBSET S : Cardinality(s) < n => Good(s)}
<1>1. \A s \in SUBSET S : IsFiniteSet(s) /\ Cardinality(s) \in Nat
  BY FS_Subset, FS_CardinalityType
<1>2. 0 \in N
  BY <1>1
<1>3. ASSUME NEW n \in Nat, n \in N PROVE n + 1 \in N
  <2>1. ASSUME NEW s \in SUBSET S, Cardinality(s) < n + 1 PROVE Good(s)
    <3>1. CASE s = {}
      <4>1. Total(s) = 0
        BY <3>1, FS_EmptySet, TotalStep
      <4> HIDE DEF Total
      <4> QED BY <3>1, <4>1
    <3>2. CASE s # {}
      <4> DEFINE c == Pick(s)
      <4>1. c \in s /\ \A x \in s : Cardinality(s \ {x}) < n
        BY <1>1, <2>1, <3>2, PickOne, FS_RemoveElement
      <4>2. Total(s) = ms[c].size + Total(s \ {c})
        BY <1>1, <3>2, TotalStep
      <4>3. \A x \in s : Good(s \ {x})
        <5> HIDE DEF Good
        <5> QED BY <1>3, <4>1
      <4> HIDE DEF Total, c
      <4>4. ASSUME NEW x \in s, x # c PROVE Total(s) = ms[x].size + Total(s \ {x})
        <5>1. Total(s \ {c}) = ms[x].size + Total((s \ {c}) \ {x})
          BY <4>1, <4>3, <4>4
        <5>2. Total(s \ {x}) = ms[c].size + Total((s \ {x}) \ {c})
          BY <4>1, <4>3, <4>4
        <5>3. (s \ {c}) \ {x} = (s \ {x}) \ {c}
          OBVIOUS
        <5> DEFINE rest == Total((s \ {c}) \ {x})
        <5>4. rest = Total((s \ {x}) \ {c})
          BY <5>3
        <5>5. rest \in Nat /\ ms[x].size \in Nat /\ ms[c].size \in Nat
          <6>1. ms[x].size \in Nat /\ ms[c].size \in Nat
            BY <4>1
          <6>2. (s \ {c}) \ {x} \in SUBSET S
            OBVIOUS
          <6>3. Cardinality((s \ {c}) \ {x}) < n
            <7>1. s \ {c} \in SUBSET S /\ x \in s \ {c}
              BY <4>4
            <7>2. Cardinality((s \ {c}) \ {x}) = Cardinality(s \ {c}) - 1
              BY <1>1, <7>1, FS_RemoveElement
            <7> QED BY <1>1, <4>1, <6>2, <7>1, <7>2
          <6> HIDE DEF rest
          <6>4. Good((s \ {c}) \ {x})
            <7> HIDE DEF Good
            <7> QED BY <1>3, <6>2, <6>3
          <6> QED BY <6>1, <6>4 DEF rest
        <5> HIDE DEF rest
        <5> QED BY <4>2, <5>1, <5>2, <5>4, <5>5 DEF rest
      <4>5. Total(s) \in Nat
        BY <4>1, <4>2, <4>3
      <4> QED BY <4>2, <4>4, <4>5
    <3> QED BY <3>1, <3>2
  <2> HIDE DEF Good
  <2> QED BY <2>1
<1>4. Cardinality(S) + 1 \in N
  <2>1. Nat \subseteq N
    <3> HIDE DEF N
    <3> QED BY <1>2, <1>3, NatSet
  <2> HIDE DEF N
  <2> QED BY <1>1, <2>1
<1>5. Good(S)
  <2> HIDE DEF Good
  <2> QED BY <1>1, <1>4
<1> QED BY <1>5

\* So a part of the messages is no larger than the whole.
LEMMA TotalGrows ==
    ASSUME NEW ms, NEW T, IsFiniteSet(T), \A x \in T : ms[x].size \in Nat, NEW S \in SUBSET T
    PROVE  TotalSize(ms, S) <= TotalSize(ms, T)
<1> DEFINE Total(s) == TotalSize(ms, s)
           N == {n \in Nat : \A t \in SUBSET T : S \subseteq t /\ Cardinality(t) < n => Total(S) <= Total(t)}
<1>1. \A t \in SUBSET T : IsFiniteSet(t) /\ Cardinality(t) \in Nat
  BY FS_Subset, FS_CardinalityType
<1>2. \A t \in SUBSET T : Total(t) \in Nat /\ \A x \in t : Total(t) = ms[x].size + Total(t \ {x})
  BY <1>1, TotalAny
<1> HIDE DEF Total
<1>3. 0 \in N
  BY <1>1
<1>4. ASSUME NEW n \in Nat, n \in N PROVE n + 1 \in N
  <2>1. ASSUME NEW t \in SUBSET T, S \subseteq t, Cardinality(t) < n + 1 PROVE Total(S) <= Total(t)
    <3>1. CASE S = t
      BY <1>2, <3>1
    <3>2. CASE S # t
      <4>1. PICK x \in t : x \notin S
        BY <2>1, <3>2
      <4> DEFINE r == t \ {x}
      <4>2. r \in SUBSET T /\ S \subseteq r /\ Cardinality(r) < n
        BY <1>1, <2>1, <4>1, FS_RemoveElement
      <4>3. Total(S) <= Total(r)
        BY <1>4, <4>2
      <4>4. Total(t) = ms[x].size + Total(r) /\ ms[x].size \in Nat
        BY <1>2, <4>1
      <4> HIDE DEF r
      <4> QED BY <1>2, <4>2, <4>3, <4>4
    <3> QED BY <3>1, <3>2
  <2> QED BY <2>1
<1>5. Cardinality(T) + 1 \in N
  <2>1. Nat \subseteq N
    <3> HIDE DEF N
    <3> QED BY <1>3, <1>4, NatSet
  <2> HIDE DEF N
  <2> QED BY <1>1, <2>1
<1> QED BY <1>1, <1>5 DEF Total
-----------------------------------------------------------------------------
(* Groups of extracts.                                                     *)

\* The function by which extracts are grouped ...
Start == [groups |-> <<>>, current |-> <<>>]
Groupings(f, es) ==
    f = [s \in SUBSET (DOMAIN es) |->
          IF s = {} THEN Start ELSE Group(f[s \ {Max(s)}], es[Max(s)])]

\* ... is the one in the definition of Groups, ...
LEMMA GroupsAre ==
    ASSUME NEW es
    PROVE  LET acc == (CHOOSE f : Groupings(f, es))[DOMAIN es] IN
           Groups(es) = IF acc.current = <<>> THEN acc.groups ELSE Append(acc.groups, acc.current)
BY DEF Groups, FoldLeft, MapThenFoldSet, Groupings, Start

\* Max picks the largest element.
LEMMA MaxOfSome ==
    ASSUME NEW n \in Nat, NEW s \in SUBSET (1 .. n), s # {}
    PROVE  Max(s) \in s /\ \A x \in s : x <= Max(s)
<1> DEFINE N == {k \in Nat : \A t \in SUBSET (1 .. k) : t # {} => \E m \in t : \A x \in t : x <= m}
<1>1. 0 \in N
  <2>1. 1 .. 0 = {}
    OBVIOUS
  <2> QED BY <2>1
<1>2. ASSUME NEW k \in Nat, k \in N PROVE k + 1 \in N
  <2>1. ASSUME NEW t \in SUBSET (1 .. k + 1), t # {} PROVE \E m \in t : \A x \in t : x <= m
    <3>1. CASE k + 1 \in t
      BY <3>1
    <3>2. CASE k + 1 \notin t
      <4>1. t \in SUBSET (1 .. k)
        BY <3>2
      <4> QED BY <1>2, <2>1, <4>1
    <3> QED BY <3>1, <3>2
  <2> QED BY <2>1
<1>3. n \in N
  <2> HIDE DEF N
  <2> QED BY <1>1, <1>2, NatSet
<1>4. PICK m \in s : \A x \in s : x <= m
  BY <1>3
<1> QED BY <1>4 DEF Max

\* ... and exists, by induction on the number of extracts.
LEMMA GroupingsExist ==
    ASSUME NEW X, NEW es \in Seq(X)
    PROVE  \E f : Groupings(f, es)
<1> DEFINE n == Len(es)
           Body(f, s) == IF s = {} THEN Start ELSE Group(f[s \ {Max(s)}], es[Max(s)])
           Upto(f, k) == \A s \in SUBSET (1 .. n) : s \subseteq 1 .. k => f[s] = Body(f, s)
           N == {k \in Nat : \E f : Upto(f, k)}
<1>1. n \in Nat /\ DOMAIN es = 1 .. n
  OBVIOUS
<1> HIDE DEF n
<1>2. 0 \in N
  <2>1. Upto([s \in SUBSET (1 .. n) |-> Start], 0)
    <3>1. \A s \in SUBSET (1 .. n) : s \subseteq 1 .. 0 => s = {}
      BY <1>1
    <3> QED BY <3>1
  <2> HIDE DEF Upto
  <2> QED BY <2>1
<1>3. ASSUME NEW k \in Nat, k \in N PROVE k + 1 \in N
  <2>1. PICK f : Upto(f, k)
    BY <1>3
  <2> DEFINE g == [s \in SUBSET (1 .. n) |-> Body(f, s)]
  <2>2. ASSUME NEW s \in SUBSET (1 .. n), s \subseteq 1 .. k + 1 PROVE g[s] = Body(g, s)
    <3>1. CASE s = {}
      BY <3>1
    <3>2. CASE s # {}
      <4> DEFINE t == s \ {Max(s)}
      <4>1. Max(s) \in s /\ \A x \in s : x <= Max(s)
        BY <1>1, <3>2, MaxOfSome
      <4>2. t \in SUBSET (1 .. n) /\ t \subseteq 1 .. k
        <5> DEFINE m == Max(s)
        <5> HIDE DEF m
        <5>1. m \in s /\ \A x \in s : x <= m
          BY <4>1 DEF m
        <5>2. ASSUME NEW x \in s, x # m PROVE x \in 1 .. k
          BY <1>1, <2>2, <5>1, <5>2
        <5> QED BY <5>2 DEF m
      <4>3. f[t] = Body(f, t)
        <5> HIDE DEF Body, t
        <5> QED BY <2>1, <4>2
      <4>4. g[t] = Body(f, t) /\ g[s] = Body(f, s)
        <5> HIDE DEF Body, t
        <5> QED BY <4>2
      <4>5. f[t] = g[t]
        <5> HIDE DEF Body, g, t
        <5> QED BY <4>3, <4>4
      <4>6. Body(f, s) = Body(g, s)
        <5> HIDE DEF g
        <5> QED BY <3>2, <4>5
      <4> HIDE DEF Body, g
      <4> QED BY <4>4, <4>6
    <3> QED BY <3>1, <3>2
  <2>3. Upto(g, k + 1)
    <3> HIDE DEF g, Body
    <3> QED BY <2>2
  <2> HIDE DEF Upto
  <2> QED BY <2>3
<1>4. n \in N
  <2> HIDE DEF N
  <2> QED BY <1>1, <1>2, <1>3, NatSet
<1>5. PICK f : Upto(f, n)
  BY <1>4
<1> DEFINE g == [s \in SUBSET (1 .. n) |-> f[s]]
<1>6. ASSUME NEW s \in SUBSET (1 .. n) PROVE g[s] = Body(g, s)
  <2>1. g[s] = Body(f, s)
    BY <1>5
  <2>2. Body(f, s) = Body(g, s)
    <3>1. g[s \ {Max(s)}] = f[s \ {Max(s)}]
      OBVIOUS
    <3> HIDE DEF g
    <3> QED BY <3>1
  <2> HIDE DEF Body, g
  <2> QED BY <2>1, <2>2
<1>7. g = [s \in SUBSET (1 .. n) |-> Body(g, s)]
  <2>1. g = [s \in SUBSET (1 .. n) |-> g[s]]
    OBVIOUS
  <2> HIDE DEF g, Body
  <2> QED BY <1>6, <2>1
<1> HIDE DEF g
<1> QED BY <1>1, <1>7 DEF Groupings

\* One more extract stands for its turns besides.
LEMMA CoversAppend ==
    ASSUME NEW X, NEW es \in Seq(X), NEW e \in X
    PROVE  Covers(Append(es, e)) = Covers(es) \cup e.covers
<1>1. /\ DOMAIN Append(es, e) = DOMAIN es \cup {Len(es) + 1}
      /\ Append(es, e)[Len(es) + 1] = e
      /\ \A i \in DOMAIN es : Append(es, e)[i] = es[i]
  BY AppendProperties, LenProperties
<1> DEFINE fs == Append(es, e)
<1>2. ASSUME NEW x \in Covers(fs) PROVE x \in Covers(es) \cup e.covers
  <2>1. PICK i \in DOMAIN fs : x \in fs[i].covers
    BY DEF Covers
  <2> HIDE DEF fs
  <2> QED BY <1>1, <2>1 DEF Covers, fs
<1>3. ASSUME NEW x \in Covers(es) \cup e.covers PROVE x \in Covers(fs)
  <2>1. CASE x \in e.covers
    BY <1>1, <2>1 DEF Covers
  <2>2. CASE x \in Covers(es)
    <3>1. PICK i \in DOMAIN es : x \in es[i].covers
      BY <2>2 DEF Covers
    <3> QED BY <1>1, <3>1 DEF Covers
  <2> QED BY <1>3, <2>1, <2>2
<1> HIDE DEF fs
<1> QED BY <1>2, <1>3 DEF fs

\* A merge request stands for the turns of its extracts, and one extract fits.
LEMMA MergedIs ==
    ASSUME NEW es \in Seq(Extracted)
    PROVE  /\ Merged(es) \in Part
           /\ Merged(es).covers = Covers(es)
           /\ \A e \in Extracted : es = <<e>> => Merged(es).size <= Budget
<1>1. IsFiniteSet(DOMAIN es) /\ \A i \in DOMAIN es : es[i] \in Extracted
  BY LenProperties, FS_Interval
<1>2. \A i \in DOMAIN es : es[i].size \in Nat
  BY <1>1, CompactionAssumption DEF Extracted
<1>3. TotalSize(es, DOMAIN es) \in Nat
  BY <1>1, <1>2, TotalAny
<1>4. Covers(es) \in SUBSET Nat
  BY <1>1 DEF Covers, Extracted
<1>5. Merged(es) = [covers |-> Covers(es), size |-> FixedHandoff + TotalSize(es, DOMAIN es)]
  BY DEF Merged, Covers
<1>6. FixedHandoff \in Nat
  BY CompactionAssumption
<1>7. ASSUME NEW e \in Extracted, es = <<e>> PROVE Merged(es).size <= Budget
  <2>1. DOMAIN es = {1} /\ es[1] = e /\ e.size \in NoteSizes
    BY <1>7 DEF Extracted
  <2>2. TotalSize(es, {1}) = e.size + TotalSize(es, {})
    <3>1. TotalSize(es, {1}) = es[1].size + TotalSize(es, {1} \ {1})
      BY <1>1, <1>2, <2>1, TotalAny
    <3> QED BY <2>1, <3>1
  <2>3. e.size \in Nat /\ FixedHandoff + e.size <= Budget
    BY <2>1, CompactionAssumption
  <2> QED BY <1>5, <2>1, <2>2, <2>3, TotalEmpty
<1> QED BY <1>3, <1>4, <1>5, <1>6, <1>7 DEF Part

\* The turns of all groups.
AllCovers(groups) == UNION {Covers(groups[i]) : i \in DOMAIN groups}

\* One more group stands for its turns besides.
LEMMA AllCoversAppend ==
    ASSUME NEW X, NEW groups \in Seq(X), NEW g \in X
    PROVE  AllCovers(Append(groups, g)) = AllCovers(groups) \cup Covers(g)
<1> DEFINE gs == Append(groups, g)
<1>1. /\ DOMAIN gs = DOMAIN groups \cup {Len(groups) + 1}
      /\ gs[Len(groups) + 1] = g
      /\ \A i \in DOMAIN groups : gs[i] = groups[i]
  BY AppendProperties, LenProperties
<1> HIDE DEF gs
<1>2. ASSUME NEW x \in AllCovers(gs) PROVE x \in AllCovers(groups) \cup Covers(g)
  <2>1. PICK i \in DOMAIN gs : x \in Covers(gs[i])
    BY DEF AllCovers
  <2> QED BY <1>1, <2>1 DEF AllCovers
<1>3. ASSUME NEW x \in AllCovers(groups) \cup Covers(g) PROVE x \in AllCovers(gs)
  <2>1. CASE x \in Covers(g)
    BY <1>1, <2>1 DEF AllCovers
  <2>2. CASE x \in AllCovers(groups)
    <3>1. PICK i \in DOMAIN groups : x \in Covers(groups[i])
      BY <2>2 DEF AllCovers
    <3> QED BY <1>1, <3>1 DEF AllCovers
  <2> QED BY <1>3, <2>1, <2>2
<1> QED BY <1>2, <1>3 DEF gs

\* What holds of the groups made so far, for turns C.
Grouped(acc, C) ==
    /\ acc \in [groups : Seq(Seq(Extracted)), current : Seq(Extracted)]
    /\ \A i \in DOMAIN acc.groups : Merged(acc.groups[i]).size <= Budget
    /\ acc.current # <<>> => Merged(acc.current).size <= Budget
    /\ AllCovers(acc.groups) \cup Covers(acc.current) = C

\* One more extract, in the current group or in a new one.
LEMMA GroupStep ==
    ASSUME NEW C, NEW acc, Grouped(acc, C), NEW e \in Extracted
    PROVE  Grouped(Group(acc, e), C \cup e.covers)
<1> DEFINE more == Append(acc.current, e)
           rest == Append(acc.groups, acc.current)
<1>1. /\ acc = [groups |-> acc.groups, current |-> acc.current]
      /\ acc.groups \in Seq(Seq(Extracted)) /\ acc.current \in Seq(Extracted)
  BY DEF Grouped
<1>2. more \in Seq(Extracted) /\ Covers(more) = Covers(acc.current) \cup e.covers
  BY <1>1, CoversAppend
<1>3. <<e>> \in Seq(Extracted) /\ Covers(<<e>>) = e.covers /\ Merged(<<e>>).size <= Budget
  <2>1. <<e>> \in Seq(Extracted)
    OBVIOUS
  <2>2. Covers(<<e>>) = e.covers
    BY DEF Covers
  <2>3. Merged(<<e>>).size <= Budget
    BY <2>1, MergedIs
  <2> QED BY <2>1, <2>2, <2>3
<1>4. CASE Fits(Merged(more).size)
  <2>1. Group(acc, e) = [groups |-> acc.groups, current |-> more]
    BY <1>1, <1>4 DEF Group
  <2> HIDE DEF more
  <2> QED BY <1>1, <1>2, <1>4, <2>1 DEF Grouped, Fits
<1>5. CASE ~Fits(Merged(more).size)
  <2>1. Group(acc, e) = [groups |-> rest, current |-> <<e>>]
    BY <1>5 DEF Group
  <2>2. acc.current # <<>>
    <3>1. acc.current = <<>> => more = <<e>>
      OBVIOUS
    <3> QED BY <1>3, <1>5, <3>1 DEF Fits
  <2>3. rest \in Seq(Seq(Extracted)) /\ AllCovers(rest) = AllCovers(acc.groups) \cup Covers(acc.current)
    BY <1>1, AllCoversAppend
  <2>4. \A i \in DOMAIN rest : Merged(rest[i]).size <= Budget
    <3>1. /\ DOMAIN rest = DOMAIN acc.groups \cup {Len(acc.groups) + 1}
          /\ rest[Len(acc.groups) + 1] = acc.current
          /\ \A i \in DOMAIN acc.groups : rest[i] = acc.groups[i]
      BY <1>1, AppendProperties, LenProperties
    <3> HIDE DEF rest
    <3> QED BY <2>2, <3>1 DEF Grouped
  <2>5. AllCovers(acc.groups) \cup Covers(acc.current) = C
    BY DEF Grouped
  <2> HIDE DEF rest
  <2> QED BY <1>3, <2>1, <2>3, <2>4, <2>5 DEF Grouped
<1> QED BY <1>4, <1>5

\* _bounded_handoff_groups: every group fits a request, and no extract is lost.
LEMMA GroupsKeepAll ==
    ASSUME NEW es \in Seq(Extracted)
    PROVE  /\ Groups(es) \in Seq(Seq(Extracted))
           /\ \A i \in DOMAIN Groups(es) : Merged(Groups(es)[i]).size <= Budget
           /\ AllCovers(Groups(es)) = Covers(es)
<1> DEFINE f == CHOOSE f : Groupings(f, es)
           n == Len(es)
           C(k) == UNION {es[i].covers : i \in 1 .. k}
           N == {k \in Nat : k <= n => Grouped(f[1 .. k], C(k))}
<1>1. Groupings(f, es)
  BY GroupingsExist
<1>2. n \in Nat /\ DOMAIN es = 1 .. n /\ \A i \in 1 .. n : es[i] \in Extracted
  BY LenProperties
<1> HIDE DEF f
<1>3. 0 \in N
  <2>1. f[1 .. 0] = Start
    BY <1>1 DEF Groupings
  <2>2. C(0) = {}
    OBVIOUS
  <2>3. Grouped(Start, {})
    BY DEF Grouped, Start, AllCovers, Covers
  <2> HIDE DEF C
  <2> QED BY <2>1, <2>2, <2>3
<1> HIDE DEF n
<1>4. ASSUME NEW k \in Nat, k \in N PROVE k + 1 \in N
  <2>1. SUFFICES ASSUME k + 1 <= n PROVE Grouped(f[1 .. k + 1], C(k + 1))
    OBVIOUS
  <2>2. Grouped(f[1 .. k], C(k))
    BY <1>2, <1>4, <2>1
  <2>3. f[1 .. k + 1] = Group(f[1 .. k], es[k + 1])
    <3> DEFINE s == 1 .. k + 1
    <3>1. s \in SUBSET (1 .. n) /\ s # {} /\ k + 1 \in s
      BY <1>2, <2>1
    <3>2. Max(s) = k + 1
      <4> DEFINE m == Max(s)
      <4> HIDE DEF m
      <4>1. m \in s /\ \A x \in s : x <= m
        BY <1>2, <3>1, MaxOfSome DEF m
      <4> QED BY <3>1, <4>1 DEF m
    <3>3. s \ {k + 1} = 1 .. k
      OBVIOUS
    <3>4. f[s] = Group(f[s \ {Max(s)}], es[Max(s)])
      <4> HIDE DEF s
      <4> QED BY <1>1, <1>2, <3>1 DEF Groupings
    <3> QED BY <3>2, <3>3, <3>4
  <2>4. es[k + 1] \in Extracted
    BY <1>2, <2>1
  <2>5. C(k + 1) = C(k) \cup es[k + 1].covers
    <3>1. 1 .. k + 1 = (1 .. k) \cup {k + 1}
      OBVIOUS
    <3> QED BY <3>1
  <2> HIDE DEF C
  <2> QED BY <2>2, <2>3, <2>4, <2>5, GroupStep
<1>5. n \in N
  <2> HIDE DEF N
  <2> QED BY <1>2, <1>3, <1>4, NatSet
<1> DEFINE acc == f[1 .. n]
<1>6. Grouped(acc, Covers(es))
  <2>1. C(n) = Covers(es)
    BY <1>2 DEF Covers
  <2> HIDE DEF C
  <2> QED BY <1>2, <1>5, <2>1
<1>7. Groups(es) = IF acc.current = <<>> THEN acc.groups ELSE Append(acc.groups, acc.current)
  BY <1>2, GroupsAre DEF f
<1> HIDE DEF acc
<1>8. CASE acc.current = <<>>
  BY <1>6, <1>7, <1>8 DEF Grouped, Covers
<1>9. CASE acc.current # <<>>
  <2> DEFINE rest == Append(acc.groups, acc.current)
  <2>1. acc.groups \in Seq(Seq(Extracted)) /\ acc.current \in Seq(Extracted)
    BY <1>6 DEF Grouped
  <2>2. rest \in Seq(Seq(Extracted)) /\ AllCovers(rest) = AllCovers(acc.groups) \cup Covers(acc.current)
    BY <2>1, AllCoversAppend
  <2>3. /\ DOMAIN rest = DOMAIN acc.groups \cup {Len(acc.groups) + 1}
        /\ rest[Len(acc.groups) + 1] = acc.current
        /\ \A i \in DOMAIN acc.groups : rest[i] = acc.groups[i]
    BY <2>1, AppendProperties, LenProperties
  <2> HIDE DEF rest
  <2>4. \A i \in DOMAIN rest : Merged(rest[i]).size <= Budget
    BY <1>6, <1>9, <2>3 DEF Grouped
  <2>5. AllCovers(acc.groups) \cup Covers(acc.current) = Covers(es)
    BY <1>6 DEF Grouped
  <2>6. Groups(es) = rest
    BY <1>7, <1>9 DEF rest
  <2> QED BY <2>2, <2>4, <2>5, <2>6
<1> QED BY <1>8, <1>9
-----------------------------------------------------------------------------
(* What the requests are made of.                                          *)

\* Messages are known by their ordinals, and their sizes add up.
LEMMA OrdinalFacts ==
    ASSUME TypeOK
    PROVE  /\ Len(messages) \in Nat /\ Ordinals = 1 .. Len(messages) /\ IsFiniteSet(Ordinals)
           /\ \A i \in Ordinals : messages[i] \in Message /\ messages[i].size \in Nat
           /\ \A S \in SUBSET Ordinals : Size(S) \in Nat
           /\ \A T \in SUBSET Ordinals : \A S \in SUBSET T : Size(S) <= Size(T)
<1>1. messages \in Seq(Message)
  BY DEF TypeOK
<1>2. Len(messages) \in Nat /\ Ordinals = 1 .. Len(messages) /\ IsFiniteSet(Ordinals)
  BY <1>1, LenProperties, FS_Interval DEF Ordinals
<1>3. \A i \in Ordinals : messages[i] \in Message /\ messages[i].size \in Nat
  <2>1. Sizes \subseteq Nat
    BY CompactionAssumption
  <2>2. \A i \in Ordinals : messages[i] \in Message
    BY <1>1, ElementOfSeq DEF Ordinals
  <2> QED BY <2>1, <2>2 DEF Message
<1>4. ASSUME NEW T \in SUBSET Ordinals
      PROVE  Size(T) \in Nat /\ \A S \in SUBSET T : Size(S) <= Size(T)
  <2>1. IsFiniteSet(T) /\ \A x \in T : messages[x].size \in Nat
    BY <1>2, <1>3, FS_Subset
  <2>2. TotalSize(messages, T) \in Nat
    BY <2>1, TotalAny
  <2>3. \A S \in SUBSET T : TotalSize(messages, S) <= TotalSize(messages, T)
    BY <2>1, TotalGrows
  <2> QED BY <2>2, <2>3 DEF Size
<1> QED BY <1>2, <1>3, <1>4

\* What no summary stands for yet.
LEMMA AfterIs ==
    ASSUME TypeOK, SummaryIsExact
    PROVE  /\ After(0) = summary.through + 1 .. Len(messages)
           /\ summary.through \in Nat /\ summary.through <= Len(messages)
           /\ Cardinality(After(0)) = Len(messages) - summary.through
<1>1. summary.through \in Nat /\ MinRecent \in Nat
  BY CompactionAssumption DEF TypeOK, Note
<1>2. Len(messages) \in Nat /\ Ordinals = 1 .. Len(messages)
  BY OrdinalFacts
<1>3. Max({0, summary.through}) = summary.through
  BY <1>1 DEF Max
<1>4. After(0) = summary.through + 1 .. Len(messages)
  BY <1>1, <1>2, <1>3 DEF After
<1>5. summary.through <= Len(messages)
  BY <1>1, <1>2 DEF SummaryIsExact
<1>6. Cardinality(summary.through + 1 .. Len(messages)) = Len(messages) - summary.through
  <2>1. \A a, b \in Int : Cardinality(a .. b) = IF a > b THEN 0 ELSE b - a + 1
    BY FS_Interval
  <2>2. summary.through + 1 \in Int /\ Len(messages) \in Int
    BY <1>1, <1>2
  <2> DEFINE size == Cardinality(summary.through + 1 .. Len(messages))
  <2>3. size = IF summary.through + 1 > Len(messages) THEN 0
               ELSE Len(messages) - (summary.through + 1) + 1
    BY <2>1, <2>2
  <2> HIDE DEF size
  <2>4. size = Len(messages) - summary.through
    BY <1>1, <1>2, <1>5, <2>3
  <2> QED BY <2>4 DEF size
<1> QED BY <1>1, <1>4, <1>5, <1>6

\* A longer stretch makes a larger request.
LEMMA LongerIsLarger ==
    ASSUME TypeOK, NEW d \in Nat
    PROVE  /\ SummarySize(d) \in Nat
           /\ \A c \in Nat : c < d => SummarySize(c) <= SummarySize(d)
<1> DEFINE stretch(c) == {i \in After(0) : i <= c}
<1>1. stretch(d) \in SUBSET Ordinals /\ \A i \in Ordinals : i \in Nat
  BY OrdinalFacts DEF After
<1>2. \A c \in Nat : c < d => stretch(c) \in SUBSET stretch(d)
  BY <1>1 DEF After
<1>3. \A c : SummarySize(c) = FixedSummary + summary.size + Size(stretch(c))
  BY DEF SummarySize
<1>4. FixedSummary \in Nat /\ summary.size \in Nat
  BY CompactionAssumption DEF TypeOK, Note
<1>0. stretch(d) \in SUBSET Ordinals
  BY <1>1
<1> HIDE DEF stretch
<1>5. \A c \in Nat : c < d => Size(stretch(c)) \in Nat /\ Size(stretch(c)) <= Size(stretch(d))
  BY <1>1, <1>2, OrdinalFacts
<1>6. Size(stretch(d)) \in Nat
  BY <1>1, OrdinalFacts
<1> QED BY <1>3, <1>4, <1>5, <1>6

\* The latest turns stay as they are.
LEMMA RetainedIs ==
    ASSUME NEW n \in Nat
    PROVE  /\ Retained(n) \in Nat /\ Retained(n) >= MinRecent
           /\ n > MinRecent => n > Retained(n)
BY CompactionAssumption DEF Retained

\* A user's turn has its place among them.
LEMMA PlaceIn ==
    ASSUME TypeOK
    PROVE  /\ Cardinality(UserOrdinals) \in Nat /\ UserOrdinals \subseteq Ordinals
           /\ UserTurns(1, Cardinality(UserOrdinals)) = UserOrdinals
<1>1. Ordinals = 1 .. Len(messages) /\ IsFiniteSet(Ordinals) /\ Len(messages) \in Nat
  BY OrdinalFacts
<1>2. UserOrdinals \subseteq Ordinals /\ IsFiniteSet(UserOrdinals)
  BY <1>1, FS_Subset DEF UserOrdinals
<1>3. Cardinality(UserOrdinals) \in Nat
  BY <1>2, FS_CardinalityType
<1>4. ASSUME NEW i \in UserOrdinals PROVE Place(i) \in 1 .. Cardinality(UserOrdinals)
  <2> DEFINE S == {j \in 1 .. i : messages[j].role = "user"}
  <2>1. S \subseteq UserOrdinals /\ i \in S
    BY <1>1, <1>2 DEF UserOrdinals
  <2>2. IsFiniteSet(S) /\ Cardinality(S) \in Nat /\ Cardinality(S) <= Cardinality(UserOrdinals)
    BY <1>2, <2>1, FS_Subset, FS_CardinalityType
  <2>3. Cardinality(S) # 0
    BY <2>1, <2>2, FS_EmptySet
  <2>4. Place(i) = Cardinality(S)
    BY DEF Place
  <2> HIDE DEF S
  <2> QED BY <1>3, <2>2, <2>3, <2>4
<1> QED BY <1>2, <1>3, <1>4 DEF UserTurns

\* A request for some of them.
LEMMA TurnsFacts ==
    ASSUME TypeOK, NEW from \in Nat, NEW end \in Nat
    PROVE  UserTurns(from, end) \in SUBSET Nat /\ HandoffSize(from, end) \in Nat
<1>1. UserTurns(from, end) \in SUBSET Ordinals
  BY PlaceIn DEF UserTurns
<1>2. Size(UserTurns(from, end)) \in Nat /\ \A i \in Ordinals : i \in Nat
  BY <1>1, OrdinalFacts
<1>3. FixedHandoff \in Nat
  BY CompactionAssumption
<1> QED BY <1>1, <1>2, <1>3 DEF HandoffSize

\* A chat request has every turn in it.
LEMMA ChatFacts ==
    ASSUME TypeOK, SummaryIsExact
    PROVE  /\ summary.covers \cup After(0) = Ordinals
           /\ ChatSize(0) \in Nat
<1>1. /\ After(0) = summary.through + 1 .. Len(messages)
      /\ summary.through \in Nat /\ summary.through <= Len(messages)
  BY AfterIs
<1>2. Ordinals = 1 .. Len(messages) /\ Len(messages) \in Nat
  BY OrdinalFacts
<1>3. summary.covers \cup After(0) = Ordinals
  BY <1>1, <1>2 DEF SummaryIsExact
<1>4. Size(After(0)) \in Nat
  BY <1>3, OrdinalFacts
<1>5. FixedChat \in Nat /\ summary.size \in Nat
  BY CompactionAssumption DEF TypeOK, Note
<1> QED BY <1>3, <1>4, <1>5 DEF ChatSize
-----------------------------------------------------------------------------
(* The steps.                                                              *)

\* An empty conversation.
LEMMA InitInv == Init => IInv
<1> SUFFICES ASSUME Init PROVE IInv
  OBVIOUS
<1>1. /\ messages = <<>> /\ summary = NoSummary /\ status = "none" /\ run = NoRun
      /\ Budget \in Nat
  BY CompactionAssumption DEF Init
<1>2. TypeOK
  BY <1>1 DEF TypeOK, NoSummary, NoRun, Note, Runs
<1>3. SummaryIsExact
  BY <1>1 DEF SummaryIsExact, NoSummary
<1>4. PhaseInv /\ CutoffInv /\ NoteInv /\ HandoffInv /\ SizeInv /\ ModelSeesEverything
  BY <1>1 DEF PhaseInv, CutoffInv, NoteInv, HandoffInv, SizeInv, ModelSeesEverything, NoRun,
              ChatPhases, HandoffPhases
<1> QED BY <1>2, <1>3, <1>4 DEF IInv

\* The run is over or begins, with or without another message.
LEMMA ResetStep ==
    ASSUME IInv,
           \/ status' = "none" /\ run' = NoRun
           \/ /\ status' = "running"
              /\ \E kind \in {"chat", "handoff"} :
                    run' = [NoRun EXCEPT !.pc = "compose", !.kind = kind],
           messages' = messages \/ \E m \in Message : messages' = Append(messages, m),
           UNCHANGED summary
    PROVE  IInv'
<1>1. /\ run'.pc \in {"none", "compose"} /\ run'.size = 0
      /\ run'.pc = "none" <=> status' = "none"
      /\ run'.todo = <<>> /\ run'.extracts = <<>> /\ run'.from = 1
      /\ run' \in Runs
  <2>1. PICK p \in {"none", "compose"}, k \in {"none", "chat", "handoff"} :
          /\ run' = [pc |-> p, kind |-> k, cutoff |-> 0, note |-> NoSummary, todo |-> <<>>,
                     extracts |-> <<>>, from |-> 1, sent |-> {}, size |-> 0]
          /\ p = "none" <=> status' = "none"
    BY DEF NoRun
  <2>2. NoSummary \in Note
    BY DEF NoSummary, Note
  <2>3. <<>> \in Seq(Part) /\ <<>> \in Seq(Extracted)
    OBVIOUS
  <2> QED BY <2>1, <2>2, <2>3 DEF Runs
<1>2. /\ messages' \in Seq(Message) /\ Len(messages) \in Nat /\ Len(messages') \in Nat
      /\ Len(messages') >= Len(messages)
  <2>1. messages \in Seq(Message)
    BY DEF IInv, TypeOK
  <2> QED BY <2>1, AppendProperties, LenProperties
<1>3. TypeOK'
  BY <1>1, <1>2 DEF IInv, TypeOK
<1>4. SummaryIsExact'
  <2>1. summary' = summary /\ summary.through \in Nat /\ MinRecent \in Nat
    BY CompactionAssumption DEF IInv, TypeOK, Note
  <2> QED BY <1>2, <2>1 DEF IInv, SummaryIsExact
<1>5. /\ PhaseInv' /\ CutoffInv' /\ NoteInv' /\ HandoffInv' /\ ModelSeesEverything'
  BY <1>1 DEF PhaseInv, CutoffInv, NoteInv, HandoffInv, ModelSeesEverything,
              ChatPhases, HandoffPhases
<1>6. SizeInv'
  <2>1. Budget \in Nat
    BY CompactionAssumption
  <2> QED BY <1>1, <2>1 DEF SizeInv, HandoffPhases
<1> QED BY <1>3, <1>4, <1>5, <1>6 DEF IInv

\* What requests are made of stays the same.
LEMMA SameRequests ==
    ASSUME UNCHANGED <<messages, summary>>
    PROVE  /\ (After(0))' = After(0) /\ Ordinals' = Ordinals /\ UserOrdinals' = UserOrdinals
           /\ \A c : (SummarySize(c))' = SummarySize(c)
           /\ \A from, end : (UserTurns(from, end))' = UserTurns(from, end)
           /\ SummaryIsExact' = SummaryIsExact
<1>1. (After(0))' = After(0) /\ Ordinals' = Ordinals /\ UserOrdinals' = UserOrdinals
  BY DEF After, Ordinals, UserOrdinals
<1>2. \A S : (Size(S))' = Size(S)
  BY DEF Size
<1>3. \A c : (SummarySize(c))' = SummarySize(c)
  BY <1>1, <1>2 DEF SummarySize
<1>4. \A i : (Place(i))' = Place(i)
  BY DEF Place
<1>5. \A from, end : (UserTurns(from, end))' = UserTurns(from, end)
  BY <1>1, <1>4 DEF UserTurns
<1>6. SummaryIsExact' = SummaryIsExact
  BY DEF SummaryIsExact
<1> QED BY <1>1, <1>3, <1>5, <1>6

\* A step of the task that changes only its own variables.
LEMMA RunStep ==
    ASSUME IInv, UNCHANGED <<messages, summary, status>>, run.pc # "none",
           run' \in Runs, run'.pc # "none", run'.kind = run.kind,
           run'.pc \in ChatPhases => run.kind = "chat",
           run'.pc \in HandoffPhases => run.kind = "handoff",
           CutoffInv', NoteInv', HandoffInv', SizeInv', ModelSeesEverything'
    PROVE  IInv'
<1>1. TypeOK'
  BY DEF IInv, TypeOK
<1>2. PhaseInv'
  BY DEF IInv, PhaseInv
<1>3. SummaryIsExact'
  BY SameRequests DEF IInv
<1> QED BY <1>1, <1>2, <1>3 DEF IInv

\* The chat request is composed.
LEMMA ChatRequestStep ==
    ASSUME IInv, run.pc # "none", run.kind = "chat", Fits(ChatSize(0)), run' = ChatRequest,
           UNCHANGED <<messages, summary, status>>
    PROVE  IInv'
<1> DEFINE sent == summary.covers \cup After(0)
           size == ChatSize(0)
<1>1. run \in Runs
  BY DEF IInv, TypeOK
<1>2. sent = Ordinals /\ sent \in SUBSET Nat /\ size \in Nat /\ size <= Budget
  BY ChatFacts, OrdinalFacts DEF IInv, Fits
<1>3. run' = [run EXCEPT !.pc = "respond", !.sent = sent, !.size = size]
  BY DEF ChatRequest
<1> HIDE DEF sent, size
<1>4. run' \in Runs /\ run'.pc = "respond" /\ run'.kind = "chat" /\ run'.sent = sent /\ run'.size = size
  BY <1>1, <1>2, <1>3 DEF Runs
<1>5. CutoffInv' /\ NoteInv' /\ HandoffInv' /\ SizeInv'
  BY <1>2, <1>4 DEF CutoffInv, NoteInv, HandoffInv, SizeInv, HandoffPhases
<1>6. ModelSeesEverything'
  BY <1>2, <1>4, SameRequests DEF ModelSeesEverything
<1> QED BY <1>4, <1>5, <1>6, RunStep DEF ChatPhases, HandoffPhases

\* Candidates are going to be selected.
LEMMA SelectStep ==
    ASSUME IInv, run.pc # "none", run.kind = "chat", run' = [run EXCEPT !.pc = "select"],
           UNCHANGED <<messages, summary, status>>
    PROVE  IInv'
<1>1. run \in Runs
  BY DEF IInv, TypeOK
<1>2. run' \in Runs /\ run'.pc = "select" /\ run'.kind = "chat" /\ run'.size = run.size
  BY <1>1 DEF Runs, ChatPhases
<1>3. CutoffInv' /\ NoteInv' /\ HandoffInv' /\ SizeInv' /\ ModelSeesEverything'
  BY <1>2 DEF IInv, CutoffInv, NoteInv, HandoffInv, SizeInv, ModelSeesEverything, HandoffPhases
<1> QED BY <1>2, <1>3, RunStep DEF ChatPhases, HandoffPhases

\* A run that ends.
LEMMA FailStep ==
    ASSUME IInv, Fail, UNCHANGED <<messages, summary>>
    PROVE  IInv'
BY ResetStep DEF Fail

\* The request, or what is to be summarised first, or a floor too large.
LEMMA ComposeChatStep ==
    ASSUME IInv, ComposeChat
    PROVE  IInv'
<1>1. run.pc = "compose" /\ run.kind = "chat" /\ UNCHANGED <<messages, summary>>
  BY DEF ComposeChat
<1>2. CASE Fits(ChatSize(0)) /\ run' = ChatRequest /\ UNCHANGED status
  BY <1>1, <1>2, ChatRequestStep
<1>3. CASE run' = [run EXCEPT !.pc = "select"] /\ UNCHANGED status
  BY <1>1, <1>3, SelectStep
<1>4. CASE Fail
  BY <1>1, <1>4, FailStep
<1> QED BY <1>2, <1>3, <1>4 DEF ComposeChat

\* The request after a summary.
LEMMA RecomposeStep ==
    ASSUME IInv, Recompose
    PROVE  IInv'
<1>1. run.pc = "recompose" /\ run.kind = "chat" /\ UNCHANGED <<messages, summary, status>>
  BY DEF Recompose, IInv, PhaseInv, ChatPhases
<1>2. CASE Fits(ChatSize(0))
  BY <1>1, <1>2, ChatRequestStep DEF Recompose
<1>3. CASE ~Fits(ChatSize(0))
  BY <1>1, <1>3, SelectStep DEF Recompose
<1> QED BY <1>2, <1>3

\* The binary search finds the longest stretch, as longer ones are larger.
LEMMA SelectCandidatesStep ==
    ASSUME IInv, SelectCandidates
    PROVE  IInv'
<1> DEFINE n == Cardinality(After(0))
           low == summary.through + 1
           last == Len(messages) - Retained(n)
           fitting == {c \in low .. last : Fits(SummarySize(c))}
           cutoff == LargestFitting(low, last, fitting)
<1>1. /\ run.pc = "select" /\ UNCHANGED <<messages, summary>>
      /\ IF n <= MinRecent \/ cutoff = 0 THEN Fail
         ELSE run' = [run EXCEPT !.pc = "summarise", !.cutoff = cutoff] /\ UNCHANGED status
  BY DEF SelectCandidates
<1>2. CASE n <= MinRecent \/ cutoff = 0
  BY <1>1, <1>2, FailStep
<1>3. CASE ~(n <= MinRecent \/ cutoff = 0)
  <2>1. run' = [run EXCEPT !.pc = "summarise", !.cutoff = cutoff] /\ UNCHANGED status
    BY <1>1, <1>3
  <2>2. /\ n = Len(messages) - summary.through
        /\ summary.through \in Nat /\ Len(messages) \in Nat /\ summary.through <= Len(messages)
        /\ MinRecent \in Nat
    BY AfterIs, OrdinalFacts, CompactionAssumption DEF IInv
  <2> HIDE DEF n
  <2>3. n \in Nat /\ n > MinRecent
    BY <1>3, <2>2
  <2>4. Retained(n) \in Nat /\ Retained(n) >= MinRecent /\ n > Retained(n)
    BY <2>3, RetainedIs
  <2>5. low \in Nat \ {0} /\ last \in Nat /\ low <= last /\ last <= Len(messages) - MinRecent
    BY <2>2, <2>3, <2>4
  <2>6. ASSUME NEW c \in low .. last, NEW d \in low .. last, c < d, d \in fitting
        PROVE  c \in fitting
    <3>1. c \in Nat /\ d \in Nat
      BY <2>5
    <3>2. SummarySize(c) <= SummarySize(d) /\ SummarySize(d) \in Nat /\ SummarySize(c) \in Nat
      BY <2>6, <3>1, LongerIsLarger DEF IInv
    <3>3. Budget \in Nat
      BY CompactionAssumption
    <3> QED BY <2>6, <3>2, <3>3 DEF Fits
  <2>7. /\ cutoff \in {0} \cup (fitting \cap low .. last)
        /\ \A c \in low .. last : c > cutoff => c \notin fitting
    <3> HIDE DEF low, last, fitting
    <3> QED BY <2>5, <2>6, LargestFittingFinds
  <2> HIDE DEF cutoff
  <2>8. cutoff \in fitting /\ cutoff \in low .. last
    BY <1>3, <2>7
  <2>9. cutoff \in Nat
    BY <2>5, <2>8
  <2>10. run' \in Runs /\ run'.pc = "summarise" /\ run'.kind = run.kind /\ run'.cutoff = cutoff
         /\ run'.size = run.size
    BY <2>1, <2>9 DEF IInv, TypeOK, Runs, ChatPhases
  <2>11. CutoffInv'
    <3>1. cutoff \in summary.through + 1 .. Len(messages) - MinRecent
      BY <2>2, <2>5, <2>8
    <3>2. SummarySize(cutoff) <= Budget
      BY <2>8 DEF Fits
    <3>3. ASSUME NEW c \in cutoff + 1 .. last PROVE SummarySize(c) > Budget
      <4>1. c \in low .. last /\ c > cutoff /\ c \in Nat
        BY <2>5, <2>8
      <4>2. ~Fits(SummarySize(c))
        BY <2>7, <4>1
      <4>3. SummarySize(c) \in Nat /\ Budget \in Nat
        BY <4>1, LongerIsLarger, CompactionAssumption DEF IInv
      <4> QED BY <4>2, <4>3 DEF Fits
    <3>4. /\ Len(messages') = Len(messages) /\ summary' = summary
          /\ (After(0))' = After(0) /\ \A c : (SummarySize(c))' = SummarySize(c)
      BY <1>1, SameRequests
    <3>5. (SummarySize(run.cutoff))' = SummarySize(cutoff)
      <4>1. summary' = summary /\ messages' = messages
        BY <1>1
      <4> QED BY <2>10, <4>1 DEF SummarySize, Size, After, Ordinals
    <3>6. (Retained(Cardinality(After(0))))' = Retained(n)
      BY <3>4 DEF n, Retained
    <3> QED
      BY <2>10, <3>1, <3>2, <3>3, <3>4, <3>5, <3>6 DEF CutoffInv
  <2>12. NoteInv' /\ HandoffInv' /\ SizeInv' /\ ModelSeesEverything'
    BY <2>10 DEF IInv, NoteInv, HandoffInv, SizeInv, ModelSeesEverything, HandoffPhases
  <2>13. run.kind = "chat"
    BY <1>1 DEF IInv, PhaseInv, ChatPhases
  <2> QED BY <1>1, <2>1, <2>10, <2>11, <2>12, <2>13, RunStep DEF HandoffPhases
<1> QED BY <1>2, <1>3

\* The summary is of all turns up to the cutoff, those summarised before included.
LEMMA SummarisedStep ==
    ASSUME IInv, NEW size \in NoteSizes, Summarised(size)
    PROVE  IInv'
<1> DEFINE note == [through |-> run.cutoff, size |-> size,
                    covers |-> summary.covers \cup {i \in After(0) : i <= run.cutoff}]
<1>1. /\ run.pc = "summarise" /\ UNCHANGED <<messages, summary, status>>
      /\ run' = [run EXCEPT !.pc = "check", !.note = note]
  BY DEF Summarised
<1>2. /\ run.cutoff \in summary.through + 1 .. Len(messages) - MinRecent
      /\ summary.through \in Nat /\ Len(messages) \in Nat /\ MinRecent \in Nat
      /\ After(0) = summary.through + 1 .. Len(messages)
      /\ summary.covers = 1 .. summary.through
  BY <1>1, AfterIs, OrdinalFacts, CompactionAssumption DEF IInv, CutoffInv, SummaryIsExact
<1>3. note.covers = 1 .. run.cutoff /\ note.through = run.cutoff
  BY <1>2
<1>4. note \in Note
  <2>1. size \in Nat
    BY CompactionAssumption
  <2>2. run.cutoff \in Nat /\ 1 .. run.cutoff \in SUBSET Nat
    BY <1>2
  <2> QED BY <1>3, <2>1, <2>2 DEF Note
<1> HIDE DEF note
<1>5. run' \in Runs /\ run'.pc = "check" /\ run'.kind = run.kind /\ run'.note = note
      /\ run'.size = run.size
  BY <1>1, <1>4 DEF IInv, TypeOK, Runs, ChatPhases
<1>6. NoteInv'
  BY <1>1, <1>2, <1>3, <1>5 DEF NoteInv
<1>7. CutoffInv' /\ HandoffInv' /\ SizeInv' /\ ModelSeesEverything'
  BY <1>5 DEF IInv, CutoffInv, HandoffInv, SizeInv, ModelSeesEverything, HandoffPhases
<1>8. run.kind = "chat"
  BY <1>1 DEF IInv, PhaseInv, ChatPhases
<1> QED BY <1>1, <1>5, <1>6, <1>7, <1>8, RunStep DEF HandoffPhases

\* The row is read before the summary is written.
LEMMA CheckRunningStep ==
    ASSUME IInv, CheckRunning
    PROVE  IInv'
<1>1. run.pc = "check" /\ UNCHANGED <<messages, summary>>
  BY DEF CheckRunning
<1>2. CASE Fail
  BY <1>1, <1>2, FailStep
<1>3. CASE run' = [run EXCEPT !.pc = "store"] /\ UNCHANGED status
  <2>1. run' \in Runs /\ run'.pc = "store" /\ run'.kind = run.kind /\ run'.note = run.note
        /\ run'.size = run.size
    BY <1>3 DEF IInv, TypeOK, Runs, ChatPhases
  <2>2. NoteInv'
    BY <1>1, <2>1 DEF IInv, NoteInv
  <2>3. CutoffInv' /\ HandoffInv' /\ SizeInv' /\ ModelSeesEverything'
    BY <2>1 DEF IInv, CutoffInv, HandoffInv, SizeInv, ModelSeesEverything, HandoffPhases
  <2>4. run.kind = "chat"
    BY <1>1 DEF IInv, PhaseInv, ChatPhases
  <2> QED BY <1>1, <1>3, <2>1, <2>2, <2>3, <2>4, RunStep DEF HandoffPhases
<1> QED BY <1>2, <1>3 DEF CheckRunning

\* The row and the summary are written in one transaction.
LEMMA StoreSummaryStep ==
    ASSUME IInv, StoreSummary
    PROVE  IInv'
<1>1. /\ run.pc = "store" /\ summary' = run.note /\ run' = [run EXCEPT !.pc = "recompose"]
      /\ UNCHANGED <<messages, status>>
  BY DEF StoreSummary, Stored
<1>2. /\ run' \in Runs /\ run'.pc = "recompose" /\ run'.kind = run.kind /\ run'.size = run.size
      /\ run.note \in Note
  BY <1>1 DEF IInv, TypeOK, Runs, ChatPhases
<1>3. TypeOK'
  BY <1>1, <1>2 DEF IInv, TypeOK
<1>4. PhaseInv'
  BY <1>1, <1>2 DEF IInv, PhaseInv, ChatPhases, HandoffPhases
<1>5. SummaryIsExact'
  <2>1. /\ run.note.through \in summary.through + 1 .. Len(messages) - MinRecent
        /\ run.note.covers = 1 .. run.note.through
    BY <1>1 DEF IInv, NoteInv
  <2>2. summary.through \in Nat /\ Len(messages) \in Nat /\ MinRecent \in Nat
    BY OrdinalFacts, CompactionAssumption DEF IInv, TypeOK, Note
  <2> QED BY <1>1, <2>1, <2>2 DEF SummaryIsExact
<1>6. CutoffInv' /\ NoteInv' /\ HandoffInv' /\ SizeInv' /\ ModelSeesEverything'
  BY <1>2 DEF IInv, CutoffInv, NoteInv, HandoffInv, SizeInv, ModelSeesEverything, HandoffPhases
<1> QED BY <1>3, <1>4, <1>5, <1>6 DEF IInv

\* The request for a handoff, or its first chunk to come.
LEMMA ComposeHandoffStep ==
    ASSUME IInv, ComposeHandoff
    PROVE  IInv'
<1> DEFINE end == Cardinality(UserOrdinals)
           size == HandoffSize(1, end)
<1>1. /\ run.pc = "compose" /\ run.kind = "handoff" /\ UNCHANGED <<messages, summary, status>>
      /\ run' = IF Fits(size)
                THEN [run EXCEPT !.pc = "respond", !.sent = UserTurns(1, end), !.size = size]
                ELSE [run EXCEPT !.pc = "chunk"]
  BY DEF ComposeHandoff
<1>2. /\ end \in Nat /\ UserTurns(1, end) = UserOrdinals
      /\ UserTurns(1, end) \in SUBSET Nat /\ size \in Nat
  <2>1. end \in Nat /\ UserTurns(1, end) = UserOrdinals
    BY PlaceIn DEF IInv
  <2> HIDE DEF end
  <2> QED BY <2>1, TurnsFacts DEF IInv
<1>3. UserOrdinals' = UserOrdinals /\ end' = end
  BY <1>1, SameRequests
<1> HIDE DEF size, end
<1>4. run \in Runs /\ run.todo = <<>> /\ run.extracts = <<>> /\ run.from = 1
  BY <1>1 DEF IInv, TypeOK, HandoffInv
<1>5. CASE Fits(size)
  <2>1. run' \in Runs /\ run'.pc = "respond" /\ run'.kind = "handoff" /\ run'.size = size
        /\ run'.sent = UserOrdinals
    BY <1>1, <1>2, <1>4, <1>5 DEF Runs
  <2>2. CutoffInv' /\ NoteInv' /\ HandoffInv' /\ SizeInv'
    BY <1>5, <2>1 DEF CutoffInv, NoteInv, HandoffInv, SizeInv, HandoffPhases, Fits
  <2>3. ModelSeesEverything'
    BY <1>3, <2>1 DEF ModelSeesEverything
  <2> QED BY <1>1, <2>1, <2>2, <2>3, RunStep DEF ChatPhases, HandoffPhases
<1>6. CASE ~Fits(size)
  <2>1. run' \in Runs /\ run'.pc = "chunk" /\ run'.kind = "handoff" /\ run'.size = run.size
        /\ run'.todo = <<>> /\ run'.extracts = <<>> /\ run'.from = 1
    BY <1>1, <1>4, <1>6 DEF Runs, HandoffPhases
  <2>2. HandoffInv'
    <3>1. UserTurns(1, 0) = {} /\ Covers(<<>>) = {}
      BY DEF UserTurns, Covers
    <3>2. (UserTurns(1, run.from - 1))' = {}
      BY <2>1 DEF UserTurns
    <3>3. (Covers(run.todo))' = {}
      BY <2>1, <3>1
    <3>4. (Cardinality(UserOrdinals))' \in Nat
      BY <1>2, <1>3 DEF end
    <3>5. run'.from \in 1 .. (Cardinality(UserOrdinals))' + 1
      BY <2>1, <3>4
    <3>6. (Covers(run.todo))' = (UserTurns(1, run.from - 1))'
      BY <3>2, <3>3
    <3> QED BY <2>1, <3>5, <3>6 DEF HandoffInv
  <2>3. CutoffInv' /\ NoteInv' /\ SizeInv' /\ ModelSeesEverything'
    BY <2>1 DEF IInv, CutoffInv, NoteInv, SizeInv, ModelSeesEverything
  <2> QED BY <1>1, <2>1, <2>2, <2>3, RunStep DEF ChatPhases, HandoffPhases
<1> QED BY <1>5, <1>6

\* A request more, for the turns that follow those of the others.
LEMMA ChunkStep ==
    ASSUME IInv, Chunk
    PROVE  IInv'
<1> DEFINE end == Cardinality(UserOrdinals)
           fitting == {k \in run.from .. end : Fits(HandoffSize(run.from, k))}
           best == LargestFitting(run.from, end, fitting)
           part == [covers |-> UserTurns(run.from, best), size |-> HandoffSize(run.from, best)]
<1>1. /\ run.pc = "chunk" /\ UNCHANGED <<messages, summary>>
      /\ IF run.from > end THEN run' = [run EXCEPT !.pc = "extract"] /\ UNCHANGED status
         ELSE IF best = 0 THEN Fail
         ELSE run' = [run EXCEPT !.from = best + 1, !.todo = Append(@, part)] /\ UNCHANGED status
  BY DEF Chunk
<1>2. /\ run \in Runs /\ run.kind = "handoff" /\ run.extracts = <<>>
      /\ run.from \in 1 .. end + 1 /\ Covers(run.todo) = UserTurns(1, run.from - 1)
      /\ run.size <= Budget /\ \A i \in DOMAIN run.todo : run.todo[i].size <= Budget
  BY <1>1 DEF IInv, TypeOK, PhaseInv, HandoffInv, SizeInv, HandoffPhases
<1>3. end \in Nat /\ UserTurns(1, end) = UserOrdinals
  BY PlaceIn DEF IInv
<1>4. end' = end /\ UserOrdinals' = UserOrdinals
  BY <1>1, SameRequests
<1> HIDE DEF end
<1>5. CASE run.from > end
  <2>1. run' \in Runs /\ run'.pc = "extract" /\ run'.kind = "handoff" /\ run'.size = run.size
        /\ run'.todo = run.todo /\ run'.extracts = <<>> /\ UNCHANGED status
    BY <1>1, <1>2, <1>5 DEF Runs, HandoffPhases
  <2>2. run.from - 1 = end
    BY <1>2, <1>3, <1>5
  <2>3. Covers(run.todo) = UserOrdinals
    BY <1>2, <1>3, <2>2
  <2>4. Covers(<<>>) = {}
    BY DEF Covers
  <2>5. (Covers(run.todo))' = Covers(run.todo) /\ (Covers(run.extracts))' = {}
    BY <2>1, <2>4
  <2>6. HandoffInv'
    BY <1>4, <2>1, <2>3, <2>5 DEF HandoffInv
  <2>7. CutoffInv' /\ NoteInv' /\ SizeInv' /\ ModelSeesEverything'
    BY <1>2, <2>1 DEF CutoffInv, NoteInv, SizeInv, ModelSeesEverything
  <2> QED BY <1>1, <1>2, <2>1, <2>6, <2>7, RunStep DEF ChatPhases
<1>6. CASE ~(run.from > end) /\ best = 0
  BY <1>1, <1>6, FailStep
<1>7. CASE ~(run.from > end) /\ best # 0
  <2>1. run.from \in Nat \ {0} /\ run.from <= end
    BY <1>2, <1>3, <1>7
  <2>2. best \in {0} \cup (fitting \cap run.from .. end)
    <3> HIDE DEF fitting
    <3> QED BY <1>3, <2>1, LargestFittingFinds
  <2> HIDE DEF best
  <2>3. best \in run.from .. end /\ Fits(HandoffSize(run.from, best)) /\ best \in Nat
    BY <1>7, <2>1, <2>2
  <2>4. part \in Part /\ part.covers = UserTurns(run.from, best) /\ part.size <= Budget
    BY <2>1, <2>3, TurnsFacts DEF IInv, Part, Fits
  <2> HIDE DEF part
  <2>5. run' = [run EXCEPT !.from = best + 1, !.todo = Append(@, part)] /\ UNCHANGED status
    BY <1>1, <1>7
  <2> DEFINE more == Append(run.todo, part)
  <2>6. run.todo \in Seq(Part) /\ more \in Seq(Part)
    BY <1>2, <2>4 DEF Runs
  <2>11. run' = [run EXCEPT !.from = best + 1, !.todo = more]
    BY <2>5
  <2>7. run' \in Runs /\ run'.pc = "chunk" /\ run'.kind = "handoff" /\ run'.size = run.size
        /\ run'.todo = more /\ run'.from = best + 1 /\ run'.extracts = <<>>
    <3>1. best + 1 \in Nat \ {0} /\ run.pc = "chunk"
      BY <1>1, <2>3
    <3> DEFINE next == best + 1
    <3> HIDE DEF more, next
    <3>2. run' = [run EXCEPT !.from = next, !.todo = more]
      BY <2>11 DEF next
    <3>3. next \in Nat \ {0}
      BY <3>1 DEF next
    <3>4. run' \in Runs /\ run'.pc = "chunk" /\ run'.kind = "handoff" /\ run'.size = run.size
          /\ run'.todo = more /\ run'.from = next /\ run'.extracts = <<>>
      BY <1>2, <2>6, <3>1, <3>2, <3>3 DEF Runs
    <3> QED BY <3>4 DEF next
  <2>8. HandoffInv'
    <3>1. Covers(Append(run.todo, part)) = Covers(run.todo) \cup part.covers
      BY <2>4, <2>6, CoversAppend
    <3>2. UserTurns(1, run.from - 1) \cup UserTurns(run.from, best) = UserTurns(1, best)
      <4>1. (1 .. run.from - 1) \cup (run.from .. best) = 1 .. best
        BY <2>1, <2>3
      <4> QED BY <4>1 DEF UserTurns
    <3>3. Covers(Append(run.todo, part)) = UserTurns(1, best)
      BY <1>2, <2>4, <3>1, <3>2
    <3>4. (Covers(run.todo))' = Covers(Append(run.todo, part))
      BY <2>7
    <3>5. (run.from - 1)' = best
      BY <2>3, <2>7
    <3>6. (UserTurns(1, run.from - 1))' = UserTurns(1, best)
      <4> HIDE DEF part
      <4>1. \A a, b : (UserTurns(a, b))' = UserTurns(a, b)
        BY <1>1, SameRequests
      <4>2. UserOrdinals' = UserOrdinals /\ messages' = messages
        BY <1>1, <1>4
      <4> QED BY <3>5, <4>2 DEF UserTurns, Place
    <3>7. run'.from \in 1 .. end + 1
      BY <1>3, <2>1, <2>3, <2>7
    <3> QED BY <1>4, <2>7, <3>3, <3>4, <3>6, <3>7 DEF HandoffInv, end
  <2>9. SizeInv'
    <3>1. ASSUME NEW i \in DOMAIN Append(run.todo, part) PROVE Append(run.todo, part)[i].size <= Budget
      BY <1>2, <2>4, <2>6, AppendProperties, LenProperties
    <3> QED BY <1>2, <2>7, <3>1 DEF SizeInv
  <2>10. CutoffInv' /\ NoteInv' /\ ModelSeesEverything'
    BY <2>7 DEF CutoffInv, NoteInv, ModelSeesEverything
  <2> QED BY <1>1, <1>2, <2>5, <2>7, <2>8, <2>9, <2>10, RunStep DEF ChatPhases
<1> QED BY <1>5, <1>6, <1>7

\* A request gives way to its extract, which stands for the same turns.
LEMMA ExtractStep ==
    ASSUME IInv, NEW size \in NoteSizes, Extract(size)
    PROVE  IInv'
<1> DEFINE first == Head(run.todo)
           rest == Tail(run.todo)
           extract == [covers |-> first.covers, size |-> size]
<1>1. /\ run.pc = "extract" /\ run.todo # <<>> /\ UNCHANGED <<messages, summary, status>>
      /\ run' = [run EXCEPT !.todo = rest, !.extracts = Append(@, extract)]
  BY DEF Extract
<1>2. /\ run \in Runs /\ run.kind = "handoff" /\ run.todo \in Seq(Part)
      /\ run.extracts \in Seq(Extracted) /\ run.size <= Budget
      /\ \A i \in DOMAIN run.todo : run.todo[i].size <= Budget
      /\ Covers(run.todo) \cup Covers(run.extracts) = UserOrdinals
  BY <1>1 DEF IInv, TypeOK, Runs, PhaseInv, HandoffInv, SizeInv, HandoffPhases
<1>3. /\ first \in Part /\ rest \in Seq(Part) /\ Len(run.todo) \in Nat \ {0}
      /\ first = run.todo[1] /\ DOMAIN run.todo = 1 .. Len(run.todo)
      /\ DOMAIN rest = 1 .. Len(run.todo) - 1
      /\ \A i \in DOMAIN rest : rest[i] = run.todo[i + 1]
  BY <1>1, <1>2, HeadTailProperties, LenProperties
<1>4. extract \in Extracted /\ extract.covers = first.covers
  BY <1>3 DEF Extracted, Part
<1> HIDE DEF first, rest, extract
<1>5. Covers(run.todo) = first.covers \cup Covers(rest)
  <2>1. ASSUME NEW x \in Covers(run.todo) PROVE x \in first.covers \cup Covers(rest)
    <3>1. PICK i \in DOMAIN run.todo : x \in run.todo[i].covers
      BY <2>1 DEF Covers
    <3>2. CASE i = 1
      BY <1>3, <3>1, <3>2
    <3>3. CASE i # 1
      <4>1. i - 1 \in DOMAIN rest /\ rest[i - 1] = run.todo[i]
        BY <1>3, <3>3
      <4> QED BY <3>1, <4>1 DEF Covers
    <3> QED BY <3>2, <3>3
  <2>2. ASSUME NEW x \in first.covers \cup Covers(rest) PROVE x \in Covers(run.todo)
    <3>1. CASE x \in first.covers
      BY <1>3, <3>1 DEF Covers
    <3>2. CASE x \in Covers(rest)
      <4>1. PICK i \in DOMAIN rest : x \in rest[i].covers
        BY <3>2 DEF Covers
      <4>2. i + 1 \in DOMAIN run.todo /\ rest[i] = run.todo[i + 1]
        BY <1>3, <4>1
      <4> QED BY <4>1, <4>2 DEF Covers
    <3> QED BY <2>2, <3>1, <3>2
  <2> QED BY <2>1, <2>2
<1>6. Covers(Append(run.extracts, extract)) = Covers(run.extracts) \cup first.covers
  BY <1>2, <1>4, CoversAppend
<1>7. Append(run.extracts, extract) \in Seq(Extracted)
  BY <1>2, <1>4
<1>8. run' \in Runs /\ run'.pc = "extract" /\ run'.kind = "handoff" /\ run'.size = run.size
      /\ run'.todo = rest /\ run'.extracts = Append(run.extracts, extract)
  BY <1>1, <1>2, <1>3, <1>7 DEF Runs
<1>9. HandoffInv'
  <2>1. UserOrdinals' = UserOrdinals
    BY <1>1, SameRequests
  <2>2. (Covers(run.todo))' = Covers(rest)
        /\ (Covers(run.extracts))' = Covers(Append(run.extracts, extract))
    BY <1>8
  <2>3. Covers(rest) \cup Covers(Append(run.extracts, extract)) = UserOrdinals
    BY <1>2, <1>5, <1>6
  <2> QED BY <1>8, <2>1, <2>2, <2>3 DEF HandoffInv
<1>10. SizeInv'
  <2>1. ASSUME NEW i \in DOMAIN rest PROVE rest[i].size <= Budget
    <3>1. i + 1 \in DOMAIN run.todo
      BY <1>3
    <3> QED BY <1>2, <1>3, <3>1
  <2> QED BY <1>2, <1>8, <2>1 DEF SizeInv
<1>11. CutoffInv' /\ NoteInv' /\ ModelSeesEverything'
  BY <1>8 DEF CutoffInv, NoteInv, ModelSeesEverything
<1> QED BY <1>1, <1>2, <1>8, <1>9, <1>10, <1>11, RunStep DEF ChatPhases

\* All extracts in one request, or in groups that leave none out.
LEMMA MergeStep ==
    ASSUME IInv, Merge
    PROVE  IInv'
<1> DEFINE es == run.extracts
           groups == Groups(es)
           todo == [i \in DOMAIN groups |-> Merged(groups[i])]
<1>1. /\ run.pc = "extract" /\ run.todo = <<>> /\ UNCHANGED <<messages, summary>>
      /\ \/ /\ Fits(Merged(es).size) /\ UNCHANGED status
            /\ run' = [run EXCEPT !.pc = "respond", !.sent = Merged(es).covers,
                                  !.size = Merged(es).size]
         \/ Fail
         \/ run' = [run EXCEPT !.extracts = <<>>, !.todo = todo] /\ UNCHANGED status
  BY DEF Merge
<1>2. /\ run \in Runs /\ run.kind = "handoff" /\ es \in Seq(Extracted) /\ run.size <= Budget
      /\ Covers(<<>>) \cup Covers(es) = UserOrdinals
  BY <1>1 DEF IInv, TypeOK, Runs, PhaseInv, HandoffInv, SizeInv, HandoffPhases
<1>3. Covers(<<>>) = {}
  BY DEF Covers
<1>4. Merged(es) \in Part /\ Merged(es).covers = UserOrdinals
  BY <1>2, <1>3, MergedIs
<1>5. UserOrdinals' = UserOrdinals
  BY <1>1, SameRequests
<1>6. CASE /\ Fits(Merged(es).size) /\ UNCHANGED status
           /\ run' = [run EXCEPT !.pc = "respond", !.sent = Merged(es).covers,
                                 !.size = Merged(es).size]
  <2>1. run' \in Runs /\ run'.pc = "respond" /\ run'.kind = "handoff"
        /\ run'.size = Merged(es).size /\ run'.sent = UserOrdinals
    BY <1>2, <1>4, <1>6 DEF Runs, Part
  <2>2. CutoffInv' /\ NoteInv' /\ HandoffInv' /\ SizeInv'
    BY <1>6, <2>1 DEF CutoffInv, NoteInv, HandoffInv, SizeInv, HandoffPhases, Fits
  <2>3. ModelSeesEverything'
    BY <1>5, <2>1 DEF ModelSeesEverything
  <2> QED BY <1>1, <1>2, <1>6, <2>1, <2>2, <2>3, RunStep DEF ChatPhases, HandoffPhases
<1>7. CASE Fail
  BY <1>1, <1>7, FailStep
<1>8. CASE run' = [run EXCEPT !.extracts = <<>>, !.todo = todo] /\ UNCHANGED status
  <2>1. /\ groups \in Seq(Seq(Extracted)) /\ AllCovers(groups) = UserOrdinals
        /\ \A i \in DOMAIN groups : Merged(groups[i]).size <= Budget
    BY <1>2, <1>3, GroupsKeepAll
  <2> HIDE DEF groups
  <2>2. \A i \in DOMAIN groups : Merged(groups[i]) \in Part /\ Merged(groups[i]).covers = Covers(groups[i])
    BY <2>1, MergedIs, ElementOfSeq
  <2>3. todo \in Seq(Part)
    <3>1. DOMAIN groups = 1 .. Len(groups) /\ Len(groups) \in Nat
      BY <2>1, LenProperties
    <3> QED BY <2>2, <3>1, IsASeq
  <2>4. Covers(todo) = UserOrdinals
    <3>1. DOMAIN todo = DOMAIN groups /\ \A i \in DOMAIN groups : todo[i].covers = Covers(groups[i])
      BY <2>2
    <3> HIDE DEF todo
    <3>2. Covers(todo) = AllCovers(groups)
      BY <3>1 DEF Covers, AllCovers
    <3> QED BY <2>1, <3>2
  <2>5. \A i \in DOMAIN todo : todo[i].size <= Budget
    BY <2>1
  <2> HIDE DEF todo
  <2>6. run' \in Runs /\ run'.pc = "extract" /\ run'.kind = "handoff" /\ run'.size = run.size
        /\ run'.todo = todo /\ run'.extracts = <<>>
    <3>1. <<>> \in Seq(Extracted) /\ run.pc = "extract"
      BY <1>1
    <3>2. run' = [run EXCEPT !.extracts = <<>>, !.todo = todo]
      BY <1>8
    <3> QED BY <1>2, <2>3, <3>1, <3>2 DEF Runs
  <2>7. HandoffInv'
    <3>1. (Covers(run.todo))' = UserOrdinals /\ (Covers(run.extracts))' = {}
      BY <1>3, <2>4, <2>6
    <3> QED BY <1>5, <2>6, <3>1 DEF HandoffInv
  <2>8. CutoffInv' /\ NoteInv' /\ SizeInv' /\ ModelSeesEverything'
    BY <1>2, <2>5, <2>6 DEF CutoffInv, NoteInv, SizeInv, ModelSeesEverything
  <2> QED BY <1>1, <1>2, <1>8, <2>6, <2>7, <2>8, RunStep DEF ChatPhases
<1> QED BY <1>1, <1>6, <1>7, <1>8

\* Nothing but the status changes.
LEMMA StatusStep ==
    ASSUME IInv, UNCHANGED <<messages, summary, run>>,
           status' = status \/ (status = "running" /\ status' = "stopping")
    PROVE  IInv'
<1>1. TypeOK' /\ PhaseInv' /\ NoteInv' /\ SizeInv'
  BY DEF IInv, TypeOK, PhaseInv, NoteInv, SizeInv
<1>2. SummaryIsExact' /\ ModelSeesEverything'
  BY SameRequests DEF IInv, ModelSeesEverything
<1>3. CutoffInv'
  BY DEF IInv, CutoffInv, SummarySize, Size, After, Ordinals, Retained
<1>4. HandoffInv'
  <2>1. (UserTurns(1, run.from - 1))' = UserTurns(1, run.from - 1)
    BY SameRequests DEF UserTurns, Place
  <2>2. (Covers(run.todo))' = Covers(run.todo) /\ (Covers(run.extracts))' = Covers(run.extracts)
    OBVIOUS
  <2>3. UserOrdinals' = UserOrdinals
    BY SameRequests
  <2>4. (Cardinality(UserOrdinals))' = Cardinality(UserOrdinals)
    BY <2>3
  <2> QED BY <2>1, <2>2, <2>3, <2>4 DEF IInv, HandoffInv
<1> QED BY <1>1, <1>2, <1>3, <1>4 DEF IInv

\* Every step.
LEMMA NextInv ==
    ASSUME IInv, [Next]_vars
    PROVE  IInv'
<1>1. CASE UNCHANGED vars
  <2>1. UNCHANGED <<messages, summary, run>> /\ status' = status
    BY <1>1 DEF vars
  <2> QED BY <2>1, StatusStep
<1>2. CASE RequestStop
  BY <1>2, StatusStep DEF RequestStop
<1>3. ASSUME NEW s \in Sizes, SubmitTurn(s) PROVE IInv'
  <2>1. [role |-> "user", size |-> s] \in Message
    BY DEF Message
  <2> QED BY <1>3, <2>1, ResetStep DEF SubmitTurn
<1>4. CASE Retry \/ SubmitHandoff
  BY <1>4, ResetStep DEF Retry, SubmitHandoff
<1>5. CASE Cancelled \/ ProviderFails \/ AttachmentUnavailable \/ Crash
  BY <1>5, FailStep DEF Cancelled, ProviderFails, AttachmentUnavailable, Crash
<1>6. ASSUME NEW s \in Sizes, Respond(s) PROVE IInv'
  <2>1. [role |-> "assistant", size |-> s] \in Message
    BY DEF Message
  <2>2. Fail /\ UNCHANGED summary
        /\ (messages' = messages \/ messages' = Append(messages, [role |-> "assistant", size |-> s]))
    BY <1>6 DEF Respond
  <2> QED BY <2>1, <2>2, ResetStep DEF Fail
<1>7. CASE ComposeChat \/ SelectCandidates \/ CheckRunning \/ StoreSummary \/ Recompose
  BY <1>7, ComposeChatStep, SelectCandidatesStep, CheckRunningStep, StoreSummaryStep, RecomposeStep
<1>8. CASE ComposeHandoff \/ Chunk \/ Merge
  BY <1>8, ComposeHandoffStep, ChunkStep, MergeStep
<1>9. ASSUME NEW n \in NoteSizes, Summarised(n) \/ Extract(n) PROVE IInv'
  BY <1>9, SummarisedStep, ExtractStep
<1> QED
  BY <1>1, <1>2, <1>3, <1>4, <1>5, <1>6, <1>7, <1>8, <1>9 DEF Next, TaskStep

\* The invariant holds in every state: whatever Stops, crashes and failed calls
\* come between the steps of a compaction (_respond, _compact_chat_context,
\* _compact_handoff_context).
THEOREM Invariance == Spec => []IInv
<1>1. Init => IInv
  BY InitInv
<1>2. IInv /\ [Next]_vars => IInv'
  BY NextInv
<1> QED BY <1>1, <1>2, PTL DEF Spec

\* A stored summary is made from exactly the turns it says it stands for, and
\* never from the latest (_compact_chat_context).
THEOREM SummaryStaysExact == Spec => []SummaryIsExact
<1>1. IInv => SummaryIsExact
  BY DEF IInv
<1> QED BY <1>1, Invariance, PTL

\* Every turn reaches the model, through the summary or verbatim; every user
\* turn reaches a handoff, through however many rounds of merging.
THEOREM ModelIsShownEverything == Spec => []ModelSeesEverything
<1>1. IInv => ModelSeesEverything
  BY DEF IInv
<1> QED BY <1>1, Invariance, PTL

\* Every request fits the budget, and every summary takes in as much as fits:
\* what the binary search returns is the largest candidate, since a longer
\* stretch makes a larger request.
THEOREM RequestsAlwaysFit == Spec => []RequestsFit
<1>1. IInv => RequestsFit
  BY DEF IInv, RequestsFit, SizeInv, CutoffInv, HandoffPhases
<1> QED BY <1>1, Invariance, PTL

\* A summary gives way only to one that stands for more turns, all of its own
\* among them: the measure by which the loop of _compact_chat_context ends.
THEOREM SummaryOnlyGrows ==
    Spec => [][summary' # summary => /\ summary'.through > summary.through
                                     /\ summary.covers \subseteq summary'.covers]_vars
<1>1. IInv /\ [Next]_vars =>
        [summary' # summary => /\ summary'.through > summary.through
                               /\ summary.covers \subseteq summary'.covers]_vars
  <2> SUFFICES ASSUME IInv, Next, summary' # summary
               PROVE  /\ summary'.through > summary.through
                      /\ summary.covers \subseteq summary'.covers
    BY DEF vars
  <2>1. StoreSummary
    BY DEF Next, TaskStep, SubmitTurn, Retry, SubmitHandoff, RequestStop, Crash, Cancelled,
           ProviderFails, AttachmentUnavailable, ComposeChat, SelectCandidates, Summarised, Extract,
           CheckRunning, Recompose, ComposeHandoff, Chunk, Merge, Respond
  <2>2. /\ summary' = run.note /\ run.note.covers = 1 .. run.note.through
        /\ run.note.through \in summary.through + 1 .. Len(messages) - MinRecent
    BY <2>1 DEF StoreSummary, Stored, IInv, NoteInv
  <2>3. summary.through \in Nat /\ summary.covers = 1 .. summary.through
        /\ Len(messages) \in Nat /\ MinRecent \in Nat
    BY AfterIs, OrdinalFacts, CompactionAssumption DEF IInv, SummaryIsExact
  <2> QED BY <2>2, <2>3
<1> QED BY <1>1, Invariance, PTL DEF Spec
=============================================================================
