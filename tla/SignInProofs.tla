---------------------------- MODULE SignInProofs ----------------------------
(***************************************************************************)
(* SignIn, proved for every set of accounts, clients and attempts and      *)
(* every setting of the limits: sessions end with a reset, the failure     *)
(* counter is exact, and wrong guesses are bounded in time.                *)
(***************************************************************************)
EXTENDS SignIn, FiniteSetTheorems, SequenceTheorems, TLAPS

RowType == [failed : Nat, window : Nat, locked : Nat, version : Nat]

AttemptType ==
    [pc : {"called", "hashing", "hashed", "counted"}, name : Names, client : Clients,
     guess : 0 .. MaxVersion, now : Nat, row : RowType] \cup {Idle}

\* The values the variables take; the queues of LoginGuard are not needed.
SignInType ==
    /\ time \in Nat \ {0}
    /\ user \in [Accounts -> RowType]
    /\ att \in [Attempts -> AttemptType]
    /\ line \in [Names -> Seq(Attempts)]
    /\ told \in [Accounts -> Seq(Nat)]

\* An attempt in flight is in line for its account, and the one that reads
\* and writes the row is first.
LineInv(a) ==
    att[a].pc # "idle" =>
        /\ \E i \in DOMAIN line[att[a].name] : line[att[a].name][i] = a
        /\ att[a].pc # "called" => line[att[a].name][1] = a

\* The throttle columns an attempt read are still those of the account: it
\* was not locked then, and nobody was refused since.
ReadInv(a) ==
    att[a].pc \in {"hashing", "hashed"} /\ att[a].name \in Accounts =>
        LET row == att[a].row
            now == user[att[a].name] IN
        /\ row.failed = now.failed /\ row.window = now.window /\ row.locked = now.locked
        /\ row.window <= att[a].now /\ row.locked <= att[a].now
        /\ att[a].now \in 1 .. time
        /\ \A i \in DOMAIN told[att[a].name] : told[att[a].name][i] <= att[a].now

\* What the throttle columns of an account say about the times of its
\* refusals.  The window begins with a refusal and nothing is told after its
\* end; the window before it shows at most LoginAttempts - 2 refusals to a
\* stretch of the window's length that reaches into this one.
Tally(row, times) ==
    /\ row.failed = Cardinality(Since(times, row.window))
    /\ row.window = 0 => times = <<>>
    /\ row.window # 0 => \E i \in DOMAIN times : times[i] = row.window
    /\ \A i \in DOMAIN times : times[i] < row.window + Window
    /\ LockTime >= Window =>
         /\ row.failed <= LoginAttempts
         /\ row.failed = LoginAttempts => \A i \in DOMAIN times : times[i] + Window <= row.locked
         /\ \A from \in Nat : from + Window > row.window =>
              Cardinality(Within(times, from, row.window)) <= LoginAttempts - 2
         /\ \A from \in Nat :
              Cardinality(Within(times, from, from + Window)) <= 2 * (LoginAttempts - 1)

TellInv(u) ==
    /\ Tally(user[u], told[u])
    /\ user[u].window <= time
    /\ \A i \in DOMAIN told[u] : told[u][i] <= time

\* The inductive invariant of the throttle.
IInv ==
    /\ SignInType
    /\ \A a \in Attempts : LineInv(a) /\ ReadInv(a)
    /\ \A u \in Accounts : TellInv(u)

\* A session carries the credential version of the password that opened it.
SessionInv == \A s \in sessions : s.password = s.version
-----------------------------------------------------------------------------
\* The settings the proofs need.
LEMMA Limits ==
    /\ LoginAttempts \in Nat /\ LoginAttempts >= 2
    /\ Window \in Nat /\ Window > 0 /\ LockTime \in Nat /\ LockTime > 0
  BY SignInAssumption

\* No session outlives the password it was opened with, even when the reset
\* commits while the password is being checked (create_session).
THEOREM ResetsEndOldSessions == Spec => []ResetEndsOldSessions
<1>1. Init => SessionInv
  BY DEF Init, SessionInv
<1>2. SessionInv /\ [Next]_vars => SessionInv'
  <2> SUFFICES ASSUME SessionInv, [Next]_vars PROVE SessionInv'
    OBVIOUS
  <2>1. ASSUME NEW a \in Attempts, Succeed(a) PROVE SessionInv'
    BY <2>1 DEF SessionInv, Succeed, Issued, Right
  <2>2. ASSUME sessions' \subseteq sessions PROVE SessionInv'
    BY <2>2 DEF SessionInv
  <2>3. ASSUME NEW a \in Attempts, AttemptStep(a) PROVE SessionInv'
    BY <2>1, <2>2, <2>3
       DEF AttemptStep, Throttled, StartHash, Busy, Hashed, CountFailure, RecordFailure, WriteFails
  <2> QED
    BY <2>2, <2>3 DEF Next, vars, Login, UseStale, Logout, ResetPassword, Tick
<1>3. SessionInv => ResetEndsOldSessions
  BY DEF SessionInv, ResetEndsOldSessions, IsActive
<1> QED
  BY <1>1, <1>2, <1>3, PTL DEF Spec

-----------------------------------------------------------------------------
(* Counting refusals.                                                      *)

\* The times of a sequence in a stretch are finitely many.
LEMMA StretchFinite ==
    ASSUME NEW s \in Seq(Nat), NEW from \in Nat, NEW to \in Nat
    PROVE  /\ IsFiniteSet(DOMAIN s) /\ IsFiniteSet(Since(s, from)) /\ IsFiniteSet(Within(s, from, to))
           /\ Cardinality(Since(s, from)) \in Nat /\ Cardinality(Within(s, from, to)) \in Nat
           /\ Cardinality(Within(s, from, to)) <= Cardinality(Since(s, from))
<1>1. IsFiniteSet(DOMAIN s)
  BY FS_Interval, LenProperties
<1>2. Since(s, from) \in SUBSET (DOMAIN s) /\ Within(s, from, to) \in SUBSET Since(s, from)
  BY DEF Since, Within
<1> QED
  BY <1>1, <1>2, FS_Subset, FS_CardinalityType

\* What one more refusal adds to the count of a stretch.
LEMMA StretchAppend ==
    ASSUME NEW s \in Seq(Nat), NEW t \in Nat, NEW from \in Nat, NEW to \in Nat
    PROVE  /\ Cardinality(Since(Append(s, t), from)) =
                Cardinality(Since(s, from)) + (IF t >= from THEN 1 ELSE 0)
           /\ Cardinality(Within(Append(s, t), from, to)) =
                Cardinality(Within(s, from, to)) + (IF t >= from /\ t < to THEN 1 ELSE 0)
<1> DEFINE n == Len(s) + 1
<1>1. /\ Append(s, t) \in Seq(Nat) /\ DOMAIN Append(s, t) = DOMAIN s \cup {n}
      /\ n \notin DOMAIN s /\ Append(s, t)[n] = t
      /\ \A i \in DOMAIN s : Append(s, t)[i] = s[i] /\ s[i] \in Nat
  BY AppendProperties, LenProperties, ElementOfSeq
<1> HIDE DEF n
<1>2. /\ n \notin Since(s, from) /\ n \notin Within(s, from, to)
  BY <1>1 DEF Since, Within
<1>3. Since(Append(s, t), from) = IF t >= from THEN Since(s, from) \cup {n} ELSE Since(s, from)
  BY <1>1 DEF Since
<1>4. Within(Append(s, t), from, to) =
        IF t >= from /\ t < to THEN Within(s, from, to) \cup {n} ELSE Within(s, from, to)
  BY <1>1 DEF Since, Within
<1>5. /\ IsFiniteSet(Since(s, from)) /\ Cardinality(Since(s, from)) \in Nat
      /\ IsFiniteSet(Within(s, from, to)) /\ Cardinality(Within(s, from, to)) \in Nat
  BY StretchFinite
<1>6. /\ Cardinality(Since(s, from) \cup {n}) = Cardinality(Since(s, from)) + 1
      /\ Cardinality(Within(s, from, to) \cup {n}) = Cardinality(Within(s, from, to)) + 1
  BY <1>2, <1>5, FS_AddElement
<1> QED
  BY <1>3, <1>4, <1>5, <1>6

\* A stretch that begins after the first refusal of the window misses it.
LEMMA StretchMissesFirst ==
    ASSUME NEW s \in Seq(Nat), NEW w \in Nat, NEW from \in Nat, NEW to \in Nat, from > w,
           \E i \in DOMAIN s : s[i] = w
    PROVE  Cardinality(Within(s, from, to)) <= Cardinality(Since(s, w)) - 1
<1>1. PICK i \in DOMAIN s : s[i] = w
  OBVIOUS
<1>2. Within(s, from, to) \in SUBSET (Since(s, w) \ {i}) /\ i \in Since(s, w)
  <2>1. \A j \in DOMAIN s : s[j] \in Nat
    BY ElementOfSeq
  <2> QED
    BY <1>1, <2>1 DEF Since, Within
<1>3. /\ IsFiniteSet(Since(s, w) \ {i})
      /\ Cardinality(Since(s, w) \ {i}) = Cardinality(Since(s, w)) - 1
  BY <1>2, StretchFinite, FS_RemoveElement
<1> QED
  BY <1>2, <1>3, FS_Subset

\* A stretch is split where a window begins.
LEMMA StretchSplit ==
    ASSUME NEW s \in Seq(Nat), NEW w \in Nat, NEW from \in Nat, NEW to \in Nat
    PROVE  Cardinality(Within(s, from, to)) <=
             Cardinality(Within(s, from, w)) + Cardinality(Since(s, w))
<1>1. \A j \in DOMAIN s : s[j] \in Nat
  BY ElementOfSeq
<1>2. Within(s, from, to) \in SUBSET (Within(s, from, w) \cup Since(s, w))
  BY <1>1 DEF Since, Within
<1>3. /\ IsFiniteSet(Within(s, from, w) \cup Since(s, w))
      /\ Cardinality(Within(s, from, w) \cup Since(s, w)) =
           Cardinality(Within(s, from, w)) + Cardinality(Since(s, w))
             - Cardinality(Within(s, from, w) \cap Since(s, w))
  BY StretchFinite, FS_Union
<1>4. Cardinality(Within(s, from, w) \cap Since(s, w)) \in Nat
  <2>1. Within(s, from, w) \cap Since(s, w) \in SUBSET Since(s, w)
    OBVIOUS
  <2> QED
    BY <2>1, StretchFinite, FS_Subset, FS_CardinalityType
<1>5. Cardinality(Within(s, from, to)) <= Cardinality(Within(s, from, w) \cup Since(s, w))
  BY <1>2, <1>3, FS_Subset
<1>6. /\ Cardinality(Within(s, from, to)) \in Nat
      /\ Cardinality(Within(s, from, w)) \in Nat /\ Cardinality(Since(s, w)) \in Nat
  BY StretchFinite
<1> QED
  BY <1>3, <1>4, <1>5, <1>6

\* A stretch in which no time lies.
LEMMA StretchEmpty ==
    ASSUME NEW s \in Seq(Nat), NEW from \in Nat, NEW to \in Nat,
           \A i \in DOMAIN s : s[i] < from \/ s[i] >= to
    PROVE  Cardinality(Within(s, from, to)) = 0
<1>1. \A j \in DOMAIN s : s[j] \in Nat
  BY ElementOfSeq
<1>2. Within(s, from, to) = {}
  BY <1>1 DEF Since, Within
<1> QED
  BY <1>2, FS_EmptySet

\* A stretch of which a sequence has no time after its last.
LEMMA StretchOpen ==
    ASSUME NEW s \in Seq(Nat), NEW from \in Nat, NEW to \in Nat, \A i \in DOMAIN s : s[i] < to
    PROVE  Within(s, from, to) = Since(s, from)
  BY DEF Since, Within

\* The first wrong password of a new window: the old one is over, and if it
\* was full its last refusal lies a whole window back.
LEMMA CountedFirst ==
    ASSUME NEW row \in RowType, NEW s \in Seq(Nat), NEW now \in Nat \ {0}, Tally(row, s),
           row.window <= now, row.locked <= now, \A i \in DOMAIN s : s[i] <= now,
           row.window = 0 \/ now - row.window >= Window
    PROVE  Tally(Counted(row, now), Append(s, now))
<1> DEFINE new == Counted(row, now)
           all == Append(s, now)
<1>1. new.window = now /\ new.failed = 1 /\ new.locked = row.locked
  BY Limits DEF Counted, RowType
<1>2. /\ all \in Seq(Nat) /\ DOMAIN all = DOMAIN s \cup {Len(s) + 1}
      /\ all[Len(s) + 1] = now /\ \A i \in DOMAIN s : all[i] = s[i] /\ s[i] \in Nat
  BY AppendProperties, LenProperties, ElementOfSeq
<1>3. row.window \in Nat /\ row.failed \in Nat /\ row.locked \in Nat
  BY DEF RowType
<1>4. \A i \in DOMAIN s : s[i] < now
  <2>1. CASE row.window = 0
    BY <2>1, EmptySeq DEF Tally
  <2>2. CASE now - row.window >= Window
    BY <2>2, <1>2, <1>3, Limits DEF Tally
  <2> QED
    BY <2>1, <2>2
<1>5. new.failed = Cardinality(Since(all, new.window))
  <2>1. Since(s, now) = {}
    BY <1>2, <1>4 DEF Since
  <2>2. Cardinality(Since(s, now)) = 0
    BY <2>1, FS_EmptySet
  <2> QED
    BY <1>1, <2>2, StretchAppend
<1>6. \A i \in DOMAIN all : all[i] < new.window + Window
  BY <1>1, <1>2, <1>4, Limits
<1>7. ASSUME LockTime >= Window, NEW from \in Nat, from + Window > now
      PROVE  Cardinality(Within(s, from, now)) <= LoginAttempts - 2
  <2>1. CASE row.window = 0 \/ row.failed = LoginAttempts
    <3>1. \A i \in DOMAIN s : s[i] < from
      <4>1. CASE row.window = 0
        BY <4>1, EmptySeq DEF Tally
      <4>2. CASE row.failed = LoginAttempts
        <5>1. \A i \in DOMAIN s : s[i] + Window <= row.locked
          BY <1>7, <4>2 DEF Tally
        <5> QED
          BY <1>2, <1>3, <1>7, <5>1, Limits
      <4> QED
        BY <2>1, <4>1, <4>2
    <3>2. Cardinality(Within(s, from, now)) = 0
      BY <3>1, StretchEmpty
    <3> QED
      BY <3>2, Limits
  <2>2. CASE row.window # 0 /\ row.failed # LoginAttempts
    <3>1. from > row.window
      BY <1>3, <1>7, <2>2, Limits
    <3>2. \E i \in DOMAIN s : s[i] = row.window
      BY <2>2 DEF Tally
    <3>3. Cardinality(Within(s, from, now)) <= Cardinality(Since(s, row.window)) - 1
      BY <1>3, <3>1, <3>2, StretchMissesFirst
    <3>4. row.failed = Cardinality(Since(s, row.window)) /\ row.failed <= LoginAttempts
      BY <1>7 DEF Tally
    <3>5. Cardinality(Within(s, from, now)) \in Nat
      BY StretchFinite
    <3> QED
      BY <1>3, <2>2, <3>3, <3>4, <3>5, Limits
  <2> QED
    BY <2>1, <2>2
<1>8. ASSUME LockTime >= Window, NEW from \in Nat, NEW to \in Nat, to = from + Window
      PROVE  /\ to > now => Cardinality(Within(all, from, now)) <= LoginAttempts - 2
             /\ Cardinality(Within(all, from, to)) <= 2 * (LoginAttempts - 1)
  <2>1. /\ Cardinality(Within(all, from, now)) =
             Cardinality(Within(s, from, now)) + (IF now >= from /\ now < now THEN 1 ELSE 0)
        /\ Cardinality(Within(all, from, to)) =
             Cardinality(Within(s, from, to)) + (IF now >= from /\ now < to THEN 1 ELSE 0)
    BY StretchAppend
  <2>2. Cardinality(Within(s, from, now)) \in Nat /\ Cardinality(Within(s, from, to)) \in Nat
    BY StretchFinite
  <2>3. Cardinality(Within(s, from, to)) <= 2 * (LoginAttempts - 1)
    BY <1>8 DEF Tally
  <2>4. CASE to > now
    <3>1. Within(s, from, to) = Within(s, from, now)
      BY <1>2, <1>4, <2>4 DEF Within, Since
    <3>2. Cardinality(Within(s, from, now)) <= LoginAttempts - 2
      BY <1>7, <1>8, <2>4
    <3> QED
      BY <2>1, <2>2, <3>1, <3>2, Limits
  <2>5. CASE ~(to > now)
    BY <2>1, <2>2, <2>3, <2>5, Limits
  <2> QED
    BY <2>4, <2>5
<1>9. new.window # 0 /\ \E i \in DOMAIN all : all[i] = new.window
  BY <1>1, <1>2
<1>10. ASSUME LockTime >= Window, NEW from \in Nat
       PROVE  /\ from + Window > new.window =>
                   Cardinality(Within(all, from, new.window)) <= LoginAttempts - 2
              /\ Cardinality(Within(all, from, from + Window)) <= 2 * (LoginAttempts - 1)
  <2>1. from + Window \in Nat
    BY Limits
  <2> QED
    BY <1>1, <1>8, <1>10, <2>1
<1>11. new.failed <= LoginAttempts /\ new.failed # LoginAttempts
  BY <1>1, Limits
<1> QED
  BY <1>5, <1>6, <1>9, <1>10, <1>11 DEF Tally

\* Another wrong password in the same window: the account was not locked, so
\* the window was not full.
LEMMA CountedMore ==
    ASSUME NEW row \in RowType, NEW s \in Seq(Nat), NEW now \in Nat \ {0}, Tally(row, s),
           row.window <= now, row.locked <= now, \A i \in DOMAIN s : s[i] <= now,
           row.window # 0, now - row.window < Window
    PROVE  Tally(Counted(row, now), Append(s, now))
<1> DEFINE new == Counted(row, now)
           all == Append(s, now)
<1>1. row.window \in Nat /\ row.failed \in Nat /\ row.locked \in Nat
  BY DEF RowType
<1>2. /\ new.window = row.window /\ new.failed = row.failed + 1
      /\ new.locked = IF row.failed + 1 >= LoginAttempts THEN now + LockTime ELSE row.locked
  BY <1>1, Limits DEF Counted, RowType
<1>3. /\ all \in Seq(Nat) /\ DOMAIN all = DOMAIN s \cup {Len(s) + 1}
      /\ all[Len(s) + 1] = now /\ \A i \in DOMAIN s : all[i] = s[i] /\ s[i] \in Nat
  BY AppendProperties, LenProperties, ElementOfSeq
<1>4. row.failed = Cardinality(Since(s, row.window))
  BY DEF Tally
<1>5. new.failed = Cardinality(Since(all, new.window))
  <2>1. Cardinality(Since(all, row.window)) =
          Cardinality(Since(s, row.window)) + (IF now >= row.window THEN 1 ELSE 0)
    BY <1>1, StretchAppend
  <2> QED
    BY <1>1, <1>2, <1>4, <2>1
<1>6. \A i \in DOMAIN all : all[i] < new.window + Window
  <2>1. \A i \in DOMAIN s : s[i] < row.window + Window
    BY DEF Tally
  <2> QED
    BY <1>1, <1>2, <1>3, <2>1, Limits
<1>7. new.window # 0 /\ \E i \in DOMAIN all : all[i] = new.window
  BY <1>2, <1>3 DEF Tally
<1>8. LockTime >= Window => new.failed <= LoginAttempts
  <2>1. ASSUME LockTime >= Window PROVE row.failed # LoginAttempts /\ row.failed <= LoginAttempts
    <3>1. PICK i \in DOMAIN s : s[i] = row.window
      BY DEF Tally
    <3>2. row.failed = LoginAttempts => row.window + Window <= row.locked
      BY <2>1, <3>1 DEF Tally
    <3>3. row.failed <= LoginAttempts
      BY <2>1 DEF Tally
    <3> QED
      BY SMTT(30), <1>1, <3>2, <3>3, Limits
  <2> QED
    BY <1>1, <1>2, <2>1, Limits
<1>9. ASSUME LockTime >= Window, new.failed = LoginAttempts
      PROVE  \A i \in DOMAIN all : all[i] + Window <= new.locked
  <2>1. new.locked = now + LockTime
    BY <1>1, <1>2, <1>9, Limits
  <2> QED
    BY <1>3, <1>9, <2>1, Limits
<1>10. ASSUME LockTime >= Window, NEW from \in Nat, NEW to \in Nat, to = from + Window
       PROVE  /\ to > new.window =>
                   Cardinality(Within(all, from, new.window)) <= LoginAttempts - 2
              /\ Cardinality(Within(all, from, to)) <= 2 * (LoginAttempts - 1)
  <2>1. /\ Cardinality(Within(all, from, row.window)) =
             Cardinality(Within(s, from, row.window))
               + (IF now >= from /\ now < row.window THEN 1 ELSE 0)
        /\ Cardinality(Within(all, from, to)) =
             Cardinality(Within(s, from, to)) + (IF now >= from /\ now < to THEN 1 ELSE 0)
    BY <1>1, StretchAppend
  <2>2. /\ Cardinality(Within(s, from, row.window)) \in Nat
        /\ Cardinality(Within(s, from, to)) \in Nat
        /\ Cardinality(Within(all, from, to)) \in Nat
        /\ Cardinality(Since(all, row.window)) \in Nat
    BY <1>1, <1>3, StretchFinite
  <2>3. Cardinality(Within(s, from, to)) <= 2 * (LoginAttempts - 1)
    BY <1>10 DEF Tally
  <2>4. to > row.window => Cardinality(Within(s, from, row.window)) <= LoginAttempts - 2
    BY <1>10 DEF Tally
  <2>5. to > new.window => Cardinality(Within(all, from, new.window)) <= LoginAttempts - 2
    BY <1>1, <1>2, <2>1, <2>2, <2>4, Limits
  <2>6. CASE to > now
    <3>1. Cardinality(Within(all, from, to)) <=
            Cardinality(Within(all, from, row.window)) + Cardinality(Since(all, row.window))
      BY <1>1, <1>3, StretchSplit
    <3>2. Cardinality(Within(all, from, row.window)) = Cardinality(Within(s, from, row.window))
      BY <1>1, <2>1, <2>2
    <3>3. Cardinality(Since(all, row.window)) <= LoginAttempts
      BY <1>2, <1>5, <1>8, <1>10
    <3>4. to > row.window
      BY <1>1, <2>6
    <3> QED
      BY <2>2, <2>4, <2>5, <3>1, <3>2, <3>3, <3>4, Limits
  <2>7. CASE ~(to > now)
    BY <2>1, <2>2, <2>3, <2>5, <2>7, Limits
  <2> QED
    BY <2>6, <2>7
<1>11. ASSUME LockTime >= Window, NEW from \in Nat
       PROVE  /\ from + Window > new.window =>
                   Cardinality(Within(all, from, new.window)) <= LoginAttempts - 2
              /\ Cardinality(Within(all, from, from + Window)) <= 2 * (LoginAttempts - 1)
  <2>1. from + Window \in Nat
    BY Limits
  <2> QED
    BY <1>10, <1>11, <2>1
<1> QED
  BY <1>5, <1>6, <1>7, <1>8, <1>9, <1>11 DEF Tally

\* The UPDATE of a wrong password keeps the throttle columns true to what was
\* told, whether or not it begins a new window.
LEMMA CountedTally ==
    ASSUME NEW row \in RowType, NEW s \in Seq(Nat), NEW now \in Nat \ {0}, Tally(row, s),
           row.window <= now, row.locked <= now, \A i \in DOMAIN s : s[i] <= now
    PROVE  /\ Tally(Counted(row, now), Append(s, now))
           /\ Counted(row, now) \in RowType /\ Counted(row, now).window <= now
<1>1. row.window \in Nat
  BY DEF RowType
<1>2. row.window = 0 \/ now - row.window >= Window \/ (row.window # 0 /\ now - row.window < Window)
  BY <1>1, Limits
<1>3. Tally(Counted(row, now), Append(s, now))
  BY <1>2, CountedFirst, CountedMore
<1>4. Counted(row, now) \in RowType /\ Counted(row, now).window <= now
  <2> DEFINE w == IF row.window = 0 \/ now - row.window >= Window THEN now ELSE row.window
             f == IF row.window = 0 \/ now - row.window >= Window THEN 1 ELSE row.failed + 1
             l == IF f >= LoginAttempts THEN now + LockTime ELSE row.locked
  <2>1. Counted(row, now) = [row EXCEPT !.window = w, !.failed = f, !.locked = l]
    BY DEF Counted
  <2>2. w \in Nat /\ f \in Nat /\ l \in Nat /\ w <= now
    BY Limits DEF RowType
  <2> HIDE DEF w, f, l
  <2> QED
    BY <2>1, <2>2 DEF RowType
<1> QED
  BY <1>3, <1>4

\* Only the throttle columns matter to the tally.
LEMMA TallySame ==
    ASSUME NEW row, NEW new, NEW s, Tally(row, s),
           new.failed = row.failed, new.window = row.window, new.locked = row.locked
    PROVE  Tally(new, s)
  BY DEF Tally

\* An account nobody was refused at.
LEMMA TallyFresh ==
    ASSUME NEW row, row.failed = 0, row.window = 0
    PROVE  Tally(row, <<>>)
<1>1. /\ <<>> \in Seq(Nat) /\ DOMAIN <<>> = {}
      /\ \A from, to \in Nat : Since(<<>>, from) = {} /\ Within(<<>>, from, to) = {}
  BY EmptySeq DEF Since, Within
<1>2. \A from \in Nat : from + Window \in Nat
  BY Limits
<1>3. /\ Cardinality(Since(<<>>, 0)) = 0
      /\ \A from \in Nat : /\ Cardinality(Within(<<>>, from, 0)) = 0
                           /\ Cardinality(Within(<<>>, from, from + Window)) = 0
  BY <1>1, <1>2, FS_EmptySet
<1>4. 0 <= LoginAttempts /\ 0 <= LoginAttempts - 2 /\ 0 <= 2 * (LoginAttempts - 1)
  BY Limits
<1> QED
  BY <1>1, <1>3, <1>4 DEF Tally
-----------------------------------------------------------------------------
(* The attempts.                                                           *)

\* What is known of an attempt in flight.
LEMMA InFlight ==
    ASSUME SignInType, NEW a \in Attempts, att[a].pc # "idle"
    PROVE  /\ att[a] \in [pc : {"called", "hashing", "hashed", "counted"}, name : Names,
                          client : Clients, guess : 0 .. MaxVersion, now : Nat, row : RowType]
           /\ line[att[a].name] \in Seq(Attempts)
  BY DEF SignInType, AttemptType, Idle

\* An attempt that may read and write the row is first in line.
LEMMA InsideIsFirst ==
    ASSUME SignInType, NEW a \in Attempts, LineInv(a), att[a].pc # "idle",
           Inside(a) \/ att[a].pc # "called"
    PROVE  line[att[a].name] # <<>> /\ line[att[a].name][1] = a
<1>1. line[att[a].name] \in Seq(Attempts)
  BY InFlight
<1>2. line[att[a].name] # <<>>
  BY <1>1, EmptySeq DEF LineInv
<1> QED
  BY <1>1, <1>2, HeadTailProperties DEF LineInv, Inside

\* One attempt at a time is between reading and writing an account.
LEMMA OnlyOneInside ==
    ASSUME SignInType, NEW a \in Attempts, NEW b \in Attempts, LineInv(a), LineInv(b),
           att[a].pc \notin {"idle", "called"}, att[b].pc \notin {"idle", "called"},
           att[a].name = att[b].name
    PROVE  a = b
  BY DEF LineInv

\* The lock passes to the next in line, and nobody loses its place.
LEMMA LeaveLine ==
    ASSUME SignInType, \A b \in Attempts : LineInv(b), NEW a \in Attempts,
           att[a].pc # "idle", line[att[a].name] # <<>>, line[att[a].name][1] = a, Leave(a)
    PROVE  /\ att' \in [Attempts -> AttemptType] /\ line' \in [Names -> Seq(Attempts)]
           /\ att'[a].pc = "idle" /\ \A b \in Attempts \ {a} : att'[b] = att[b]
           /\ \A b \in Attempts : LineInv(b)'
<1> DEFINE n == att[a].name
           q == line[att[a].name]
<1>1. n \in Names /\ q \in Seq(Attempts)
  BY InFlight
<1>2. /\ Tail(q) \in Seq(Attempts) /\ Len(Tail(q)) = Len(q) - 1
      /\ \A i \in 1 .. Len(Tail(q)) : Tail(q)[i] = q[i + 1]
  BY <1>1, HeadTailProperties
<1>3. /\ att' \in [Attempts -> AttemptType] /\ att'[a].pc = "idle"
      /\ \A b \in Attempts \ {a} : att'[b] = att[b]
  BY DEF SignInType, Leave, Idle, AttemptType
<1>4. /\ line' \in [Names -> Seq(Attempts)] /\ line'[n] = Tail(q)
      /\ \A m \in Names \ {n} : line'[m] = line[m]
  BY <1>1, <1>2 DEF SignInType, Leave
<1>5. ASSUME NEW b \in Attempts PROVE LineInv(b)'
  <2>1. CASE b = a
    BY <1>3, <2>1 DEF LineInv
  <2>2. CASE b # a /\ att[b].pc # "idle" /\ att[b].name = n
    <3>1. PICK i \in DOMAIN q : q[i] = b
      BY <2>2 DEF LineInv
    <3>2. i \in 1 .. Len(q) /\ i # 1
      BY <1>1, <2>2, <3>1, LenProperties
    <3>3. i - 1 \in DOMAIN Tail(q) /\ Tail(q)[i - 1] = b
      BY <1>1, <1>2, <3>1, <3>2, LenProperties
    <3>4. att[b].pc = "called"
      BY <2>2 DEF LineInv
    <3>5. att'[b] = att[b] /\ line'[att'[b].name] = Tail(q)
      BY <1>3, <1>4, <2>2
    <3> QED
      BY <3>3, <3>4, <3>5 DEF LineInv
  <2>3. CASE b # a /\ att[b].pc # "idle" /\ att[b].name # n
    <3>1. att[b].name \in Names
      BY <2>3, InFlight
    <3>2. att'[b] = att[b] /\ line'[att[b].name] = line[att[b].name]
      BY <1>3, <1>4, <2>3, <3>1
    <3> QED
      BY <3>2 DEF LineInv
  <2>4. CASE b # a /\ att[b].pc = "idle"
    BY <1>3, <2>4 DEF LineInv
  <2> QED
    BY <2>1, <2>2, <2>3, <2>4
<1> QED
  BY <1>3, <1>4, <1>5

\* account(): an attempt joins the end of the line.
LEMMA LoginPreserves ==
    ASSUME IInv, NEW a \in Attempts, NEW n \in Names, NEW c \in Clients,
           NEW guess \in 0 .. MaxVersion, Login(a, n, c, guess)
    PROVE  IInv'
<1> DEFINE q == line[n]
<1>1. /\ UNCHANGED <<time, user, sessions, told>> /\ att[a].pc = "idle"
      /\ \A b \in Attempts \ {a} : att'[b] = att[b]
      /\ att'[a].pc = "called" /\ att'[a].name = n
      /\ att' \in [Attempts -> AttemptType]
  BY DEF IInv, SignInType, Login, AttemptType, NoRow, RowType
<1>2. /\ line' = [line EXCEPT ![n] = Append(q, a)] /\ q \in Seq(Attempts)
      /\ line' \in [Names -> Seq(Attempts)]
  BY DEF IInv, SignInType, Login
<1>3. /\ line'[n] = Append(q, a) /\ \A m \in Names \ {n} : line'[m] = line[m]
      /\ DOMAIN Append(q, a) = 1 .. Len(q) + 1 /\ Append(q, a)[Len(q) + 1] = a
      /\ \A i \in DOMAIN q : i \in 1 .. Len(q) /\ Append(q, a)[i] = q[i]
      /\ Len(q) \in Nat
  BY <1>2, AppendProperties, LenProperties DEF IInv, SignInType
<1>4. SignInType'
  BY <1>1, <1>2 DEF IInv, SignInType
<1>5. ASSUME NEW b \in Attempts PROVE LineInv(b)'
  <2>1. CASE b = a
    BY <1>1, <1>3, <2>1 DEF LineInv
  <2>2. CASE b # a /\ att[b].pc # "idle" /\ att[b].name = n
    <3>1. PICK i \in DOMAIN q : q[i] = b
      BY <2>2 DEF IInv, LineInv
    <3>2. i \in 1 .. Len(q) /\ 1 \in 1 .. Len(q) /\ 1 \in DOMAIN q
      BY <1>2, <1>3, <3>1, LenProperties
    <3>3. att'[b] = att[b] /\ i \in DOMAIN line'[n] /\ line'[n][i] = b /\ line'[n][1] = q[1]
      BY <1>1, <1>3, <2>2, <3>1, <3>2
    <3> QED
      BY <2>2, <3>3 DEF IInv, LineInv
  <2>3. CASE b # a /\ att[b].pc # "idle" /\ att[b].name # n
    <3>1. att[b].name \in Names
      BY <2>3, InFlight DEF IInv
    <3>2. att'[b] = att[b] /\ line'[att[b].name] = line[att[b].name]
      BY <1>1, <1>3, <2>3, <3>1
    <3>3. LineInv(b)
      BY DEF IInv
    <3> QED
      BY <3>2, <3>3 DEF LineInv
  <2>4. CASE b # a /\ att[b].pc = "idle"
    BY <1>1, <2>4 DEF LineInv
  <2> QED
    BY <2>1, <2>2, <2>3, <2>4
<1>6. ASSUME NEW b \in Attempts PROVE ReadInv(b)'
  BY <1>1 DEF IInv, ReadInv
<1>7. ASSUME NEW u \in Accounts PROVE TellInv(u)'
  BY <1>1 DEF IInv, TellInv
<1> QED
  BY <1>4, <1>5, <1>6, <1>7 DEF IInv

\* Throttled, busy, failed to write, or counted: the attempt is answered and
\* the account is as it was.
LEMMA AnswerPreserves ==
    ASSUME IInv, NEW a \in Attempts, att[a].pc # "idle", Inside(a) \/ att[a].pc # "called",
           Leave(a), UNCHANGED <<time, user, told>>
    PROVE  IInv'
<1>1. line[att[a].name] # <<>> /\ line[att[a].name][1] = a
  BY InsideIsFirst DEF IInv
<1>2. /\ att' \in [Attempts -> AttemptType] /\ line' \in [Names -> Seq(Attempts)]
      /\ att'[a].pc = "idle" /\ \A b \in Attempts \ {a} : att'[b] = att[b]
      /\ \A b \in Attempts : LineInv(b)'
  BY <1>1, LeaveLine DEF IInv
<1>3. SignInType'
  BY <1>2 DEF IInv, SignInType
<1>4. ASSUME NEW b \in Attempts PROVE ReadInv(b)'
  BY <1>2 DEF IInv, ReadInv
<1>5. ASSUME NEW u \in Accounts PROVE TellInv(u)'
  BY DEF IInv, TellInv
<1> QED
  BY <1>2, <1>3, <1>4, <1>5 DEF IInv

\* The first in line reads the row; it is unlocked.
LEMMA StartHashPreserves ==
    ASSUME IInv, NEW a \in Attempts, StartHash(a)
    PROVE  IInv'
<1>1. /\ att[a].pc = "called" /\ line[att[a].name][1] = a
      /\ UNCHANGED <<time, user, line, told>>
  BY InsideIsFirst DEF IInv, StartHash, guard
<1>2. Row(att[a].name) \in RowType
  BY <1>1, InFlight DEF IInv, SignInType, Row, NoRow, RowType
<1>3. /\ att' \in [Attempts -> AttemptType] /\ \A b \in Attempts \ {a} : att'[b] = att[b]
      /\ att'[a].pc = "hashing" /\ att'[a].name = att[a].name
      /\ att'[a].now = time /\ att'[a].row = Row(att[a].name)
      /\ time >= Row(att[a].name).locked
  <2>1. att[a] \in [pc : {"called", "hashing", "hashed", "counted"}, name : Names,
                    client : Clients, guess : 0 .. MaxVersion, now : Nat, row : RowType]
    BY <1>1, InFlight DEF IInv
  <2>2. time \in Nat
    BY DEF IInv, SignInType
  <2> QED
    BY <1>1, <1>2, <2>1, <2>2 DEF IInv, SignInType, StartHash, AttemptType
<1>4. SignInType'
  BY <1>1, <1>3 DEF IInv, SignInType
<1>5. ASSUME NEW b \in Attempts PROVE LineInv(b)'
  BY <1>1, <1>3 DEF IInv, LineInv
<1>6. ASSUME NEW b \in Attempts PROVE ReadInv(b)'
  <2>1. CASE b = a /\ att[a].name \in Accounts
    <3>1. att'[a].row = user[att[a].name] /\ TellInv(att[a].name)
      BY <1>3, <2>1 DEF IInv, Row
    <3>2. /\ time \in Nat \ {0} /\ user[att[a].name].locked <= time
      BY <1>3, <2>1, <3>1 DEF IInv, SignInType
    <3> QED
      BY <1>1, <1>3, <2>1, <3>1, <3>2 DEF ReadInv, TellInv
  <2>2. CASE b = a /\ att[a].name \notin Accounts
    BY <1>3, <2>2 DEF ReadInv
  <2>3. CASE b # a
    BY <1>1, <1>3, <2>3 DEF IInv, ReadInv
  <2> QED
    BY <2>1, <2>2, <2>3
<1>7. ASSUME NEW u \in Accounts PROVE TellInv(u)'
  BY <1>1 DEF IInv, TellInv
<1> QED
  BY <1>4, <1>5, <1>6, <1>7 DEF IInv

\* The worker is done with the password.
LEMMA HashedPreserves ==
    ASSUME IInv, NEW a \in Attempts, Hashed(a)
    PROVE  IInv'
<1>1. UNCHANGED <<time, user, line, told>> /\ att[a].pc = "hashing"
  BY DEF Hashed, guard
<1>2. /\ att' \in [Attempts -> AttemptType] /\ \A b \in Attempts \ {a} : att'[b] = att[b]
      /\ att'[a].pc = "hashed" /\ att'[a].name = att[a].name
      /\ att'[a].now = att[a].now /\ att'[a].row = att[a].row
  <2>1. att[a] \in [pc : {"called", "hashing", "hashed", "counted"}, name : Names,
                    client : Clients, guess : 0 .. MaxVersion, now : Nat, row : RowType]
    BY <1>1, InFlight DEF IInv
  <2> QED
    BY <2>1 DEF IInv, SignInType, Hashed, AttemptType
<1>3. SignInType'
  BY <1>1, <1>2 DEF IInv, SignInType
<1>4. ASSUME NEW b \in Attempts PROVE LineInv(b)' /\ ReadInv(b)'
  BY <1>1, <1>2 DEF IInv, LineInv, ReadInv
<1>5. ASSUME NEW u \in Accounts PROVE TellInv(u)'
  BY <1>1 DEF IInv, TellInv
<1> QED
  BY <1>3, <1>4, <1>5 DEF IInv

\* The wrong password is counted from the row as it was read, which nobody
\* has changed meanwhile but a reset, and a reset leaves the throttle alone.
LEMMA CountFailurePreserves ==
    ASSUME IInv, NEW a \in Attempts, CountFailure(a)
    PROVE  IInv'
<1> DEFINE n == att[a].name
           row == att[a].row
           now == att[a].now
<1>1. UNCHANGED <<time, line>> /\ att[a].pc = "hashed"
  BY DEF CountFailure, guard
<1>2. att[a] \in [pc : {"called", "hashing", "hashed", "counted"}, name : Names,
                  client : Clients, guess : 0 .. MaxVersion, now : Nat, row : RowType]
  BY <1>1, InFlight DEF IInv
<1>3. /\ att' \in [Attempts -> AttemptType] /\ \A b \in Attempts \ {a} : att'[b] = att[b]
      /\ att'[a].pc = "counted" /\ att'[a].name = n
  BY <1>2 DEF IInv, SignInType, CountFailure, AttemptType
<1>4. ASSUME NEW b \in Attempts PROVE LineInv(b)'
  BY <1>1, <1>3 DEF IInv, LineInv
<1>5. CASE n \notin Accounts
  <2>1. UNCHANGED <<user, told>>
    BY <1>5 DEF CountFailure
  <2>2. SignInType'
    BY <1>1, <1>3, <2>1 DEF IInv, SignInType
  <2>3. ASSUME NEW b \in Attempts PROVE ReadInv(b)'
    BY <1>1, <1>3, <2>1 DEF IInv, ReadInv
  <2>4. ASSUME NEW u \in Accounts PROVE TellInv(u)'
    BY <1>1, <2>1 DEF IInv, TellInv
  <2> QED
    BY <1>4, <2>2, <2>3, <2>4 DEF IInv
<1>6. CASE n \in Accounts
  <2> DEFINE new == [Counted(row, now) EXCEPT !.version = user[n].version]
  <2>1. /\ row \in RowType /\ told[n] \in Seq(Nat) /\ user[n] \in RowType
    BY <1>2, <1>6 DEF IInv, SignInType
  <2>2. /\ row.failed = user[n].failed /\ row.window = user[n].window
        /\ row.locked = user[n].locked /\ row.window <= now /\ row.locked <= now
        /\ now \in 1 .. time /\ \A i \in DOMAIN told[n] : told[n][i] <= now
    BY <1>1, <1>6 DEF IInv, ReadInv
  <2>3. time \in Nat /\ now \in Nat \ {0} /\ now <= time
    BY <1>2, <2>2 DEF IInv, SignInType
  <2>4. Tally(row, told[n])
    BY <1>6, <2>2, TallySame DEF IInv, TellInv
  <2>5. /\ Tally(Counted(row, now), Append(told[n], now))
        /\ Counted(row, now) \in RowType /\ Counted(row, now).window <= now
    BY <2>1, <2>2, <2>3, <2>4, CountedTally
  <2>6. /\ new \in RowType /\ new.failed = Counted(row, now).failed
        /\ new.window = Counted(row, now).window /\ new.locked = Counted(row, now).locked
    <3>1. user[n].version \in Nat
      BY <2>1 DEF RowType
    <3> QED
      BY <2>5, <3>1 DEF RowType
  <2>7. Tally(new, Append(told[n], now))
    BY <2>5, <2>6, TallySame
  <2>8. /\ user' = [user EXCEPT ![n] = new] /\ told' = [told EXCEPT ![n] = Append(told[n], now)]
    BY <1>6 DEF CountFailure
  <2>9. /\ user'[n] = new /\ told'[n] = Append(told[n], now)
        /\ \A u \in Accounts \ {n} : user'[u] = user[u] /\ told'[u] = told[u]
        /\ user' \in [Accounts -> RowType] /\ told' \in [Accounts -> Seq(Nat)]
    <3>1. Append(told[n], now) \in Seq(Nat)
      BY <2>1, <2>3, AppendProperties
    <3> HIDE DEF new
    <3> QED
      BY <1>6, <2>6, <2>8, <3>1 DEF IInv, SignInType
  <2>10. SignInType'
    BY <1>1, <1>3, <2>9 DEF IInv, SignInType
  <2>11. ASSUME NEW b \in Attempts PROVE ReadInv(b)'
    <3>1. CASE b = a
      BY <1>3, <3>1 DEF ReadInv
    <3>2. CASE b # a /\ att[b].pc \in {"hashing", "hashed"} /\ att[b].name \in Accounts
      <4>1. att[b].name # n
        BY <1>1, <3>2, OnlyOneInside DEF IInv
      <4>2. /\ att'[b] = att[b] /\ user'[att[b].name] = user[att[b].name]
            /\ told'[att[b].name] = told[att[b].name] /\ time' = time
        BY <1>1, <1>3, <2>9, <3>2, <4>1
      <4> QED
        BY <3>2, <4>2 DEF IInv, ReadInv
    <3>3. CASE b # a /\ ~(att[b].pc \in {"hashing", "hashed"} /\ att[b].name \in Accounts)
      BY <1>3, <3>3 DEF ReadInv
    <3> QED
      BY <3>1, <3>2, <3>3
  <2>12. ASSUME NEW u \in Accounts PROVE TellInv(u)'
    <3>1. CASE u = n
      <4>1. new.window <= time
        BY <2>3, <2>5, <2>6 DEF RowType
      <4>2. \A i \in DOMAIN Append(told[n], now) : Append(told[n], now)[i] <= time
        BY <2>1, <2>2, <2>3, AppendProperties, LenProperties, ElementOfSeq
      <4> HIDE DEF new
      <4> QED
        BY <1>1, <2>7, <2>9, <3>1, <4>1, <4>2 DEF TellInv
    <3>2. CASE u # n
      BY <1>1, <2>9, <3>2 DEF IInv, TellInv
    <3> QED
      BY <3>1, <3>2
  <2> QED
    BY <1>4, <2>10, <2>11, <2>12 DEF IInv
<1> QED
  BY <1>5, <1>6

\* A right password clears the throttle and opens a session.
LEMMA SucceedPreserves ==
    ASSUME IInv, NEW a \in Attempts, Succeed(a)
    PROVE  IInv'
<1> DEFINE n == att[a].name
           new == [NoRow EXCEPT !.version = user[n].version]
<1>1. /\ att[a].pc = "hashed" /\ n \in Accounts /\ Leave(a) /\ UNCHANGED time
      /\ user' = [user EXCEPT ![n] = new] /\ told' = [told EXCEPT ![n] = <<>>]
  BY DEF Succeed, Right
<1>2. line[n] # <<>> /\ line[n][1] = a
  BY <1>1, InsideIsFirst DEF IInv
<1>3. /\ att' \in [Attempts -> AttemptType] /\ line' \in [Names -> Seq(Attempts)]
      /\ att'[a].pc = "idle" /\ \A b \in Attempts \ {a} : att'[b] = att[b]
      /\ \A b \in Attempts : LineInv(b)'
  BY <1>1, <1>2, LeaveLine DEF IInv
<1>4. new \in RowType /\ new.failed = 0 /\ new.window = 0
  <2>1. user[n].version \in Nat
    BY <1>1 DEF IInv, SignInType, RowType
  <2> QED
    BY <2>1 DEF NoRow, RowType
<1>5. /\ user'[n] = new /\ told'[n] = <<>>
      /\ \A u \in Accounts \ {n} : user'[u] = user[u] /\ told'[u] = told[u]
      /\ user' \in [Accounts -> RowType] /\ told' \in [Accounts -> Seq(Nat)]
  <2> HIDE DEF new
  <2> QED
    BY <1>1, <1>4, EmptySeq DEF IInv, SignInType
<1>6. SignInType'
  BY <1>1, <1>3, <1>5 DEF IInv, SignInType
<1>7. ASSUME NEW b \in Attempts PROVE ReadInv(b)'
  <2>1. CASE b = a
    BY <1>3, <2>1 DEF ReadInv
  <2>2. CASE b # a /\ att[b].pc \in {"hashing", "hashed"} /\ att[b].name \in Accounts
    <3>1. att[b].name # n
      BY <1>1, <2>2, OnlyOneInside DEF IInv
    <3> QED
      BY <1>1, <1>3, <1>5, <2>2, <3>1 DEF IInv, ReadInv
  <2>3. CASE b # a /\ ~(att[b].pc \in {"hashing", "hashed"} /\ att[b].name \in Accounts)
    BY <1>3, <2>3 DEF ReadInv
  <2> QED
    BY <2>1, <2>2, <2>3
<1>8. ASSUME NEW u \in Accounts PROVE TellInv(u)'
  <2>1. CASE u = n
    <3>1. Tally(new, <<>>)
      BY <1>4, TallyFresh
    <3>2. DOMAIN <<>> = {}
      BY EmptySeq
    <3>3. time' \in Nat /\ 0 <= time'
      BY <1>1 DEF IInv, SignInType
    <3> HIDE DEF new
    <3> QED
      BY <1>4, <1>5, <2>1, <3>1, <3>2, <3>3 DEF TellInv
  <2>2. CASE u # n
    BY <1>1, <1>5, <2>2 DEF IInv, TellInv
  <2> QED
    BY <2>1, <2>2
<1> QED
  BY <1>3, <1>6, <1>7, <1>8 DEF IInv

\* A reset changes the version alone, also under an attempt that is hashing.
LEMMA ResetPreserves ==
    ASSUME IInv, NEW u \in Accounts, ResetPassword(u)
    PROVE  IInv'
<1> DEFINE new == [user[u] EXCEPT !.version = @ + 1]
<1>1. UNCHANGED <<time, att, line, told>> /\ user' = [user EXCEPT ![u] = new]
  BY DEF ResetPassword, guard
<1>2. /\ new \in RowType /\ new.failed = user[u].failed /\ new.window = user[u].window
      /\ new.locked = user[u].locked
  <2>1. user[u] \in RowType
    BY DEF IInv, SignInType
  <2>2. user[u].version + 1 \in Nat
    BY <2>1 DEF RowType
  <2> QED
    BY <2>1, <2>2 DEF RowType
<1>3. /\ user'[u] = new /\ \A v \in Accounts \ {u} : user'[v] = user[v]
      /\ user' \in [Accounts -> RowType]
  <2> HIDE DEF new
  <2> QED
    BY <1>1, <1>2 DEF IInv, SignInType
<1>4. SignInType'
  BY <1>1, <1>3 DEF IInv, SignInType
<1>5. ASSUME NEW a \in Attempts PROVE LineInv(a)'
  BY <1>1 DEF IInv, LineInv
<1>6. \A v \in Accounts : /\ user'[v].failed = user[v].failed /\ user'[v].window = user[v].window
                          /\ user'[v].locked = user[v].locked
  <2> HIDE DEF new
  <2> QED
    BY <1>2, <1>3
<1>7. ASSUME NEW a \in Attempts PROVE ReadInv(a)'
  BY <1>1, <1>6 DEF IInv, ReadInv
<1>8. ASSUME NEW v \in Accounts PROVE TellInv(v)'
  <2>1. Tally(user'[v], told[v])
    BY <1>6, TallySame DEF IInv, TellInv
  <2> QED
    BY <1>1, <1>6, <2>1 DEF IInv, TellInv
<1> QED
  BY <1>4, <1>5, <1>7, <1>8 DEF IInv

\* The clock goes on.
LEMMA TickPreserves ==
    ASSUME IInv, Tick
    PROVE  IInv'
<1>1. UNCHANGED <<user, att, line, told>> /\ time' = time + 1
  BY DEF Tick, guard
<1>2. SignInType'
  BY <1>1 DEF IInv, SignInType
<1>3. ASSUME NEW a \in Attempts PROVE LineInv(a)'
  BY <1>1 DEF IInv, LineInv
<1>4. ASSUME NEW a \in Attempts PROVE ReadInv(a)'
  <2>1. time \in Nat
    BY DEF IInv, SignInType
  <2> QED
    BY <1>1, <2>1 DEF IInv, ReadInv
<1>5. ASSUME NEW u \in Accounts PROVE TellInv(u)'
  <2>1. /\ time \in Nat /\ user[u].window \in Nat /\ \A i \in DOMAIN told[u] : told[u][i] \in Nat
    BY ElementOfSeq DEF IInv, SignInType, RowType
  <2> QED
    BY <1>1, <2>1 DEF IInv, TellInv
<1> QED
  BY <1>2, <1>3, <1>4, <1>5 DEF IInv

\* The invariant holds initially and after every step.
LEMMA ThrottleInvariant == Spec => []IInv
<1>1. Init => IInv
  <2> SUFFICES ASSUME Init PROVE IInv
    OBVIOUS
  <2>1. SignInType
    BY EmptySeq DEF Init, SignInType, RowType, NoRow, AttemptType
  <2>2. ASSUME NEW a \in Attempts PROVE LineInv(a) /\ ReadInv(a)
    BY DEF Init, Idle, LineInv, ReadInv
  <2>3. ASSUME NEW u \in Accounts PROVE TellInv(u)
    <3>1. told[u] = <<>> /\ user[u].failed = 0 /\ user[u].window = 0 /\ time = 1
      BY DEF Init, NoRow
    <3>2. Tally(user[u], told[u])
      BY <3>1, TallyFresh
    <3>3. DOMAIN told[u] = {}
      BY <3>1, EmptySeq
    <3> QED
      BY <3>1, <3>2, <3>3 DEF TellInv
  <2> QED
    BY <2>1, <2>2, <2>3 DEF IInv
<1>2. IInv /\ [Next]_vars => IInv'
  <2> SUFFICES ASSUME IInv, [Next]_vars PROVE IInv'
    OBVIOUS
  <2>1. ASSUME NEW a \in Attempts, AttemptStep(a) PROVE IInv'
    <3>1. CASE Throttled(a) \/ Busy(a) \/ RecordFailure(a) \/ WriteFails(a)
      BY <3>1, AnswerPreserves DEF Throttled, Busy, RecordFailure, WriteFails
    <3> QED
      BY <2>1, <3>1, StartHashPreserves, HashedPreserves, CountFailurePreserves, SucceedPreserves
         DEF AttemptStep
  <2>2. ASSUME UNCHANGED <<time, user, att, line, told>> PROVE IInv'
    BY <2>2 DEF IInv, SignInType, LineInv, ReadInv, TellInv
  <2>3. ASSUME NEW s \in sessions, UseStale(s) \/ Logout(s) PROVE IInv'
    BY <2>2, <2>3 DEF UseStale, Logout, guard
  <2>4. CASE UNCHANGED vars
    BY <2>2, <2>4 DEF vars, guard
  <2> QED
    BY <2>1, <2>3, <2>4, LoginPreserves, ResetPreserves, TickPreserves DEF Next
<1> QED
  BY <1>1, <1>2, PTL DEF Spec
-----------------------------------------------------------------------------

\* However attempts at an account overlap with each other and with resets, its
\* counter is the number of refusals since its window began (LoginGuard.account).
THEOREM FailuresAreCounted == Spec => []CounterIsExact
<1>1. IInv => CounterIsExact
  BY DEF IInv, TellInv, Tally, CounterIsExact
<1> QED
  BY <1>1, ThrottleInvariant, PTL

\* For every setting with a lock at least as long as the window, no stretch of
\* the window's length tells more than 2 * (LoginAttempts - 1) wrong guesses at
\* an account (authenticate_user).
THEOREM WrongGuessesAreBounded == Spec => []GuessesBounded
<1>1. IInv => GuessesBounded
  <2> SUFFICES ASSUME IInv, LockTime >= Window, NEW u \in Accounts, NEW from \in 1 .. MaxTime
               PROVE  Cardinality(Within(told[u], from, from + Window)) <= 2 * (LoginAttempts - 1)
    BY DEF GuessesBounded
  <2>1. from \in Nat
    BY SignInAssumption
  <2> QED
    BY <2>1 DEF IInv, TellInv, Tally
<1> QED
  BY <1>1, ThrottleInvariant, PTL
=============================================================================
