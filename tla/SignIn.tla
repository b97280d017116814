------------------------------- MODULE SignIn -------------------------------
(***************************************************************************)
(* Signing in: the login handler, LoginGuard (failure rates, one attempt   *)
(* at a time for an account, the bounded Argon2 worker), the account's     *)
(* persistent throttle in authenticate_user, the sessions it issues, and   *)
(* `oveo-admin reset-password', which runs in a process of its own.        *)
(*                                                                         *)
(* A password is known by the credential version it belongs to; 0 is one   *)
(* that was never valid.  Time is counted in ticks, 0 standing for "not    *)
(* set" in an account row.                                                 *)
(***************************************************************************)
EXTENDS Naturals, Sequences, FiniteSets, SequencesExt

CONSTANTS
    Attempts,      \* login requests that may be in flight together
    Accounts,      \* usernames with an account
    Strangers,     \* usernames without one
    Clients,       \* client addresses
    LoginAttempts, \* settings.login_attempts
    Window,        \* settings.login_window_seconds, also LoginGuard's window
    LockTime,      \* settings.login_lock_seconds
    SessionTime,   \* settings.session_days
    ClientLimit, GlobalLimit, \* failures before LoginGuard refuses
    MaxTracked,    \* _MAX_TRACKED_CLIENTS
    MaxWaiting,    \* _MAX_WAITING_PER_ACCOUNT
    MaxPending,    \* _MAX_PENDING_VERIFICATIONS
    MaxVersion,    \* bound: credential versions
    MaxTime        \* bound: ticks

ASSUME SignInAssumption ==
    /\ Accounts \cap Strangers = {}
    /\ {LoginAttempts, Window, LockTime, SessionTime, ClientLimit, GlobalLimit,
        MaxTracked, MaxWaiting, MaxPending, MaxVersion, MaxTime} \subseteq Nat \ {0}
    /\ LoginAttempts >= 2

VARIABLES
    time,
    user,      \* the account rows
    sessions,  \* the session rows
    att,       \* the attempts in flight
    line,      \* for a username, who holds its lock (first) and who waits
    global,    \* LoginGuard._global: times of failures
    clients,   \* LoginGuard._clients: their failures, the latest to fail last
    told       \* history: for an account, when wrong passwords were refused

guard == <<line, global, clients>>
vars == <<time, user, sessions, att, guard, told>>

Names == Accounts \cup Strangers
NoRow == [failed |-> 0, window |-> 0, locked |-> 0, version |-> 0]
Idle == [pc |-> "idle"]

Init ==
    /\ time = 1
    /\ user = [u \in Accounts |-> [NoRow EXCEPT !.version = 1]]
    /\ sessions = {}
    /\ att = [a \in Attempts |-> Idle]
    /\ line = [n \in Names |-> <<>>]
    /\ global = <<>> /\ clients = <<>>
    /\ told = [u \in Accounts |-> <<>>]
-----------------------------------------------------------------------------
(* LoginGuard                                                              *)

\* _expire drops the failures that have left the window.
Recent(failures) == SelectSeq(failures, LAMBDA t : t + Window > time)

FailuresOf(c) ==
    FlattenSeq([i \in DOMAIN clients |-> IF clients[i].client = c THEN clients[i].times ELSE <<>>])

Others(c) == SelectSeq(clients, LAMBDA e : e.client # c)

\* account() refuses a username with enough attempts waiting.
Admits(n) == Len(line[n]) < MaxWaiting

\* Mutant: attempts for one account are not serialised.
InsideAnyway(a) == att[a].pc # "idle"

\* asyncio.Lock is fair: the attempt at the head of the line is inside.
Inside(a) == att[a].pc # "idle" /\ Head(line[att[a].name]) = a

\* The lock passes to the next in line.
Leave(a) ==
    /\ line' = [line EXCEPT ![att[a].name] = Tail(@)]
    /\ att' = [att EXCEPT ![a] = Idle]

Hashing == {a \in Attempts : att[a].pc = "hashing"}

-----------------------------------------------------------------------------
(* The login handler.  A refused attempt (429 before any hashing) leaves   *)
(* no trace and is no step.                                                *)

Login(a, n, c, guess) ==
    /\ att[a].pc = "idle"
    /\ Len(Recent(global)) < GlobalLimit /\ Len(Recent(FailuresOf(c))) < ClientLimit
    /\ Admits(n)
    /\ att' = [att EXCEPT ![a] = [pc |-> "called", name |-> n, client |-> c, guess |-> guess,
                                  now |-> 0, row |-> NoRow]]
    /\ line' = [line EXCEPT ![n] = Append(@, a)]
    /\ global' = Recent(global)
    /\ clients' = [i \in DOMAIN clients |->
                     IF clients[i].client = c
                     THEN [clients[i] EXCEPT !.times = Recent(@)] ELSE clients[i]]
    /\ UNCHANGED <<time, user, sessions, told>>

Row(n) == IF n \in Accounts THEN user[n] ELSE NoRow

\* LoginThrottled.
Throttled(a) ==
    /\ att[a].pc = "called" /\ Inside(a)
    /\ time < Row(att[a].name).locked
    /\ Leave(a)
    /\ UNCHANGED <<time, user, sessions, global, clients, told>>

\* BoundedWorker.run, which counts a job until its thread is done with it.
WorkerFree == Cardinality(Hashing) < MaxPending

\* The row is read and its hash handed to the worker; a stranger's password
\* is checked against a dummy hash.
StartHash(a) ==
    LET row == Row(att[a].name) IN
    /\ att[a].pc = "called" /\ Inside(a)
    /\ time >= row.locked
    /\ WorkerFree
    /\ att' = [att EXCEPT ![a].pc = "hashing", ![a].now = time, ![a].row = row]
    /\ UNCHANGED <<time, user, sessions, guard, told>>

\* Mutant: the lock is not given back when the worker is busy.
BusyKeepsLock(a) ==
    /\ att[a].pc = "called" /\ Inside(a)
    /\ time >= Row(att[a].name).locked
    /\ ~WorkerFree
    /\ att' = [att EXCEPT ![a] = Idle]
    /\ UNCHANGED <<time, user, sessions, guard, told>>

\* LoginBusy from the worker: nothing was evaluated, nothing is counted.
Busy(a) ==
    /\ att[a].pc = "called" /\ Inside(a)
    /\ time >= Row(att[a].name).locked
    /\ ~WorkerFree
    /\ Leave(a)
    /\ UNCHANGED <<time, user, sessions, global, clients, told>>

Hashed(a) ==
    /\ att[a].pc = "hashing"
    /\ att' = [att EXCEPT ![a].pc = "hashed"]
    /\ UNCHANGED <<time, user, sessions, guard, told>>

Right(a) == att[a].name \in Accounts /\ att[a].guess = att[a].row.version

\* Mutant: the account is locked one failure late.
CountedLate(row, now) ==
    LET expired == row.window = 0 \/ now - row.window >= Window
        failed == IF expired THEN 1 ELSE row.failed + 1 IN
    [row EXCEPT !.window = IF expired THEN now ELSE @, !.failed = failed,
                !.locked = IF failed > LoginAttempts THEN now + LockTime ELSE @]

\* The throttle columns after one more wrong password.
Counted(row, now) ==
    LET expired == row.window = 0 \/ now - row.window >= Window
        failed == IF expired THEN 1 ELSE row.failed + 1 IN
    [row EXCEPT !.window = IF expired THEN now ELSE @, !.failed = failed,
                !.locked = IF failed >= LoginAttempts THEN now + LockTime ELSE @]

\* The UPDATE writes the throttle columns, computed from the row as read.
CountFailure(a) ==
    LET n == att[a].name IN
    /\ att[a].pc = "hashed" /\ ~Right(a)
    /\ att' = [att EXCEPT ![a].pc = "counted"]
    /\ IF n \in Accounts
       THEN /\ user' = [user EXCEPT ![n] =
                          [Counted(att[a].row, att[a].now) EXCEPT !.version = user[n].version]]
            /\ told' = [told EXCEPT ![n] = Append(@, att[a].now)]
       ELSE UNCHANGED <<user, told>>
    /\ UNCHANGED <<time, sessions, guard>>

\* record_failure, which forgets the client that failed longest ago when it
\* tracks too many; then the lock is released.
RecordFailure(a) ==
    LET c == att[a].client
        tracked == Append(Others(c), [client |-> c, times |-> Append(FailuresOf(c), time)]) IN
    /\ att[a].pc = "counted"
    /\ global' = Append(global, time)
    /\ clients' = IF Len(tracked) > MaxTracked THEN Tail(tracked) ELSE tracked
    /\ Leave(a)
    /\ UNCHANGED <<time, user, sessions, told>>

\* Mutant: the session takes the credential version the row has by now.
IssuedFresh(a) ==
    [name |-> att[a].name, version |-> user[att[a].name].version,
     password |-> att[a].guess, expires |-> time + SessionTime]

\* create_session, from the user object that was verified; password is history.
Issued(a) ==
    [name |-> att[a].name, version |-> att[a].row.version,
     password |-> att[a].guess, expires |-> time + SessionTime]

Succeed(a) ==
    LET n == att[a].name IN
    /\ att[a].pc = "hashed" /\ Right(a)
    /\ user' = [user EXCEPT ![n] = [NoRow EXCEPT !.version = user[n].version]]
    /\ sessions' = sessions \cup {Issued(a)}
    /\ told' = [told EXCEPT ![n] = <<>>]
    /\ Leave(a)
    /\ UNCHANGED <<time, global, clients>>

\* The write fails (SQLite stays locked): a 500 that tells nothing.
WriteFails(a) ==
    /\ att[a].pc = "hashed"
    /\ Leave(a)
    /\ UNCHANGED <<time, user, sessions, global, clients, told>>

-----------------------------------------------------------------------------
(* Sessions, the administrator, and the clock.                             *)

\* session_is_active and get_session_principal.
IsActive(s) == time < s.expires /\ s.version = user[s.name].version

\* A request with a session that is not active deletes it.
UseStale(s) ==
    /\ ~IsActive(s)
    /\ sessions' = sessions \ {s}
    /\ UNCHANGED <<time, user, att, guard, told>>

Logout(s) ==
    /\ IsActive(s)
    /\ sessions' = sessions \ {s}
    /\ UNCHANGED <<time, user, att, guard, told>>

ResetPassword(u) ==
    /\ user[u].version < MaxVersion
    /\ user' = [user EXCEPT ![u].version = @ + 1]
    /\ sessions' = {s \in sessions : s.name # u}
    /\ UNCHANGED <<time, att, guard, told>>

Tick ==
    /\ time < MaxTime /\ time' = time + 1
    /\ UNCHANGED <<user, sessions, att, guard, told>>

AttemptStep(a) ==
    \/ Throttled(a) \/ StartHash(a) \/ Busy(a) \/ Hashed(a)
    \/ CountFailure(a) \/ RecordFailure(a) \/ Succeed(a) \/ WriteFails(a)

Next ==
    \/ \E a \in Attempts, n \in Names, c \in Clients, guess \in 0 .. MaxVersion :
         Login(a, n, c, guess)
    \/ \E a \in Attempts : AttemptStep(a)
    \/ \E s \in sessions : UseStale(s) \/ Logout(s)
    \/ \E u \in Accounts : ResetPassword(u)
    \/ Tick

Spec == Init /\ [][Next]_vars

\* A handler goes on; nobody has to sign in, and the clock owes nothing.
FairSpec == Spec /\ \A a \in Attempts : WF_vars(AttemptStep(a))
-----------------------------------------------------------------------------

\* Which of a sequence of times lie at or after one, or in a stretch.
Since(times, from) == {i \in DOMAIN times : times[i] >= from}
Within(times, from, to) == {i \in Since(times, from) : times[i] < to}

\* No wrong password goes uncounted: the counter of an account is the number
\* of refusals since its window began, however attempts overlap.
CounterIsExact ==
    \A u \in Accounts :
        /\ user[u].failed = Cardinality(Since(told[u], user[u].window))
        /\ user[u].window = 0 => told[u] = <<>>

\* Between two sign-ins of its owner, an account tells at most twice the limit,
\* less two, of wrong guesses in any stretch of the window's length: the first
\* failure of a window and the first after it never lie in one stretch.
GuessesBounded ==
    LockTime >= Window =>
        \A u \in Accounts, from \in 1 .. MaxTime :
            Cardinality(Within(told[u], from, from + Window)) <= 2 * (LoginAttempts - 1)

\* A session that is accepted was opened with the account's current password,
\* even when the password was reset while it was being checked.
ResetEndsOldSessions ==
    \A s \in sessions : IsActive(s) => s.password = user[s.name].version

\* Every admitted attempt is answered: no path keeps an account's lock.
AttemptsEnd == \A a \in Attempts : (att[a].pc # "idle") ~> (att[a].pc = "idle")
=============================================================================
