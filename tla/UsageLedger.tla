----------------------------- MODULE UsageLedger -----------------------------
(***************************************************************************)
(* What a provider call costs: the append-only usage_events ledger and the *)
(* reconciliation that settles calls whose stream named no amount          *)
(* (src/src/oveo/generation.py and usage.py).                              *)
(*                                                                         *)
(* A call is known by its provider generation id.  The id is stored as a   *)
(* `pending' row when the first chunk names it, in a write a Stop cannot   *)
(* abort; the amount is stored when the call ends, or later by a pass over *)
(* the pending rows.  Writers race, so a charge is keyed by the call.      *)
(* Amounts, accounts and purposes are left out.  A call holds a slot of    *)
(* ProviderSlots while it talks to the provider; a failed one still holds  *)
(* it while it is recorded, a completed one has given it back by then.     *)
(***************************************************************************)
EXTENDS ProviderSlots, Sequences

CONSTANTS
    MaxTries,        \* _RECONCILE_MAX_ATTEMPTS (8 in the code)
    BatchSize,       \* _RECONCILE_BATCH_SIZE (8)
    MaxCandidates,   \* _RECONCILE_CANDIDATES (64)
    MaxFaults,       \* bound: failed writes
    MaxCrashes       \* bound: ends of the process

ASSUME LedgerAssumption ==
    /\ MaxTries \in Nat \ {0} /\ BatchSize \in Nat \ {0} /\ MaxCandidates \in Nat \ {0}
    /\ MaxFaults \in Nat /\ MaxCrashes \in Nat

VARIABLES
    pending,     \* calls with a pending row, oldest first
    charges,     \* charge rows: <<call, key>>, the key being unique
    call,        \* "none" | "open" (named by the provider) | "ended" | "closed"
    ids,         \* the early write of the id: "none" | "writing" | "over"
    outcome,     \* the write at the end: "none" | "cost" | "noCost" | "over"
    pass,        \* the reconciliation pass: pc and the rows left to look up
    requested,   \* _reconcile_requested
    timer,       \* a wake-up is scheduled
    backoff,     \* _reconcile_backoff: tries, and whether the delay is over
    due,         \* history: rows a finished run asked reconciliation to look at
    lost,        \* history: calls one of whose writes failed or crashed
    faults, crashes

ledger == <<pending, charges>>
writes == <<call, ids, outcome>>
reconciler == <<pass, requested, timer, backoff, due>>
vars == <<slots, ledger, writes, reconciler, lost, faults, crashes>>

Idle == [pc |-> "idle", batch |-> <<>>]
Fresh == [tries |-> 0, ready |-> TRUE]
Rows == {pending[i] : i \in 1 .. Len(pending)}
Charged(c) == \E row \in charges : row[1] = c

Init ==
    /\ SlotsInit
    /\ pending = <<>> /\ charges = {}
    /\ call = [c \in Calls |-> "none"]
    /\ ids = [c \in Calls |-> "none"]
    /\ outcome = [c \in Calls |-> "none"]
    /\ pass = Idle /\ requested = FALSE /\ timer = FALSE
    /\ backoff = [c \in Calls |-> Fresh]
    /\ due = {} /\ lost = {} /\ faults = 0 /\ crashes = 0

-----------------------------------------------------------------------------
(* append_usage_event: a duplicate key is refused and changes nothing.     *)

AppendPending(c) == pending' = IF c \in Rows THEN pending ELSE Append(pending, c)

AppendCharge(c, key) == charges' = charges \cup {<<c, key>>}

\* Mutant: the amount of the stream is stored under a key of its own.
ChargeKeyOfStream == "stream-charge"

\* The key of _record_usage is the one every reconciler uses.
ChargeKey == "reconciled-charge"

-----------------------------------------------------------------------------
(* A provider call (_call_provider).                                       *)

\* Waiting for the slot, and giving up.
Waits(c) ==
    /\ SlotStep(c)
    /\ UNCHANGED <<ledger, writes, reconciler, lost, faults, crashes>>

RequestStop(c) ==
    /\ Stop(c)
    /\ UNCHANGED <<ledger, writes, reconciler, lost, faults, crashes>>

\* The first chunk names the call.
Named(c) ==
    /\ pc[c] = "calling" /\ call[c] = "none"
    /\ call' = [call EXCEPT ![c] = "open"]
    /\ ids' = [ids EXCEPT ![c] = "writing"]
    /\ UNCHANGED <<slots, ledger, outcome, reconciler, lost, faults, crashes>>

IdsWritten(c) ==
    /\ ids[c] = "writing"
    /\ ids' = [ids EXCEPT ![c] = "over"]
    /\ AppendPending(c)
    /\ UNCHANGED <<slots, charges, call, outcome, reconciler, lost, faults, crashes>>

\* The stream waits for that write before it goes on to its end, a result or
\* a failure.  A call that was never named leaves nothing to record.
CallEnds(c) ==
    /\ pc[c] = "calling"
    /\ CallFails(c) \/ Release(c)
    /\ \/ /\ call[c] = "open" /\ ids[c] = "over"
          /\ \E amount \in {"cost", "noCost"} : outcome' = [outcome EXCEPT ![c] = amount]
       \/ call[c] = "none" /\ outcome' = [outcome EXCEPT ![c] = "over"]
    /\ call' = [call EXCEPT ![c] = "ended"]
    /\ UNCHANGED <<ledger, ids, reconciler, lost, faults, crashes>>

\* The deadline of the attempt ends the wait for that write, not the write: the
\* failure is recorded while the id may still be on its way.
CallTimesOut(c) ==
    /\ pc[c] = "calling" /\ ids[c] = "writing" /\ CallFails(c)
    /\ outcome' = [outcome EXCEPT ![c] = "noCost"]
    /\ call' = [call EXCEPT ![c] = "ended"]
    /\ UNCHANGED <<ledger, ids, reconciler, lost, faults, crashes>>

\* Mutant: cancelling the stream also cancels the write it waits for.
CallStoppedUnshielded(c) ==
    /\ pc[c] = "calling" /\ c \in stop /\ Release(c)
    /\ call' = [call EXCEPT ![c] = "ended"]
    /\ ids' = [ids EXCEPT ![c] = IF @ = "writing" THEN "over" ELSE @]
    /\ outcome' = [outcome EXCEPT ![c] = "over"]
    /\ UNCHANGED <<ledger, reconciler, lost, faults, crashes>>

\* Stop cancels the call, not the shielded write; nothing more is recorded.
CallStopped(c) ==
    /\ pc[c] = "calling" /\ c \in stop /\ Release(c)
    /\ call' = [call EXCEPT ![c] = "ended"]
    /\ outcome' = [outcome EXCEPT ![c] = "over"]
    /\ UNCHANGED <<ledger, ids, reconciler, lost, faults, crashes>>

\* _record_usage: charge, or leave the call for reconciliation.
UsageWritten(c) ==
    /\ outcome[c] \in {"cost", "noCost"}
    /\ IF outcome[c] = "cost"
       THEN AppendCharge(c, ChargeKey) /\ UNCHANGED pending
       ELSE AppendPending(c) /\ UNCHANGED charges
    /\ outcome' = [outcome EXCEPT ![c] = "over"]
    /\ UNCHANGED <<slots, call, ids, reconciler, lost, faults, crashes>>

\* The failure is recorded: the outer finally releases the slot.
FailureRecorded(c) ==
    /\ pc[c] = "recording" /\ outcome[c] = "over" /\ Release(c)
    /\ UNCHANGED <<ledger, writes, reconciler, lost, faults, crashes>>

WriteFails(c) ==
    /\ faults < MaxFaults /\ faults' = faults + 1
    /\ lost' = lost \cup {c}
    /\ \/ /\ ids[c] = "writing"
          /\ ids' = [ids EXCEPT ![c] = "over"] /\ UNCHANGED outcome
       \/ /\ outcome[c] \in {"cost", "noCost"}
          /\ outcome' = [outcome EXCEPT ![c] = "over"] /\ UNCHANGED ids
    /\ UNCHANGED <<slots, ledger, call, reconciler, crashes>>

-----------------------------------------------------------------------------
(* Reconciliation.                                                         *)

\* reconcile_later: one pass at a time; a request during a pass is remembered.
ReconcileLater ==
    IF pass.pc = "idle"
    THEN pass' = [Idle EXCEPT !.pc = "select"] /\ requested' = FALSE
    ELSE requested' = TRUE /\ UNCHANGED pass

\* _run's finally.
RunEnds(c) ==
    /\ pc[c] = "over" /\ (call[c] = "none" \/ (call[c] = "ended" /\ outcome[c] = "over"))
    /\ call' = [call EXCEPT ![c] = "closed"]
    /\ stop' = stop \ {c}
    /\ ReconcileLater
    /\ due' = due \cup {d \in Rows : ~Charged(d)}
    /\ UNCHANGED <<pc, acquire, free, ledger, ids, outcome, timer, backoff, lost, faults, crashes>>

Min2(a, b) == IF a <= b THEN a ELSE b

\* The oldest pending rows no charge settles.
Candidates ==
    LET open == SelectSeq(pending, LAMBDA c : ~Charged(c))
    IN  SubSeq(open, 1, Min2(Len(open), MaxCandidates))

\* Its delay is over and tries are left.
Eligible(c) == backoff[c].ready /\ backoff[c].tries < MaxTries

\* The SELECT; rows that left the list lose their backoff.
PassSelect ==
    LET rows == Candidates
        batch == SelectSeq(rows, Eligible)
    IN
    /\ pass.pc = "select"
    /\ pass' = [pc |-> "lookup", batch |-> SubSeq(batch, 1, Min2(Len(batch), BatchSize))]
    /\ backoff' = [c \in Calls |->
                     IF \E i \in 1 .. Len(rows) : rows[i] = c THEN backoff[c] ELSE Fresh]
    /\ due' = {}
    /\ UNCHANGED <<slots, ledger, writes, requested, timer, lost, faults, crashes>>

\* The metadata endpoint knows the amount, or the row waits (_defer_...).
PassLookup ==
    /\ pass.pc = "lookup" /\ pass.batch # <<>>
    /\ \/ /\ pass' = [pass EXCEPT !.pc = "charge"]
          /\ backoff' = [backoff EXCEPT ![Head(pass.batch)] = Fresh]
       \/ /\ pass' = [pass EXCEPT !.batch = Tail(@)]
          /\ backoff' = [backoff EXCEPT ![Head(pass.batch)] =
                           [tries |-> @.tries + 1, ready |-> FALSE]]
    /\ UNCHANGED <<slots, ledger, writes, requested, timer, due, lost, faults, crashes>>

PassCharge ==
    LET c == Head(pass.batch) IN
    /\ pass.pc = "charge"
    /\ AppendCharge(c, "reconciled-charge")
    /\ pass' = [pc |-> "lookup", batch |-> Tail(pass.batch)]
    /\ UNCHANGED <<slots, pending, writes, requested, timer, backoff, due, lost, faults, crashes>>

\* Mutant: a request made during the pass is dropped.
PassOverForgets ==
    /\ pass' = Idle
    /\ UNCHANGED requested

\* The done-callback: run again if someone asked meanwhile.
PassOver ==
    /\ pass' = IF requested THEN [Idle EXCEPT !.pc = "select"] ELSE Idle
    /\ requested' = FALSE

\* The pass ends, and wakes up again for rows that may still be tried.
PassEnds ==
    /\ pass.pc = "lookup" /\ pass.batch = <<>>
    /\ timer' = (timer \/ \E c \in Calls : backoff[c].tries \in 1 .. MaxTries - 1)
    /\ PassOver
    /\ UNCHANGED <<slots, ledger, writes, backoff, due, lost, faults, crashes>>

\* A write of the pass fails: it is logged and the pass is over.
PassFails ==
    /\ pass.pc = "charge"
    /\ faults < MaxFaults /\ faults' = faults + 1
    /\ PassOver
    /\ UNCHANGED <<slots, ledger, writes, timer, backoff, due, lost, crashes>>

\* Time passes: the delay of a row is over.
DelayOver(c) ==
    /\ ~backoff[c].ready
    /\ backoff' = [backoff EXCEPT ![c].ready = TRUE]
    /\ UNCHANGED <<slots, ledger, writes, pass, requested, timer, due, lost, faults, crashes>>

\* The wake-up; the clock that orders it and the delays is left out.
TimerFires ==
    /\ timer /\ timer' = FALSE
    /\ ReconcileLater
    /\ UNCHANGED <<slots, ledger, writes, backoff, due, lost, faults, crashes>>

\* Memory and open transactions are lost; startup asks for a pass.
Crash ==
    /\ crashes < MaxCrashes /\ crashes' = crashes + 1
    /\ SlotsLost
    /\ lost' = lost \cup {c \in Calls : ids[c] = "writing" \/ outcome[c] \in {"cost", "noCost"}}
    /\ call' = [c \in Calls |-> IF pc[c] = "idle" THEN call[c] ELSE "closed"]
    /\ ids' = [c \in Calls |-> IF ids[c] = "none" THEN "none" ELSE "over"]
    /\ outcome' = [c \in Calls |-> IF pc[c] = "idle" THEN outcome[c] ELSE "over"]
    /\ pass' = [Idle EXCEPT !.pc = "select"] /\ requested' = FALSE /\ timer' = FALSE
    /\ backoff' = [c \in Calls |-> Fresh]
    /\ UNCHANGED <<ledger, due, faults>>

CallStep(c) ==
    \/ Waits(c) \/ Named(c) \/ IdsWritten(c) \/ CallEnds(c) \/ CallTimesOut(c) \/ CallStopped(c) \/ UsageWritten(c)
    \/ FailureRecorded(c) \/ WriteFails(c) \/ RunEnds(c)

PassStep == PassSelect \/ PassLookup \/ PassCharge \/ PassEnds \/ PassFails

Next ==
    \/ \E c \in Calls : CallStep(c) \/ RequestStop(c) \/ DelayOver(c)
    \/ PassStep \/ TimerFires \/ Crash

Spec == Init /\ [][Next]_vars

\* Provider calls and lookups time out, so calls and passes go on.
FairSpec == Spec /\ WF_vars(PassStep) /\ \A c \in Calls : WF_vars(CallStep(c))
-----------------------------------------------------------------------------

\* A call is charged once, although its own stream and a reconciliation pass
\* that read it as pending may both append a charge (_record_usage).
ChargedOnce == \A c \in Calls : Cardinality({row \in charges : row[1] = c}) <= 1

\* A call the provider named is never forgotten: unless one of its writes was
\* lost, it ends up pending or charged, stopped in the middle or not.
CallIsOnTheLedger ==
    \A c \in Calls : (call[c] = "closed" /\ ids[c] = "over" /\ c \notin lost) =>
        c \in Rows \/ Charged(c)

\* What a finished run asked to be reconciled is looked at by a pass that
\* starts afterwards, also when a pass was under way (reconcile_later).
RequestIsServed == due # {} ~> due = {}
=============================================================================
