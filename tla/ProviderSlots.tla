---------------------------- MODULE ProviderSlots ----------------------------
(***************************************************************************)
(* The process-wide cap on simultaneous provider calls: _call_provider and *)
(* _acquire_provider_slot in src/src/oveo/generation.py.  A call waits for *)
(* the semaphore in a helper task, so that a Stop can end the wait; the    *)
(* slot may be granted to that helper at the very moment the Stop arrives. *)
(* The semaphore is asyncio's: it hands a slot to a waiting future, and    *)
(* takes it back when the helper is cancelled before it ran.               *)
(***************************************************************************)
EXTENDS Naturals, FiniteSets

CONSTANTS
    Calls,     \* provider calls, each made once
    Slots      \* max_concurrent_provider_calls

ASSUME SlotsAssumption == IsFiniteSet(Calls) /\ Slots \in Nat \ {0}

VARIABLES
    pc,        \* where _call_provider of a call is
    acquire,   \* the helper task: "none" | "pending" | "granted" | "done" | "cancelling"
    free,      \* the semaphore's value
    stop       \* calls whose generation was stopped (or is shutting down)

slots == <<pc, acquire, free, stop>>

SlotsInit ==
    /\ pc = [c \in Calls |-> "idle"]
    /\ acquire = [c \in Calls |-> "none"]
    /\ free = Slots
    /\ stop = {}

\* A Stop that came first ends the call before it waits.
Begin(c) ==
    /\ pc[c] = "idle"
    /\ IF c \in stop
       THEN pc' = [pc EXCEPT ![c] = "over"] /\ UNCHANGED acquire
       ELSE /\ pc' = [pc EXCEPT ![c] = "waiting"]
            /\ acquire' = [acquire EXCEPT ![c] = "pending"]
    /\ UNCHANGED <<free, stop>>

\* The semaphore grants a slot; the helper runs later.
Grant(c) ==
    /\ acquire[c] = "pending" /\ free > 0
    /\ free' = free - 1
    /\ acquire' = [acquire EXCEPT ![c] = "granted"]
    /\ UNCHANGED <<pc, stop>>

HelperRuns(c) ==
    /\ \/ acquire[c] = "granted" /\ acquire' = [acquire EXCEPT ![c] = "done"] /\ UNCHANGED free
       \/ acquire[c] = "cancelling" /\ acquire' = [acquire EXCEPT ![c] = "none"] /\ free' = free + 1
    /\ UNCHANGED <<pc, stop>>

\* The wait ended with a slot and no Stop.
Acquired(c) ==
    /\ pc[c] = "waiting" /\ acquire[c] = "done" /\ c \notin stop
    /\ pc' = [pc EXCEPT ![c] = "calling"]
    /\ UNCHANGED <<acquire, free, stop>>

\* Mutant: a slot granted together with the Stop is kept.
GivesUpKeepsSlot(c) ==
    /\ pc[c] = "waiting" /\ c \in stop
    /\ pc' = [pc EXCEPT ![c] = "over"]
    /\ acquire' = [acquire EXCEPT ![c] = IF @ = "granted" THEN "cancelling" ELSE "none"]
    /\ UNCHANGED <<free, stop>>

\* Stop won: withdraw the request, or hand back what was already granted.
GivesUp(c) ==
    /\ pc[c] = "waiting" /\ c \in stop
    /\ pc' = [pc EXCEPT ![c] = "over"]
    /\ acquire' = [acquire EXCEPT ![c] = IF @ = "granted" THEN "cancelling" ELSE "none"]
    /\ free' = IF acquire[c] = "done" THEN free + 1 ELSE free
    /\ UNCHANGED stop

\* A failed call is charged while it still holds its slot.
CallFails(c) ==
    /\ pc[c] = "calling"
    /\ pc' = [pc EXCEPT ![c] = "recording"]
    /\ UNCHANGED <<acquire, free, stop>>

\* Mutant: a failed call keeps its slot.
ReleaseOnResult(c) ==
    /\ pc[c] \in {"calling", "recording"}
    /\ pc' = [pc EXCEPT ![c] = "over"]
    /\ acquire' = [acquire EXCEPT ![c] = IF pc[c] = "calling" THEN "none" ELSE @]
    /\ free' = IF pc[c] = "calling" THEN free + 1 ELSE free
    /\ UNCHANGED stop

\* The outer finally: a result, a cancellation, or a recorded failure.
Release(c) ==
    /\ pc[c] \in {"calling", "recording"}
    /\ pc' = [pc EXCEPT ![c] = "over"]
    /\ acquire' = [acquire EXCEPT ![c] = "none"]
    /\ free' = free + 1
    /\ UNCHANGED stop

Stop(c) ==
    /\ c \notin stop /\ pc[c] # "over"
    /\ stop' = stop \cup {c}
    /\ UNCHANGED <<pc, acquire, free>>

\* The process ends; the semaphore is new at the next start.
SlotsLost ==
    /\ pc' = [c \in Calls |-> IF pc[c] = "idle" THEN "idle" ELSE "over"]
    /\ acquire' = [c \in Calls |-> "none"]
    /\ free' = Slots
    /\ stop' = {}

SlotStep(c) == Begin(c) \/ Grant(c) \/ HelperRuns(c) \/ Acquired(c) \/ GivesUp(c)
-----------------------------------------------------------------------------

Holding == {c \in Calls : acquire[c] \in {"granted", "done", "cancelling"}}

\* No interleaving of grant, Stop and release leaks or duplicates a slot, and
\* only calls that hold one talk to the provider (the cap in ARCHITECTURE.md).
SlotsAccounted ==
    /\ free + Cardinality(Holding) = Slots
    /\ \A c \in Calls : pc[c] \in {"calling", "recording"} => c \in Holding

\* Nobody waits for a slot forever.
WaitEnds == \A c \in Calls : pc[c] = "waiting" ~> pc[c] # "waiting"
=============================================================================
