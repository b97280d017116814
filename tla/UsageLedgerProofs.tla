------------------------- MODULE UsageLedgerProofs -------------------------
(***************************************************************************)
(* ProviderSlots and UsageLedger, proved for every set of calls, any cap,  *)
(* and any number of failed writes and crashes: the cap on provider calls  *)
(* is exact, a call is charged once, and no named call is forgotten.       *)
(***************************************************************************)
EXTENDS UsageLedger, FiniteSetTheorems, SequenceTheorems, TLAPS

\* The values the slot variables take.
SlotType ==
    /\ pc \in [Calls -> {"idle", "waiting", "calling", "recording", "over"}]
    /\ acquire \in [Calls -> {"none", "pending", "granted", "done", "cancelling"}]
    /\ free \in Nat
    /\ stop \subseteq Calls

\* What the helper task of a call can be doing while the call is at its pc: a
\* call that gave up may leave a cancelled helper with a granted slot behind.
HelperInv(c) ==
    /\ pc[c] = "waiting" => acquire[c] \in {"pending", "granted", "done"}
    /\ pc[c] \in {"calling", "recording"} => acquire[c] = "done"
    /\ pc[c] = "idle" => acquire[c] = "none"
    /\ pc[c] = "over" => acquire[c] \in {"none", "cancelling"}

\* The inductive invariant of the slots.
SlotInv ==
    /\ SlotType
    /\ \A c \in Calls : HelperInv(c)
    /\ free + Cardinality(Holding) = Slots

\* The values the ledger variables take; every charge has the one shared key.
LedgerType ==
    /\ pending \in Seq(Calls)
    /\ \A row \in charges : row = <<row[1], ChargeKey>>
    /\ ids \in [Calls -> {"none", "writing", "over"}]

\* Once the write of its id is over, a call is on the ledger or among those
\* with a lost write, whether or not its run is over too.
OnTheLedger == \A c \in Calls : (ids[c] = "over" /\ c \notin lost) => c \in Rows \/ Charged(c)

\* The inductive invariant of the ledger.
LedgerInv == LedgerType /\ OnTheLedger
-----------------------------------------------------------------------------
USE SlotsAssumption, LedgerAssumption

\* The calls that hold a slot are finitely many, also after a step.
LEMMA HoldingFinite == IsFiniteSet(Holding) /\ IsFiniteSet(Holding')
<1>1. Holding \in SUBSET Calls /\ Holding' \in SUBSET Calls
  BY DEF Holding
<1> QED
  BY <1>1, FS_Subset

\* A step that neither gives nor takes a slot.
LEMMA HoldingSame ==
    ASSUME SlotInv, Holding' = Holding, free' = free
    PROVE  free' + Cardinality(Holding') = Slots
  BY DEF SlotInv

\* The semaphore gives a slot to a call.
LEMMA HoldingGrows ==
    ASSUME SlotInv, NEW c, c \notin Holding, Holding' = Holding \cup {c}, free' = free - 1
    PROVE  free' + Cardinality(Holding') = Slots
<1>1. Cardinality(Holding') = Cardinality(Holding) + 1
  BY HoldingFinite, FS_AddElement
<1> QED
  BY <1>1, HoldingFinite, FS_CardinalityType DEF SlotInv, SlotType

\* A call hands its slot back.
LEMMA HoldingShrinks ==
    ASSUME SlotInv, NEW c, c \in Holding, Holding' = Holding \ {c}, free' = free + 1
    PROVE  free' + Cardinality(Holding') = Slots
<1>1. Cardinality(Holding') = Cardinality(Holding) - 1
  BY HoldingFinite, FS_RemoveElement
<1> QED
  BY <1>1, HoldingFinite, FS_CardinalityType DEF SlotInv, SlotType

\* Waiting for a slot, being granted one and giving up keep the count.
LEMMA SlotStepPreserves ==
    ASSUME SlotInv, NEW c \in Calls, SlotStep(c)
    PROVE  SlotInv'
<1> USE DEF SlotType, HelperInv
<1>1. CASE Begin(c)
  <2>1. SlotType' /\ (\A d \in Calls : HelperInv(d)')
    BY <1>1 DEF SlotInv, Begin
  <2>2. Holding' = Holding /\ free' = free
    BY <1>1 DEF SlotInv, Begin, Holding
  <2> QED
    BY <2>1, <2>2, HoldingSame DEF SlotInv
<1>2. CASE Grant(c)
  <2>1. SlotType' /\ (\A d \in Calls : HelperInv(d)')
    BY <1>2 DEF SlotInv, Grant
  <2>2. c \notin Holding /\ Holding' = Holding \cup {c} /\ free' = free - 1
    BY <1>2 DEF SlotInv, Grant, Holding
  <2> QED
    BY <2>1, <2>2, HoldingGrows DEF SlotInv
<1>3. CASE HelperRuns(c)
  <2>1. SlotType' /\ (\A d \in Calls : HelperInv(d)')
    BY <1>3 DEF SlotInv, HelperRuns
  <2>2. CASE acquire[c] = "granted"
    <3>1. Holding' = Holding /\ free' = free
      BY <1>3, <2>2 DEF SlotInv, HelperRuns, Holding
    <3> QED
      BY <2>1, <3>1, HoldingSame DEF SlotInv
  <2>3. CASE acquire[c] = "cancelling"
    <3>1. c \in Holding /\ Holding' = Holding \ {c} /\ free' = free + 1
      BY <1>3, <2>3 DEF SlotInv, HelperRuns, Holding
    <3> QED
      BY <2>1, <3>1, HoldingShrinks DEF SlotInv
  <2> QED
    BY <1>3, <2>2, <2>3 DEF HelperRuns
<1>4. CASE Acquired(c)
  <2>1. SlotType' /\ (\A d \in Calls : HelperInv(d)')
    BY <1>4 DEF SlotInv, Acquired
  <2>2. Holding' = Holding /\ free' = free
    BY <1>4 DEF Acquired, Holding
  <2> QED
    BY <2>1, <2>2, HoldingSame DEF SlotInv
<1>5. CASE GivesUp(c)
  <2>1. SlotType' /\ (\A d \in Calls : HelperInv(d)')
    BY <1>5 DEF SlotInv, GivesUp
  <2>2. CASE acquire[c] = "done"
    <3>1. c \in Holding /\ Holding' = Holding \ {c} /\ free' = free + 1
      BY <1>5, <2>2 DEF SlotInv, GivesUp, Holding
    <3> QED
      BY <2>1, <3>1, HoldingShrinks DEF SlotInv
  <2>3. CASE acquire[c] # "done"
    <3>1. Holding' = Holding /\ free' = free
      BY <1>5, <2>3 DEF SlotInv, GivesUp, Holding
    <3> QED
      BY <2>1, <3>1, HoldingSame DEF SlotInv
  <2> QED
    BY <2>2, <2>3
<1> QED
  BY <1>1, <1>2, <1>3, <1>4, <1>5 DEF SlotStep

\* The outer finally of _call_provider gives back the slot the call holds.
LEMMA ReleasePreserves ==
    ASSUME SlotInv, NEW c \in Calls, Release(c)
    PROVE  SlotInv'
<1>1. SlotType' /\ (\A d \in Calls : HelperInv(d)')
  BY DEF SlotInv, SlotType, HelperInv, Release
<1>2. c \in Holding /\ Holding' = Holding \ {c} /\ free' = free + 1
  BY DEF SlotInv, SlotType, HelperInv, Release, Holding
<1> QED
  BY <1>1, <1>2, HoldingShrinks DEF SlotInv

\* A failed call keeps its slot while it is recorded.
LEMMA CallFailsPreserves ==
    ASSUME SlotInv, NEW c \in Calls, CallFails(c)
    PROVE  SlotInv'
<1>1. SlotType' /\ (\A d \in Calls : HelperInv(d)')
  BY DEF SlotInv, SlotType, HelperInv, CallFails
<1>2. Holding' = Holding /\ free' = free
  BY DEF CallFails, Holding
<1> QED
  BY <1>1, <1>2, HoldingSame DEF SlotInv

\* A Stop, and the end of a run that forgets it, leave the slots alone.
LEMMA StopPreserves ==
    ASSUME SlotInv, UNCHANGED <<pc, acquire, free>>, stop' \subseteq Calls
    PROVE  SlotInv'
<1>1. SlotType' /\ (\A d \in Calls : HelperInv(d)')
  BY DEF SlotInv, SlotType, HelperInv
<1>2. Holding' = Holding /\ free' = free
  BY DEF Holding
<1> QED
  BY <1>1, <1>2, HoldingSame DEF SlotInv

\* After a restart nobody holds a slot of the new semaphore.
LEMMA SlotsLostPreserves ==
    ASSUME SlotInv, SlotsLost
    PROVE  SlotInv'
<1>1. SlotType' /\ (\A d \in Calls : HelperInv(d)')
  BY DEF SlotInv, SlotType, HelperInv, SlotsLost
<1>2. Holding' = {} /\ free' = Slots
  BY DEF SlotsLost, Holding
<1>3. free' + Cardinality(Holding') = Slots
  BY <1>2, FS_EmptySet
<1> QED
  BY <1>1, <1>3 DEF SlotInv

-----------------------------------------------------------------------------
(* What a step may do to the ledger.                                       *)

\* append_usage_event puts the call among the pending rows and drops none.
LEMMA AppendPendingRows ==
    ASSUME pending \in Seq(Calls), NEW c \in Calls, AppendPending(c)
    PROVE  pending' \in Seq(Calls) /\ Rows' = Rows \cup {c}
<1>1. CASE c \in Rows
  BY <1>1 DEF AppendPending, Rows
<1>2. CASE c \notin Rows
  <2>1. /\ pending' \in Seq(Calls) /\ Len(pending') = Len(pending) + 1
        /\ \A i \in 1 .. Len(pending) : pending'[i] = pending[i]
        /\ pending'[Len(pending) + 1] = c
    BY <1>2, AppendProperties DEF AppendPending
  <2> QED
    BY <2>1, LenProperties DEF Rows
<1> QED
  BY <1>1, <1>2

\* Rows are never taken away: what is on the ledger stays on it.
LEMMA LedgerGrows ==
    ASSUME LedgerInv, LedgerType', Rows \subseteq Rows', charges \subseteq charges',
           lost \subseteq lost',
           \A c \in Calls : ids'[c] = "over" =>
               ids[c] = "over" \/ c \in lost' \/ c \in Rows'
    PROVE  LedgerInv'
  BY DEF LedgerInv, OnTheLedger, Charged

\* A step that leaves the ledger and the writes of the ids alone.
LEMMA LedgerSame ==
    ASSUME LedgerInv, UNCHANGED <<pending, charges, ids, lost>>
    PROVE  LedgerInv'
<1>1. LedgerType' /\ Rows' = Rows
  BY DEF LedgerInv, LedgerType, Rows
<1> QED
  BY <1>1, LedgerGrows DEF LedgerInv

\* A step that stores a charge, whichever of the racing writers takes it.
LEMMA ChargePreserves ==
    ASSUME LedgerInv, NEW c, AppendCharge(c, ChargeKey), UNCHANGED <<pending, ids, lost>>
    PROVE  LedgerInv'
<1>1. LedgerType' /\ Rows' = Rows /\ charges \subseteq charges'
  BY DEF LedgerInv, LedgerType, Rows, AppendCharge
<1> QED
  BY <1>1, LedgerGrows DEF LedgerInv

\* Every step of a provider call keeps both invariants.
LEMMA CallStepPreserves ==
    ASSUME SlotInv, LedgerInv, NEW c \in Calls, CallStep(c)
    PROVE  SlotInv' /\ LedgerInv'
<1> USE DEF slots, ledger, writes, reconciler
<1>1. CASE Waits(c)
  <2>1. SlotInv'
    BY <1>1, SlotStepPreserves DEF Waits
  <2> QED
    BY <1>1, <2>1, LedgerSame DEF Waits
<1>2. CASE Named(c)
  <2>1. SlotInv'
    BY <1>2, StopPreserves DEF Named, SlotInv, SlotType
  <2>2. LedgerType' /\ Rows' = Rows
    BY <1>2 DEF Named, LedgerInv, LedgerType, Rows
  <2>3. \A d \in Calls : ids'[d] = "over" => ids[d] = "over"
    BY <1>2 DEF Named, LedgerInv, LedgerType
  <2> QED
    BY <1>2, <2>1, <2>2, <2>3, LedgerGrows DEF Named
<1>3. CASE IdsWritten(c)
  <2>1. SlotInv'
    BY <1>3, StopPreserves DEF IdsWritten, SlotInv, SlotType
  <2>2. pending' \in Seq(Calls) /\ Rows' = Rows \cup {c}
    BY <1>3, AppendPendingRows DEF IdsWritten, LedgerInv, LedgerType
  <2>3. LedgerType'
    BY <1>3, <2>2 DEF IdsWritten, LedgerInv, LedgerType
  <2>4. \A d \in Calls : ids'[d] = "over" => ids[d] = "over" \/ d \in Rows'
    BY <1>3, <2>2 DEF IdsWritten, LedgerInv, LedgerType
  <2> QED
    BY <1>3, <2>1, <2>2, <2>3, <2>4, LedgerGrows DEF IdsWritten
<1>4. CASE CallEnds(c)
  <2>1. SlotInv'
    BY <1>4, CallFailsPreserves, ReleasePreserves DEF CallEnds
  <2> QED
    BY <1>4, <2>1, LedgerSame DEF CallEnds
<1>5. CASE CallTimesOut(c)
  <2>1. SlotInv'
    BY <1>5, CallFailsPreserves DEF CallTimesOut
  <2> QED
    BY <1>5, <2>1, LedgerSame DEF CallTimesOut
<1>6. CASE CallStopped(c)
  <2>1. SlotInv'
    BY <1>6, ReleasePreserves DEF CallStopped
  <2> QED
    BY <1>6, <2>1, LedgerSame DEF CallStopped
<1>7. CASE UsageWritten(c)
  <2>1. SlotInv'
    BY <1>7, StopPreserves DEF UsageWritten, SlotInv, SlotType
  <2>2. CASE outcome[c] = "cost"
    <3>1. LedgerInv'
      BY <1>7, <2>2, ChargePreserves DEF UsageWritten
    <3> QED
      BY <2>1, <3>1
  <2>3. CASE outcome[c] # "cost"
    <3>1. pending' \in Seq(Calls) /\ Rows' = Rows \cup {c}
      BY <1>7, <2>3, AppendPendingRows DEF UsageWritten, LedgerInv, LedgerType
    <3>2. LedgerType'
      BY <1>7, <2>3, <3>1 DEF UsageWritten, LedgerInv, LedgerType
    <3>3. LedgerInv'
      BY <1>7, <2>3, <3>1, <3>2, LedgerGrows DEF UsageWritten
    <3> QED
      BY <2>1, <3>3
  <2> QED
    BY <2>2, <2>3
<1>8. CASE FailureRecorded(c)
  <2>1. SlotInv'
    BY <1>8, ReleasePreserves DEF FailureRecorded
  <2> QED
    BY <1>8, <2>1, LedgerSame DEF FailureRecorded
<1>9. CASE WriteFails(c)
  <2>1. SlotInv'
    BY <1>9, StopPreserves DEF WriteFails, SlotInv, SlotType
  <2>2. LedgerType' /\ Rows' = Rows
    BY <1>9 DEF WriteFails, LedgerInv, LedgerType, Rows
  <2>3. \A d \in Calls : ids'[d] = "over" => ids[d] = "over" \/ d \in lost'
    BY <1>9 DEF WriteFails, LedgerInv, LedgerType
  <2> QED
    BY <1>9, <2>1, <2>2, <2>3, LedgerGrows DEF WriteFails
<1>10. CASE RunEnds(c)
  <2>1. SlotInv'
    BY <1>10, StopPreserves DEF RunEnds, SlotInv, SlotType
  <2> QED
    BY <1>10, <2>1, LedgerSame DEF RunEnds
<1> QED
  BY <1>1, <1>2, <1>3, <1>4, <1>5, <1>6, <1>7, <1>8, <1>9, <1>10 DEF CallStep

\* A reconciliation pass touches no slot, and only ever adds charges.
LEMMA PassPreserves ==
    ASSUME SlotInv, LedgerInv, PassStep \/ TimerFires
    PROVE  SlotInv' /\ LedgerInv'
<1> USE DEF slots, ledger, writes, reconciler
<1>1. UNCHANGED slots
  BY DEF PassStep, PassSelect, PassLookup, PassCharge, PassEnds, PassFails, TimerFires
<1>2. SlotInv'
  BY <1>1, StopPreserves DEF SlotInv, SlotType
<1>3. CASE PassCharge
  <2>1. LedgerInv'
    BY <1>3, ChargePreserves DEF PassCharge, ChargeKey
  <2> QED
    BY <1>2, <2>1
<1>4. CASE PassSelect \/ PassLookup \/ PassEnds \/ PassFails \/ TimerFires
  <2>1. UNCHANGED <<pending, charges, ids, lost>>
    BY <1>4 DEF PassSelect, PassLookup, PassEnds, PassFails, TimerFires
  <2> QED
    BY <1>2, <2>1, LedgerSame
<1> QED
  BY <1>3, <1>4 DEF PassStep

\* The end of the process: a write that was under way is accounted as lost.
LEMMA CrashPreserves ==
    ASSUME SlotInv, LedgerInv, Crash
    PROVE  SlotInv' /\ LedgerInv'
<1>1. SlotInv'
  BY SlotsLostPreserves DEF Crash
<1>2. LedgerType' /\ Rows' = Rows
  BY DEF Crash, LedgerInv, LedgerType, Rows, ledger
<1>3. \A d \in Calls : ids'[d] = "over" => ids[d] = "over" \/ d \in lost'
  BY DEF Crash, LedgerInv, LedgerType
<1> QED
  BY <1>1, <1>2, <1>3, LedgerGrows DEF Crash, ledger

\* The invariants hold initially and after every step.
LEMMA LedgerInvariant == Spec => [](SlotInv /\ LedgerInv)
<1>1. Init => SlotInv /\ LedgerInv
  <2> SUFFICES ASSUME Init PROVE SlotInv /\ LedgerInv
    OBVIOUS
  <2>1. SlotType /\ \A c \in Calls : HelperInv(c)
    BY DEF Init, SlotsInit, SlotType, HelperInv
  <2>2. Holding = {}
    BY DEF Init, SlotsInit, Holding
  <2>3. free + Cardinality(Holding) = Slots
    BY <2>2, FS_EmptySet DEF Init, SlotsInit
  <2>4. LedgerType /\ OnTheLedger
    BY DEF Init, LedgerType, OnTheLedger
  <2> QED
    BY <2>1, <2>3, <2>4 DEF SlotInv, LedgerInv
<1>2. SlotInv /\ LedgerInv /\ [Next]_vars => (SlotInv /\ LedgerInv)'
  <2> SUFFICES ASSUME SlotInv, LedgerInv, [Next]_vars PROVE SlotInv' /\ LedgerInv'
    OBVIOUS
  <2>1. ASSUME NEW c \in Calls, RequestStop(c) PROVE SlotInv' /\ LedgerInv'
    <3>1. SlotInv'
      BY <2>1, StopPreserves DEF RequestStop, Stop, SlotInv, SlotType
    <3> QED
      BY <2>1, <3>1, LedgerSame DEF RequestStop, ledger, writes
  <2>2. ASSUME UNCHANGED slots, UNCHANGED <<pending, charges, ids, lost>>
        PROVE SlotInv' /\ LedgerInv'
    BY <2>2, StopPreserves, LedgerSame DEF slots, SlotInv, SlotType
  <2>3. ASSUME NEW c \in Calls, DelayOver(c) PROVE SlotInv' /\ LedgerInv'
    BY <2>2, <2>3 DEF DelayOver, ledger, writes
  <2>4. CASE UNCHANGED vars
    BY <2>2, <2>4 DEF vars, ledger, writes
  <2> QED
    BY <2>1, <2>3, <2>4, CallStepPreserves, PassPreserves, CrashPreserves DEF Next
<1> QED
  BY <1>1, <1>2, PTL DEF Spec
-----------------------------------------------------------------------------

\* The cap of _acquire_provider_slot is exact whatever the interleaving of
\* grants, Stops, failures and restarts: slots in use and free slots add up.
THEOREM SlotsAreAccounted == Spec => []SlotsAccounted
<1>1. SlotInv /\ LedgerInv => SlotsAccounted
  BY DEF SlotInv, SlotsAccounted, HelperInv, Holding
<1> QED
  BY <1>1, LedgerInvariant, PTL

\* No call is charged twice, although its own stream and a reconciliation
\* pass may both append a charge for it (_record_usage).
THEOREM CallsAreChargedOnce == Spec => []ChargedOnce
<1>1. ASSUME LedgerInv, NEW c \in Calls
      PROVE  Cardinality({row \in charges : row[1] = c}) <= 1
  <2>1. {row \in charges : row[1] = c} \in SUBSET {<<c, ChargeKey>>}
    BY <1>1 DEF LedgerInv, LedgerType
  <2>2. /\ Cardinality({row \in charges : row[1] = c}) <= Cardinality({<<c, ChargeKey>>})
        /\ Cardinality({<<c, ChargeKey>>}) = 1
    BY <2>1, FS_Subset, FS_Singleton
  <2> QED
    BY <2>2
<1>2. LedgerInv => ChargedOnce
  BY <1>1 DEF ChargedOnce
<1> QED
  BY <1>2, LedgerInvariant, PTL

\* A call the provider named is pending or charged once its run is over, with
\* a Stop, a timeout or a crash at any point; only a lost write excuses it.
THEOREM NamedCallsAreOnTheLedger == Spec => []CallIsOnTheLedger
<1>1. LedgerInv => CallIsOnTheLedger
  BY DEF LedgerInv, OnTheLedger, CallIsOnTheLedger
<1> QED
  BY <1>1, LedgerInvariant, PTL
=============================================================================
