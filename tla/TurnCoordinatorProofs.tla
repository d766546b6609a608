------------------------ MODULE TurnCoordinatorProofs ------------------------
(***************************************************************************)
(* Safety of the turn coordinator, and its promise to those who wait for   *)
(* idle, for any number of callers, finishing goroutines and sessions.     *)
(***************************************************************************)
EXTENDS TurnCoordinator, FiniteSetTheorems, TLAPS

\* What ties the coordinator's flags to the progress of SetConnected: they
\* hold only while a session is up, and an onIdle call is owed by the session
\* goroutine only between the critical section of a disconnect and its end.
SessionShape ==
    /\ connected = (session = "up")
    /\ connected => epoch \in Sessions
    /\ active => connected
    /\ pending => connected
    /\ becameIdle => session \in {"draining", "idling"}
    /\ session = "idling" => becameIdle

\* The inductive invariant.
IInv == TypeOK /\ SessionShape /\ ActiveTurnCanEnd /\ PendingIsBacked

\* A channel that is received from stays within its type and capacity.
LEMMA ReceiveFacts ==
    ASSUME NEW S, NEW s \in Seq(S), s # <<>>, NEW cap \in Nat, Len(s) <= cap
    PROVE  Head(s) \in S /\ Tail(s) \in Seq(S) /\ Len(Tail(s)) <= cap
  OBVIOUS

\* So does one that is sent to while it has room.
LEMMA SendFacts ==
    ASSUME NEW S, NEW s \in Seq(S), NEW e \in S, NEW cap \in Nat, Len(s) < cap
    PROVE  Append(s, e) \in Seq(S) /\ Len(Append(s, e)) <= cap /\ Append(s, e) # <<>>
  OBVIOUS

\* The two values of a goroutine's record that do not depend on the turn.
LEMMA IdleIsARecord ==
    /\ Idle \in FinishRecords /\ NoTurn \in Turns
    /\ \A r \in Reasons : [Idle EXCEPT !.pc = "spawned", !.reason = r] \in FinishRecords
    /\ Idle.pc = "none"
    /\ \A r \in Reasons : [Idle EXCEPT !.pc = "spawned", !.reason = r].pc = "spawned"
<1>1. NoTurn \in Turns
  BY BoundsAssumption DEF NoTurn, Turns
<1>2. Idle \in FinishRecords
  BY <1>1 DEF Idle, FinishRecords, Reasons
<1>3. ASSUME NEW r \in Reasons
      PROVE  /\ [Idle EXCEPT !.pc = "spawned", !.reason = r] \in FinishRecords
             /\ [Idle EXCEPT !.pc = "spawned", !.reason = r].pc = "spawned"
  BY <1>1 DEF Idle, FinishRecords
<1> QED
  BY <1>1, <1>2, <1>3 DEF Idle

\* A goroutine spawned by Run is waiting for the lock; the others are where
\* they were.
LEMMA SpawnEffect ==
    ASSUME TypeOK, NEW r \in Reasons, Spawn(r)
    PROVE  /\ fin' \in [Finishers -> FinishRecords]
           /\ \E f \in Finishers : fin'[f].pc = "spawned"
           /\ OwingFinishers' = OwingFinishers
<1>1. PICK f \in Finishers :
        /\ fin[f].pc = "none"
        /\ fin' = [fin EXCEPT ![f] = [Idle EXCEPT !.pc = "spawned", !.reason = r]]
  BY DEF Spawn
<1>2. fin'[f].pc = "spawned" /\ \A g \in Finishers \ {f} : fin'[g] = fin[g]
  BY <1>1, IdleIsARecord DEF TypeOK
<1>3. fin' \in [Finishers -> FinishRecords]
  BY <1>1, IdleIsARecord DEF TypeOK
<1>4. OwingFinishers' = OwingFinishers
  BY <1>1, <1>2 DEF OwingFinishers
<1> QED
  BY <1>2, <1>3, <1>4

\* The initial state satisfies the invariant.
LEMMA InitInv == Init => IInv
<1> SUFFICES ASSUME Init PROVE IInv
  OBVIOUS
<1>1. caller \in [Callers -> 0..MaxSessions] /\ epoch \in 0..MaxSessions
  BY BoundsAssumption DEF Init
<1>2. /\ triggers \in Seq(Sessions) /\ Len(triggers) <= TriggerCap
      /\ done \in Seq(Finished) /\ Len(done) <= DoneCap
  BY BoundsAssumption DEF Init
<1>3. TypeOK
  BY <1>1, <1>2, IdleIsARecord DEF Init, TypeOK
<1> QED
  BY <1>3 DEF Init, IInv, SessionShape, ActiveTurnCanEnd, PendingIsBacked

\* Trigger preserves the invariant.
LEMMA TriggerInv ==
    ASSUME IInv, NEW c \in Callers, TriggerCheck(c) \/ TriggerSend(c)
    PROVE  IInv'
<1> USE DEF IInv
<1>1. CASE TriggerCheck(c)
  <2>1. epoch \in Sessions /\ epoch # 0
    BY <1>1, BoundsAssumption DEF TriggerCheck, SessionShape, Sessions
  <2>2. caller' \in [Callers -> 0..MaxSessions] /\ caller'[c] # 0
    BY <1>1, <2>1 DEF TriggerCheck, TypeOK
  <2>3. TypeOK' /\ PendingIsBacked'
    BY <1>1, <2>2 DEF TriggerCheck, TypeOK, PendingIsBacked
  <2> QED
    BY <1>1, <2>3 DEF TriggerCheck, TypeOK, SessionShape, ActiveTurnCanEnd
<1>2. CASE TriggerSend(c)
  <2>1. caller[c] \in Sessions
    BY <1>2, BoundsAssumption DEF TriggerSend, TypeOK, Sessions
  <2>2. caller' \in [Callers -> 0..MaxSessions]
    BY <1>2, BoundsAssumption DEF TriggerSend, TypeOK
  <2>3. CASE Len(triggers) < TriggerCap
    <3>0. triggers \in Seq(Sessions) /\ TriggerCap \in Nat /\ triggers' = Append(triggers, caller[c])
      BY <1>2, <2>3, BoundsAssumption DEF TriggerSend, TypeOK
    <3>1. triggers' \in Seq(Sessions) /\ Len(triggers') <= TriggerCap /\ triggers' # <<>>
      BY <2>1, <2>3, <3>0, SendFacts
    <3>2. TypeOK'
      BY <1>2, <2>2, <2>3, <3>1 DEF TriggerSend, TypeOK
    <3>3. PendingIsBacked'
      BY <3>1 DEF PendingIsBacked
    <3> QED
      BY <1>2, <2>3, <3>2, <3>3 DEF TriggerSend, SessionShape, ActiveTurnCanEnd
  <2>4. CASE ~(Len(triggers) < TriggerCap)
    BY <1>2, <2>2, <2>4 DEF TriggerSend, TypeOK, SessionShape, ActiveTurnCanEnd, PendingIsBacked
  <2> QED
    BY <2>3, <2>4
<1> QED
  BY <1>1, <1>2

\* Run preserves the invariant.
LEMMA RunInv ==
    ASSUME IInv,
           RunStart \/ RunObserve \/ DropFrame \/ CaptureEnds \/ RunCancelled
    PROVE  IInv'
<1> USE DEF IInv, TypeOK
<1>1. CASE StartRefused
  BY <1>1, BoundsAssumption, ReceiveFacts DEF StartRefused, Consume, SessionShape, ActiveTurnCanEnd,
     PendingIsBacked
<1>2. CASE StartTurn
  <2>1. turn' \in Turns /\ triggers' \in Seq(Sessions) /\ Len(triggers') <= TriggerCap
    <3>1. /\ Head(triggers) \in Sessions
          /\ triggers' \in Seq(Sessions) /\ Len(triggers') <= TriggerCap
      BY <1>2, BoundsAssumption, ReceiveFacts DEF StartTurn, Consume
    <3>2. Head(triggers) \in 0..MaxSessions
      BY <3>1, BoundsAssumption DEF Sessions
    <3> QED
      BY <1>2, <3>1, <3>2 DEF StartTurn, Turns
  <2>2. fin' \in [Finishers -> FinishRecords]
    BY <1>2, SpawnEffect DEF StartTurn, Reasons
  <2>3. listening' \in BOOLEAN /\ broken' \in BOOLEAN
    BY <1>2 DEF StartTurn
  <2>4. ActiveTurnCanEnd'
    BY <1>2, SpawnEffect DEF StartTurn, ActiveTurnCanEnd, Reasons
  <2>5. TypeOK'
    BY <1>2, <2>1, <2>2, <2>3 DEF StartTurn
  <2> QED
    BY <1>2, <2>4, <2>5 DEF StartTurn, SessionShape, PendingIsBacked
<1>3. CASE ObserveBroken
  BY <1>3, SpawnEffect DEF ObserveBroken, Reasons, SessionShape, ActiveTurnCanEnd, PendingIsBacked
<1>4. CASE ObserveVerdict
  BY <1>4, SpawnEffect DEF ObserveVerdict, Reasons, SessionShape, ActiveTurnCanEnd, PendingIsBacked
<1>5. CASE ObserveIdle
  BY <1>5 DEF ObserveIdle, SessionShape, ActiveTurnCanEnd, PendingIsBacked
<1>6. CASE DropFrame
  BY <1>6 DEF DropFrame, SessionShape, ActiveTurnCanEnd, PendingIsBacked
<1>7. CASE CaptureEnds
  BY <1>7, SpawnEffect DEF CaptureEnds, Reasons, SessionShape, ActiveTurnCanEnd, PendingIsBacked
<1>8. CASE RunCancelled
  BY <1>8 DEF RunCancelled, SessionShape, ActiveTurnCanEnd, PendingIsBacked
<1> QED
  BY <1>1, <1>2, <1>3, <1>4, <1>5, <1>6, <1>7, <1>8 DEF RunStart, RunObserve

\* finish preserves the invariant.
LEMMA FinishInv ==
    ASSUME IInv, NEW f \in Finishers, FinishStep(f)
    PROVE  IInv'
<1> USE DEF IInv, TypeOK
<1>1. CASE FinishLock(f)
  <2>1. CASE active
    <3>1. [fin[f] EXCEPT !.pc = "send", !.connected = connected, !.turn = turn, !.broken = broken]
            \in FinishRecords
      BY DEF FinishRecords
    <3>2. fin' = [fin EXCEPT ![f] = [fin[f] EXCEPT !.pc = "send", !.connected = connected,
                                                  !.turn = turn, !.broken = broken]]
      BY <1>1, <2>1 DEF FinishLock
    <3>3. fin' \in [Finishers -> FinishRecords]
      BY <3>1, <3>2
    <3> QED
      BY <1>1, <2>1, <3>3, IdleIsARecord DEF FinishLock, EndTurn, SessionShape, ActiveTurnCanEnd,
         PendingIsBacked
  <2>2. CASE ~active
    BY <1>1, <2>2, IdleIsARecord DEF FinishLock, SessionShape, ActiveTurnCanEnd, PendingIsBacked
  <2> QED
    BY <2>1, <2>2
<1>2. CASE FinishSend(f)
  <2>1. done' \in Seq(Finished) /\ Len(done') <= DoneCap
    <3>1. [turn |-> fin[f].turn, reason |-> fin[f].reason, broken |-> fin[f].broken] \in Finished
      BY DEF Finished, FinishRecords
    <3> QED
      BY <1>2, <3>1, BoundsAssumption, SendFacts DEF FinishSend
  <2>2. fin' \in [Finishers -> FinishRecords]
    BY <1>2 DEF FinishSend, FinishRecords
  <2> QED
    BY <1>2, <2>1, <2>2 DEF FinishSend, SessionShape, ActiveTurnCanEnd, PendingIsBacked
<1>3. CASE FinishIdle(f)
  BY <1>3, IdleIsARecord DEF FinishIdle, SessionShape, ActiveTurnCanEnd, PendingIsBacked
<1> QED
  BY <1>1, <1>2, <1>3 DEF FinishStep

\* The session's steps and the forwarder preserve the invariant.
LEMMA SessionInv ==
    ASSUME IInv, Connect \/ Disconnect \/ SessionStep \/ NextTurn
    PROVE  IInv'
<1> USE DEF IInv, TypeOK
<1>1. CASE Connect
  <2>1. epoch' \in Sessions /\ epoch' \in 0..MaxSessions
    BY <1>1, BoundsAssumption DEF Connect, Sessions
  <2> QED
    BY <1>1, <2>1 DEF Connect, SessionShape, ActiveTurnCanEnd, PendingIsBacked
<1>2. CASE Disconnect
  <2>1. TypeOK'
    BY <1>2, IdleIsARecord DEF Disconnect, EndTurn
  <2> QED
    BY <1>2, <2>1 DEF Disconnect, EndTurn, SessionShape, ActiveTurnCanEnd, PendingIsBacked
<1>3. CASE Drain
  BY <1>3, BoundsAssumption, ReceiveFacts DEF Drain, SessionShape, ActiveTurnCanEnd, PendingIsBacked
<1>4. CASE Drained
  BY <1>4 DEF Drained, SessionShape, ActiveTurnCanEnd, PendingIsBacked
<1>5. CASE DisconnectIdle
  BY <1>5 DEF DisconnectIdle, SessionShape, ActiveTurnCanEnd, PendingIsBacked
<1>6. CASE NextTurn
  BY <1>6, BoundsAssumption, ReceiveFacts DEF NextTurn, SessionShape, ActiveTurnCanEnd, PendingIsBacked
<1> QED
  BY <1>1, <1>2, <1>3, <1>4, <1>5, <1>6 DEF SessionStep

\* Every step preserves the invariant.
LEMMA NextInv == IInv /\ [Next]_vars => IInv'
<1> SUFFICES ASSUME IInv, [Next]_vars PROVE IInv'
  OBVIOUS
<1>1. CASE UNCHANGED vars
  BY <1>1 DEF vars, IInv, TypeOK, SessionShape, ActiveTurnCanEnd, PendingIsBacked
<1>2. CASE Next
  BY <1>2, TriggerInv, RunInv, FinishInv, SessionInv DEF Next
<1> QED
  BY <1>1, <1>2

\* The invariant holds throughout.
LEMMA Invariance == Spec => []IInv
  BY InitInv, NextInv, PTL DEF Spec

\* Every reachable state of the coordinator is well typed: neither channel
\* exceeds its capacity.
THEOREM TypeCorrect == Spec => []TypeOK
<1>1. IInv => TypeOK
  BY DEF IInv
<1> QED
  BY <1>1, Invariance, PTL

\* Every step of a safe coordinator is a step of TurnActivity or a stutter.
LEMMA StepRefines == IInv /\ [Next]_vars => [Activity!Next]_(Activity!vars)
<1> SUFFICES ASSUME IInv, [Next]_vars PROVE [Activity!Next]_(Activity!vars)
  OBVIOUS
<1> DEFINE owed == Cardinality(OwingFinishers)
<1>0. IsFiniteSet(OwingFinishers) /\ owed \in Nat
  BY BoundsAssumption, FS_Subset, FS_CardinalityType DEF OwingFinishers
<1> USE DEF Activity!Next, Activity!vars, Activity!Begin, Activity!End, Activity!DiscardTrigger,
            Activity!OnIdle
<1>1. ASSUME OwingFinishers' = OwingFinishers, UNCHANGED <<active, becameIdle>>
      PROVE  UNCHANGED Activity!vars
  BY <1>1 DEF Idlers
<1>2. ASSUME NEW f \in Finishers, FinishLock(f), active
      PROVE  Activity!End
  <2>1. OwingFinishers' = OwingFinishers \cup {f} /\ f \notin OwingFinishers
    <3>1. fin'[f].pc = "send" /\ \A g \in Finishers \ {f} : fin'[g] = fin[g]
      BY <1>2 DEF FinishLock, IInv, TypeOK, FinishRecords
    <3> QED
      BY <1>2, <3>1 DEF FinishLock, OwingFinishers
  <2>2. owed' = owed + 1
    BY <1>0, <2>1, FS_AddElement
  <2> QED
    BY <1>0, <1>2, <2>2 DEF FinishLock, EndTurn, Idlers, IInv, TypeOK
<1>3. ASSUME NEW f \in Finishers, FinishLock(f), ~active
      PROVE  OwingFinishers' = OwingFinishers
  BY <1>3, IdleIsARecord DEF FinishLock, OwingFinishers, IInv, TypeOK
<1>4. ASSUME NEW f \in Finishers, FinishSend(f)
      PROVE  OwingFinishers' = OwingFinishers
  BY <1>4 DEF FinishSend, OwingFinishers, IInv, TypeOK
<1>5. ASSUME NEW f \in Finishers, FinishIdle(f)
      PROVE  Activity!OnIdle
  <2>1. OwingFinishers' = OwingFinishers \ {f} /\ f \in OwingFinishers
    BY <1>5, IdleIsARecord DEF FinishIdle, OwingFinishers, IInv, TypeOK
  <2>2. owed' = owed - 1 /\ owed' \in Nat
    BY <1>0, <2>1, FS_RemoveElement, FS_CardinalityType
  <2> QED
    BY <1>0, <1>5, <2>2 DEF FinishIdle, Idlers, IInv, TypeOK
<1>6. ASSUME Disconnect
      PROVE  [Activity!Next]_(Activity!vars)
  <2>1. OwingFinishers' = OwingFinishers /\ ~becameIdle
    BY <1>6 DEF Disconnect, OwingFinishers, IInv, SessionShape
  <2>2. CASE active \/ pending
    <3>1. becameIdle' = TRUE /\ active' = FALSE
      BY <1>6, <2>2 DEF Disconnect, EndTurn
    <3>2. Idlers' = Idlers + 1
      BY <1>0, <2>1, <3>1 DEF Idlers
    <3> QED
      BY <3>1, <3>2
  <2>3. CASE ~active /\ ~pending
    BY <1>0, <1>6, <2>1, <2>3 DEF Disconnect, EndTurn, Idlers, IInv, TypeOK
  <2> QED
    BY <2>2, <2>3
<1>7. ASSUME DisconnectIdle
      PROVE  Activity!OnIdle
  <2>1. OwingFinishers' = OwingFinishers /\ becameIdle
    BY <1>7 DEF DisconnectIdle, OwingFinishers, IInv, SessionShape
  <2> QED
    BY <1>0, <1>7, <2>1 DEF DisconnectIdle, Idlers, IInv, TypeOK
<1>8. ASSUME RunStart
      PROVE  [Activity!Next]_(Activity!vars)
  <2>1. CASE StartRefused
    BY <1>1, <2>1 DEF StartRefused, OwingFinishers
  <2>2. CASE StartTurn
    <3>1. OwingFinishers' = OwingFinishers
      BY <2>2, SpawnEffect DEF StartTurn, OwingFinishers, Reasons, IInv
    <3> QED
      BY <2>2, <3>1 DEF StartTurn, Idlers
  <2> QED
    BY <1>8, <2>1, <2>2 DEF RunStart
<1>9. ASSUME RunObserve \/ DropFrame \/ CaptureEnds \/ RunCancelled
      PROVE  UNCHANGED Activity!vars
  <2>1. CASE ObserveBroken \/ ObserveVerdict \/ CaptureEnds
    BY <1>1, <2>1, SpawnEffect
       DEF ObserveBroken, ObserveVerdict, CaptureEnds, Reasons, IInv
  <2>2. CASE ObserveIdle \/ DropFrame \/ RunCancelled
    BY <1>1, <2>2 DEF ObserveIdle, DropFrame, RunCancelled, OwingFinishers
  <2> QED
    BY <1>9, <2>1, <2>2 DEF RunObserve
<1>10. ASSUME \/ \E c \in Callers : TriggerCheck(c) \/ TriggerSend(c)
              \/ Connect \/ Drain \/ Drained \/ NextTurn
              \/ UNCHANGED vars
       PROVE  UNCHANGED Activity!vars
  BY <1>1, <1>10 DEF TriggerCheck, TriggerSend, Connect, Drain, Drained, NextTurn, vars,
     OwingFinishers
<1>11. ASSUME NEW f \in Finishers, FinishStep(f)
       PROVE  [Activity!Next]_(Activity!vars)
  <2>1. CASE FinishLock(f) /\ active
    BY <1>2, <2>1
  <2>2. CASE (FinishLock(f) /\ ~active) \/ FinishSend(f)
    <3>1. OwingFinishers' = OwingFinishers /\ UNCHANGED <<active, becameIdle>>
      BY <1>3, <1>4, <2>2 DEF FinishLock, FinishSend
    <3> QED
      BY <1>1, <3>1
  <2>3. CASE FinishIdle(f)
    BY <1>5, <2>3
  <2> QED
    BY <1>11, <2>1, <2>2, <2>3 DEF FinishStep
<1> QED
  BY <1>6, <1>7, <1>8, <1>9, <1>10, <1>11 DEF Next, SessionStep

\* The coordinator implements TurnActivity: each time a turn ends, on whatever
\* goroutine, exactly one goroutine owes the onIdle call and makes it.
THEOREM CoordinatorRefines == Spec => RefinesTurnActivity
<1>1. Init => Activity!Init
  <2> SUFFICES ASSUME Init PROVE Activity!Init
    OBVIOUS
  <2>1. OwingFinishers = {}
    BY IdleIsARecord DEF Init, OwingFinishers
  <2> QED
    BY <2>1, FS_EmptySet DEF Init, Activity!Init, Idlers
<1> QED
  BY <1>1, StepRefines, Invariance, PTL DEF Spec, RefinesTurnActivity, Activity!Safety

\* Turns are active only inside a session, an active turn can always end and
\* a reservation always has a trigger behind it, whatever the interleaving.
THEOREM CoordinatorSafe == Spec => []CoordinatorInvariant
<1>1. IInv => CoordinatorInvariant
  BY DEF IInv, SessionShape, ActiveOnlyWhileConnected, CoordinatorInvariant
<1> QED
  BY <1>1, Invariance, PTL
=============================================================================
