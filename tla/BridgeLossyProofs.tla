-------------------------- MODULE BridgeLossyProofs --------------------------
(***************************************************************************)
(* EventBridge implements LossyService, for any number of sessions,        *)
(* addresses and verdicts and whichever calls fail: the two error paths    *)
(* that lose a callback are the service's two losses, and every other step *)
(* is what BridgeRefinementProofs says it is.                              *)
(***************************************************************************)
EXTENDS BridgeRefinementProofs

USE BridgeAssumption
  DEF BridgeAssumption, IInv, GoTo, ThreadPc, NodePc, DonePc, threadVars,
      objectVars, fieldVars, listVars, nodeVars, doneVars, scriptVars,
      InLoop, Holding, Asleep

(* The parts of the mapping that differ from those of the service.         *)
LossyAt(s) == IF LostAt(s) THEN "lost" ELSE StageAt(s)

lossyBar == [s \in Session |-> IF Lost(s) THEN "lost" ELSE StageOf(s)]

losable == {st \in {"queued", "delivered"} :
              \/ st = "queued"    /\ MayFail("trigger event")
              \/ st = "delivered" /\ MayFail("signal")}

lossyVars == <<lossyBar, queueBar, verdictBar>>

-----------------------------------------------------------------------------
(* A lost callback is one whose thread is in the wait loop, its event in   *)
(* no place.                                                               *)
LEMMA LostIsAt ==
  ASSUME IInv, NEW s \in Session
  PROVE  Lost(s) <=> LostAt(s)
<1>1. pc[s] \notin {"idle", "lock_queue", "enqueue", "delete"}
        <=> pc[s] \in InLoop
  BY DEF TypeOK
<1>2. Places(s) = {} <=> /\ event[s] \notin Queued
                         /\ event[s] # ev
                         /\ s \notin owes
                         /\ ~ is_done[event[s]]
  BY DEF Places
<1> QED BY <1>1, <1>2 DEF Lost, LostAt

(* The mapped stages, session by session.                                  *)
LEMMA LossyBarAt ==
  ASSUME IInv
  PROVE  lossyBar = [s \in Session |-> LossyAt(s)]
<1>1. \A s \in Session : Lost(s) <=> LostAt(s)
  BY LostIsAt
<1>2. \A s \in Session : StageOf(s) = StageAt(s)
  BY StageIsAt
<1> QED BY <1>1, <1>2 DEF lossyBar, LossyAt

(* The same in the next state.                                             *)
LEMMA LossyBarAtNext ==
  ASSUME IInv'
  PROVE  lossyBar' = [s \in Session |-> LossyAt(s)']
<1>1. (lossyBar = [s \in Session |-> LossyAt(s)])'
  BY LossyBarAt, PTL
<1> QED BY <1>1

(* To the service without losses a lost callback looks queued.             *)
LEMMA LostLooksQueued ==
  ASSUME NEW s \in Session, LostAt(s)
  PROVE  StageAt(s) = "queued"
  BY DEF LostAt, StageAt, Outside

(* The same in the next state.                                             *)
LEMMA LostLooksQueuedNext ==
  ASSUME NEW s \in Session, LostAt(s)'
  PROVE  StageAt(s)' = "queued"
<1>1. (LostAt(s) => StageAt(s) = "queued")'
  BY LostLooksQueued, PTL
<1> QED BY <1>1

-----------------------------------------------------------------------------
(* A step that loses nothing and moves one session does so in both maps.   *)
LEMMA MoveLifts ==
  ASSUME IInv, IInv', LossesKept, NEW s \in Session, NEW st, st # "queued" \/ ~ LostAt(s),
         stageBar' = [stageBar EXCEPT ![s] = st]
  PROVE  lossyBar' = [lossyBar EXCEPT ![s] = st] /\ lossyBar[s] = stageBar[s]
<1>1. /\ stageBar = [t \in Session |-> StageAt(t)]
      /\ stageBar' = [t \in Session |-> StageAt(t)']
      /\ lossyBar = [t \in Session |-> LossyAt(t)]
      /\ lossyBar' = [t \in Session |-> LossyAt(t)']
  BY BarsAt, BarsAtNext, LossyBarAt, LossyBarAtNext
<1>2. StageAt(s)' = st /\ \A t \in Session \ {s} : StageAt(t)' = StageAt(t)
  BY <1>1
<1>3. ~ LostAt(s)
  <2>1. CASE st # "queued"
    <3>1. ~ LostAt(s)'
      BY <1>2, <2>1, LostLooksQueuedNext
    <3> QED BY <3>1 DEF LossesKept
  <2> QED BY <2>1
<1>4. LossyAt(s) = StageAt(s) /\ LossyAt(s)' = st
  BY <1>2, <1>3 DEF LossyAt, LossesKept
<1>5. \A t \in Session \ {s} : LossyAt(t)' = LossyAt(t)
  BY <1>2 DEF LossyAt, LossesKept
<1> QED BY <1>1, <1>4, <1>5

(* A step that loses nothing and that the service does not see, the lossy  *)
(* service does not see either.                                            *)
LEMMA UnseenLifts ==
  ASSUME IInv, IInv', LossesKept, UNCHANGED barVars
  PROVE  UNCHANGED lossyVars
<1>1. /\ stageBar = [t \in Session |-> StageAt(t)]
      /\ stageBar' = [t \in Session |-> StageAt(t)']
      /\ stageBar' = stageBar
  BY BarsAt, BarsAtNext DEF barVars
<1>2. \A t \in Session : StageAt(t)' = StageAt(t)
  BY <1>1
<1>3. \A t \in Session : LossyAt(t)' = LossyAt(t)
  BY <1>2 DEF LossyAt, LossesKept
<1>4. lossyBar' = lossyBar
  BY <1>3, LossyBarAt, LossyBarAtNext
<1> QED BY <1>4 DEF lossyVars, barVars

(* Every step of the service that loses nothing is one of the lossy        *)
(* service.                                                                *)
LEMMA ServiceLifts ==
  ASSUME IInv, IInv', LossesKept, Service!ServiceNext
  PROVE  Lossy!LossyNext
<1> USE DEF stageBar, queueBar, verdictBar, lossyBar
<1>1. PICK s \in Session :
        \/ Service!Submit(s)
        \/ Service!Refuse(s)
        \/ Service!Deliver(s)
        \/ \E v \in Verdict : Service!Answer(s, v)
        \/ Service!Return(s)
  BY DEF Service!ServiceNext
<1>2. stageBar[s] = StageAt(s)
  BY BarsAt
<1>3. CASE Service!Submit(s)
  <2>1. ~ LostAt(s)
    BY <1>2, <1>3, LostLooksQueued DEF Service!Submit
  <2> QED BY <1>3, <2>1, MoveLifts
      DEF Service!Submit, Lossy!Submit, Lossy!ServiceNext, Lossy!LossyNext
<1>4. CASE Service!Refuse(s)
  BY <1>4, MoveLifts
  DEF Service!Refuse, Lossy!Refuse, Lossy!ServiceNext, Lossy!LossyNext
<1>5. CASE Service!Deliver(s)
  BY <1>5, MoveLifts
  DEF Service!Deliver, Lossy!Deliver, Lossy!ServiceNext, Lossy!LossyNext
<1>6. CASE \E v \in Verdict : Service!Answer(s, v)
  BY <1>6, MoveLifts
  DEF Service!Answer, Lossy!Answer, Lossy!ServiceNext, Lossy!LossyNext
<1>7. CASE Service!Return(s)
  BY <1>7, MoveLifts
  DEF Service!Return, Lossy!Return, Lossy!ServiceNext, Lossy!LossyNext
<1> QED BY <1>1, <1>3, <1>4, <1>5, <1>6, <1>7

-----------------------------------------------------------------------------
(* A step that loses the callback of s and touches no other.               *)
LEMMA LossMoves ==
  ASSUME IInv, IInv', NEW s \in Session, LostAt(s)',
         \A t \in Session \ {s} : (LostAt(t)' <=> LostAt(t))
                                  /\ StageAt(t)' = StageAt(t)
  PROVE  lossyBar' = [lossyBar EXCEPT ![s] = "lost"]
<1>1. \A t \in Session \ {s} : LossyAt(t)' = LossyAt(t)
  BY DEF LossyAt
<1>2. LossyAt(s)' = "lost"
  BY DEF LossyAt
<1> QED BY <1>1, <1>2, LossyBarAt, LossyBarAtNext

(* trigger_event drops the oldest callback, whose event it cannot lock.    *)
LEMMA LockEventLoses ==
  ASSUME IInv, IInv', Given, LockEventFails
  PROVE  Given' /\ Lossy!LossyNext
<1>1. PICK s \in Session : s = fi_envelope[ev]
  BY DEF LockEventFails, TypeOK, Unlinked, Ownership
<1>2. /\ ev # Null /\ ev' = Null /\ "queued" \in losable
      /\ UNCHANGED <<pc, event, retval, fi_envelope, is_done, fi_retval, line,
                     owes, given>>
  BY DEF LockEventFails, TypeOK, losable
<1>3. /\ event[s] = ev /\ ~ is_done[ev] /\ s \notin owes
      /\ pc[s] \in InLoop /\ ev \notin Queued
  BY <1>1, <1>2 DEF Unlinked, Ownership, Queued, QueueContents
<1>4. LossyAt(s) = "queued" /\ LostAt(s)'
  BY <1>2, <1>3 DEF LossyAt, LostAt, StageAt, Outside, Queued
<1>5. ASSUME NEW t \in Session
      PROVE  StageAt(t)' = StageAt(t) /\ VerdictAt(t)' = VerdictAt(t)
  BY <1>2 DEF StageAt, VerdictAt, Outside
<1>6. ASSUME NEW t \in Session \ {s}
      PROVE  LostAt(t)' <=> LostAt(t)
  <2>1. event[t] # ev
    BY <1>1, <1>2 DEF Ownership
  <2>2. pc[t] \in InLoop => event[t] # Null
    BY DEF TypeOK
  <2> QED BY <1>2, <2>1, <2>2 DEF LostAt, Queued
<1>7. lossyBar[s] = "queued" /\ lossyBar' = [lossyBar EXCEPT ![s] = "lost"]
  BY <1>4, <1>5, <1>6, LossyBarAt, LossMoves
<1>8. verdictBar' = verdictBar
  BY <1>5, VerdictsKept
<1>9. queueBar # <<>> /\ s = Head(queueBar) /\ queueBar' = Tail(queueBar)
  BY <1>1, <1>2, UnfiredLeaves
<1>10. Lossy!LoseQueued(s)
  BY <1>2, <1>7, <1>8, <1>9
  DEF Lossy!LoseQueued, Lossy!Loses, lossyBar, queueBar, verdictBar, losable
<1>11. Given'
  BY <1>2 DEF Given
<1> QED BY <1>10, <1>11 DEF Lossy!LossyNext

(* done() cannot signal the thread: the answer never reaches it.           *)
LEMMA DoneLoses ==
  ASSUME IInv, IInv', Given, NEW s \in Session, NEW v \in Verdict, Done(s, v),
         ~ is_done'[event[s]]
  PROVE  Given' /\ Lossy!LossyNext
<1> DEFINE e == event[s]
<1>1. /\ s \in owes /\ owes' = owes \ {s}
      /\ given' = [given EXCEPT ![s] = v]
      /\ \/ is_done' = [is_done EXCEPT ![current_event[s]] = TRUE]
         \/ /\ MayFail("signal")
            /\ is_done' = [is_done EXCEPT ![current_event[s]] = FALSE]
            /\ UNCHANGED pc
      /\ UNCHANGED <<event, retval, fi_envelope, line, ev>>
  BY Zenon DEF Done
<1>2. /\ current_event[s] = e /\ e \in Event /\ e \in heap
      /\ fi_envelope[e] = s
      /\ pc[s] \in Asleep /\ ~ is_done[e]
  BY <1>1 DEF HandOff, TypeOK, Ownership
<1>3. /\ MayFail("signal") /\ UNCHANGED pc
      /\ is_done' = [is_done EXCEPT ![e] = FALSE]
  <2>1. is_done' # [is_done EXCEPT ![e] = TRUE]
    BY <1>2 DEF TypeOK
  <2> QED BY <1>1, <1>2, <2>1
<1>4. is_done' = is_done
  BY <1>2, <1>3 DEF TypeOK
<1>5. e \notin Queued /\ e # ev
  BY <1>1, <1>2 DEF Queued, QueueContents, Unlinked, TypeOK
<1>6. LostAt(s)' /\ StageAt(s) = "delivered" /\ ~ LostAt(s)
  BY <1>1, <1>2, <1>3, <1>4, <1>5 DEF LostAt, StageAt, Outside, Queued
<1>7. ASSUME NEW t \in Session \ {s}
      PROVE  /\ LostAt(t)' <=> LostAt(t)
             /\ StageAt(t)' = StageAt(t)
             /\ VerdictAt(t)' = VerdictAt(t)
  <2>1. LostAt(t)' <=> LostAt(t)
    BY DoneGiven
  <2>2. StageAt(t)' = StageAt(t)
    BY <1>1, <1>3, <1>4 DEF StageAt, Outside
  <2>3. given'[t] = given[t]
    BY <1>1 DEF TypeOK
  <2> QED BY <1>1, <1>3, <2>1, <2>2, <2>3 DEF VerdictAt
<1>8. VerdictAt(s)' = VerdictAt(s)
  <2>1. StageAt(s)' = "queued"
    BY <1>6, LostLooksQueuedNext
  <2> QED BY <1>1, <1>6, <2>1 DEF VerdictAt
<1>9. lossyBar[s] = "delivered" /\ lossyBar' = [lossyBar EXCEPT ![s] = "lost"]
  <2>1. LossyAt(s) = "delivered"
    BY <1>6 DEF LossyAt
  <2> QED BY <1>6, <1>7, <2>1, LossyBarAt, LossMoves
<1>10. verdictBar' = verdictBar
  BY <1>7, <1>8, VerdictsKept
<1>11. queueBar' = queueBar
  BY <1>1, QueueUnseen
<1>12. "delivered" \in losable
  BY <1>3 DEF losable
<1>13. Lossy!LoseDelivered(s)
  BY <1>9, <1>10, <1>11, <1>12
  DEF Lossy!LoseDelivered, Lossy!Loses, lossyBar, queueBar, verdictBar, losable
<1>14. Given'
  BY DoneGiven
<1> QED BY <1>13, <1>14 DEF Lossy!LossyNext

-----------------------------------------------------------------------------
(* Every step is one of the lossy service's, or one it does not see; and a *)
(* completed event carries the script's verdict, whatever fails.           *)
LEMMA StepLossy ==
  ASSUME IInv, IInv', Given, [Next]_vars
  PROVE  Given' /\ (Lossy!LossyNext \/ UNCHANGED lossyVars)
<1>1. ASSUME NEW s \in Session, ThreadStep(s)
      PROVE  Given' /\ (Lossy!LossyNext \/ UNCHANGED lossyVars)
  <2>1. Given' /\ LossesKept
    BY <1>1, ThreadStepPlaces
  <2>2. Service!ServiceNext \/ UNCHANGED barVars
    BY <1>1, ThreadServes
  <2> QED BY <2>1, <2>2, ServiceLifts, UnseenLifts
<1>2. ASSUME NodeStep, ~ LockEventFails,
             \A s \in Session, v \in Verdict : Done(s, v) => is_done'[event[s]]
      PROVE  Given' /\ (Lossy!LossyNext \/ UNCHANGED lossyVars)
  <2>1. Given' /\ LossesKept
    BY <1>2, NodeStepPlaces
  <2>2. Service!ServiceNext \/ UNCHANGED barVars
    BY <1>2, NodeServes
  <2> QED BY <2>1, <2>2, ServiceLifts, UnseenLifts
<1>3. CASE UNCHANGED vars
  <2>1. Given' /\ LossesKept
    BY <1>3, PlacesKept DEF vars
  <2>2. UNCHANGED barVars
    BY <1>3, NodeQuiet DEF vars
  <2> QED BY <2>1, <2>2, UnseenLifts
<1> QED BY <1>1, <1>2, <1>3, LockEventLoses, DoneLoses DEF Next

(* The mapping takes the initial state to the initial state.               *)
LEMMA InitLossy == Init => Lossy!ServiceInit
<1> SUFFICES ASSUME Init PROVE Lossy!ServiceInit
  OBVIOUS
<1>1. IInv /\ Service!ServiceInit
  BY InitInv, InitService
<1>2. \A s \in Session : LossyAt(s) = "idle"
  BY DEF Init, LossyAt, LostAt, StageAt, Outside
<1>3. lossyBar = [s \in Session |-> "idle"]
  BY <1>1, <1>2, LossyBarAt
<1> QED BY <1>1, <1>3
    DEF Service!ServiceInit, Lossy!ServiceInit, lossyBar, queueBar, verdictBar

(* Whichever calls fail, no callback is lost but the oldest one when       *)
(* trigger_event cannot lock its event and the answered one when done()    *)
(* cannot signal it; the others are served in order, at most once, and     *)
(* with the verdict the script gave for them.                              *)
THEOREM BridgeImplementsLossy == Spec => ImplementsLossyService
<1>1. Init => Lossy!ServiceInit
  BY InitLossy
<1>2. Init => Given
  BY InitPlaces
<1>3. IInv /\ IInv' /\ Given /\ [Next]_vars => Given'
  BY StepLossy
<1>4. IInv /\ IInv' /\ Given /\ [Next]_vars => [Lossy!LossyNext]_lossyVars
  BY StepLossy
<1>5. [Lossy!LossyNext]_lossyVars => [Lossy!LossyNext]_(Lossy!serviceVars)
  BY DEF lossyVars, lossyBar, Lossy!serviceVars
<1> QED BY <1>1, <1>2, <1>3, <1>4, <1>5, Invariance, PTL
    DEF Spec, ImplementsLossyService, Lossy!LossySpec

=============================================================================
