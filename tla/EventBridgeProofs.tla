-------------------------- MODULE EventBridgeProofs --------------------------
(***************************************************************************)
(* Proofs about EventBridge, for any number of sessions and addresses and  *)
(* for every choice of failing pthread calls.                              *)
(*                                                                         *)
(* One lemma per action shows that it preserves IInv.  In each of them one *)
(* step covers all the parts of IInv over variables the action leaves      *)
(* alone, and one step each of the parts it can disturb.  The actions of a *)
(* failing call first drop their guard on Failing, which no part needs.    *)
(***************************************************************************)
EXTENDS EventBridgeInv, QueueFacts

(* Visible everywhere: the constants differ, and pure abbreviations. *)
USE BridgeAssumption
  DEF BridgeAssumption, IInv, GoTo, ThreadPc, NodePc, DonePc, threadVars,
      objectVars, fieldVars, listVars, nodeVars, doneVars, scriptVars,
      InLoop, Holding, Asleep

-----------------------------------------------------------------------------
(* Nothing is allocated, queued or locked at the start. *)
LEMMA InitInv == Init => IInv
<1> SUFFICES ASSUME Init PROVE IInv
  OBVIOUS
<1>1. TypeOK
  <2>1. line \in Seq(Event)
    BY EmptySeq DEF Init
  <2> QED BY <2>1 DEF Init, TypeOK
<1>2. QueueRepresentsLine /\ QueueContents
  BY DEF Init, QueueRepresentsLine, QueueContents
<1>3. Ownership /\ QueueLock /\ EventLock /\ Unlinked
  BY DEF Init, Ownership, QueueLock, EventLock, Unlinked
<1>4. HandOff /\ ContextKnown /\ Frames /\ Completing /\ Progress
  BY DEF Init, HandOff, ContextKnown, Frames, Completing, Progress
<1> QED BY <1>1, <1>2, <1>3, <1>4

(* A step that changes nothing preserves the invariant. *)
LEMMA StutterStep == IInv /\ UNCHANGED vars => IInv'
  BY DEF vars, TypeOK, QueueRepresentsLine, Ownership, QueueLock, EventLock,
         NodeHolds, QueueContents, Unlinked, HandOff, ContextKnown, Frames,
         Completing, Progress

(* A constructed event is at an address that nothing live refers to. *)
LEMMA ConstructStep ==
  ASSUME IInv, NEW s \in Session, Construct(s)
  PROVE  IInv'
<1>1. ContextKnown' /\ Frames'
  BY DEF Construct, ContextKnown, Frames
<1>2. TypeOK'
  BY DEF Construct, TypeOK
<1>3. QueueRepresentsLine'
  BY DEF Construct, QueueRepresentsLine, QueueContents
<1>4. Ownership'
  BY DEF Construct, Ownership, TypeOK
<1>5. QueueLock'
  BY DEF Construct, QueueLock, TypeOK
<1>6. EventLock'
  BY DEF Construct, EventLock, TypeOK, Ownership, Unlinked, HandOff,
       Completing, NodeHolds
<1>7. QueueContents'
  BY DEF Construct, QueueContents, TypeOK
<1>8. Unlinked'
  BY DEF Construct, Unlinked, TypeOK
<1>9. HandOff'
  BY DEF Construct, HandOff, TypeOK, Ownership
<1>10. Completing'
  BY DEF Construct, Completing, TypeOK
<1>11. Progress'
  BY DEF Construct, Progress, TypeOK, Ownership
<1> QED BY <1>1, <1>2, <1>3, <1>4, <1>5, <1>6, <1>7, <1>8, <1>9, <1>10, <1>11

(* The queue lock goes to a thread. *)
LEMMA LockQueueStep ==
  ASSUME IInv, NEW s \in Session, LockQueue(s)
  PROVE  IInv'
<1>1. QueueRepresentsLine' /\ Ownership' /\ ContextKnown' /\ Frames'
  BY DEF LockQueue, QueueRepresentsLine, Ownership, ContextKnown, Frames
<1>2. TypeOK'
  BY DEF LockQueue, TypeOK
<1>3. QueueLock'
  BY DEF LockQueue, QueueLock, TypeOK
<1>4. EventLock'
  BY DEF LockQueue, EventLock, TypeOK, NodeHolds
<1>5. QueueContents'
  BY DEF LockQueue, QueueContents, TypeOK
<1>6. Unlinked'
  BY DEF LockQueue, Unlinked, TypeOK
<1>7. HandOff'
  BY DEF LockQueue, HandOff, TypeOK
<1>8. Completing'
  BY DEF LockQueue, Completing, TypeOK
<1>9. Progress'
  BY DEF LockQueue, Progress, TypeOK
<1> QED BY <1>1, <1>2, <1>3, <1>4, <1>5, <1>6, <1>7, <1>8, <1>9

(* A thread that cannot lock the queue leaves it alone. *)
LEMMA LockQueueFailsStep ==
  ASSUME IInv, NEW s \in Session, LockQueueFails(s)
  PROVE  IInv'
<1>1. /\ GoTo(s, "lock_queue", "delete") /\ ReturnTempFail(s)
      /\ UNCHANGED <<event, objectVars, fieldVars, pt_lock, listVars, lck_queue,
                     pending, nodeVars, doneVars, scriptVars>>
  BY DEF LockQueueFails
<1>2. QueueRepresentsLine' /\ Ownership' /\ ContextKnown' /\ Frames'
  BY <1>1 DEF QueueRepresentsLine, Ownership, ContextKnown, Frames
<1>3. TypeOK'
  BY <1>1 DEF ReturnTempFail, TypeOK
<1>4. QueueLock'
  BY <1>1 DEF QueueLock, TypeOK
<1>5. EventLock'
  BY <1>1 DEF EventLock, TypeOK, NodeHolds
<1>6. QueueContents'
  BY <1>1 DEF QueueContents, TypeOK
<1>7. Unlinked'
  BY <1>1 DEF Unlinked, TypeOK
<1>8. HandOff'
  BY <1>1 DEF HandOff, TypeOK
<1>9. Completing'
  BY <1>1 DEF Completing, TypeOK
<1>10. Progress'
  BY <1>1 DEF Progress, TypeOK
<1> QED BY <1>2, <1>3, <1>4, <1>5, <1>6, <1>7, <1>8, <1>9, <1>10

(* The newest event becomes the last link, locked by its thread. *)
LEMMA EnqueueStep ==
  ASSUME IInv, NEW s \in Session, Enqueue(s)
  PROVE  IInv'
<1> DEFINE e == event[s]
<1>1. /\ pc[s] = "enqueue" /\ pc' = [pc EXCEPT ![s] = "unlock_queue"]
      /\ e \in Event /\ e \in heap /\ fi_envelope[e] = s
      /\ ev_next[e] = Null
      /\ line \in Seq(Event)
  BY DEF Enqueue, TypeOK, Ownership, Progress
<1>2. \A i \in DOMAIN line : line[i] # e
  BY <1>1 DEF QueueContents
<1>3. last = Null <=> line = <<>>
  BY <1>1, AppendFacts DEF QueueRepresentsLine, TypeOK
<1>4. Ownership' /\ ContextKnown' /\ Frames'
  BY DEF Enqueue, Ownership, ContextKnown, Frames
<1>5. TypeOK'
  BY <1>1, AppendFacts DEF Enqueue, Link, Locked, TypeOK
<1>6. QueueRepresentsLine'
  <2>1. line' = Append(line, e) /\ last' = e
    BY DEF Enqueue, Link
  <2>2. first' = IF line = <<>> THEN e ELSE line[1]
    BY <1>3 DEF Enqueue, Link, QueueRepresentsLine
  <2>3. \A i \in 1..Len(line) :
          ev_next'[line[i]] = IF i = Len(line) THEN e ELSE line[i + 1]
    BY <1>1, <1>2, <1>3, AppendFacts
    DEF Enqueue, Link, QueueRepresentsLine, QueueContents, TypeOK
  <2>4. ev_next'[e] = Null
    BY <1>1, <1>2, <1>3, AppendFacts
    DEF Enqueue, Link, QueueRepresentsLine, TypeOK
  <2> QED
    BY <1>1, <2>1, <2>2, <2>3, <2>4, AppendFacts DEF QueueRepresentsLine
<1>7. QueueLock' /\ Unlinked' /\ HandOff' /\ Completing'
  BY DEF Enqueue, Locked, TypeOK, QueueLock, Unlinked, HandOff, Completing
<1>8. EventLock'
  BY DEF Enqueue, Locked, EventLock, TypeOK, NodeHolds
<1>9. QueueContents'
  <2>1. line' = Append(line, e)
    BY DEF Enqueue, Link
  <2>2. /\ \A i, j \in 1..Len(line) : line[i] = line[j] => i = j
        /\ \A i \in 1..Len(line) : line[i] # e
    BY <1>1, <1>2, AppendFacts DEF QueueContents
  <2>3. \A i, j \in DOMAIN line' : line'[i] = line'[j] => i = j
    BY <1>1, <2>1, <2>2, AppendFacts
  <2>4. \A i \in 1..Len(line) :
          /\ line[i] \in heap
          /\ ~ is_done[line[i]]
          /\ pc'[fi_envelope[line[i]]] \in InLoop
          /\ fi_envelope[line[i]] \notin owes
          /\ line[i] # ev
          /\ done_pc = "unlock" => line[i] # done_ev
    BY <1>1, AppendFacts DEF QueueContents, TypeOK, Ownership
  <2>5. ~ is_done[e] /\ s \notin owes
    BY <1>1 DEF HandOff, Progress
  <2>6. e # ev
    BY <1>1 DEF Unlinked, TypeOK
  <2>7. done_pc = "unlock" => e # done_ev
    BY <1>1 DEF Completing
  <2>8. pc'[fi_envelope[e]] \in InLoop
    BY <1>1 DEF TypeOK
  <2>9. UNCHANGED <<heap, is_done, fi_envelope, owes, ev, doneVars>>
    BY DEF Enqueue
  <2> QED
    BY <1>1, <2>1, <2>3, <2>4, <2>5, <2>6, <2>7, <2>8, <2>9, AppendFacts
    DEF QueueContents
<1>10. Progress'
  <2>1. /\ pt_lock' = [pt_lock EXCEPT ![e] = s]
        /\ UNCHANGED <<event, smfi_context, is_done>>
    BY DEF Enqueue, Locked
  <2>2. \A t \in Session \ {s} :
          pc'[t] = pc[t] /\ (event[t] # Null => event[t] # e)
    BY <1>1 DEF TypeOK, Ownership
  <2>3. \A t \in Session \ {s} : pc[t] \in {"lock_queue", "enqueue"} =>
          event[t] \in Event /\ event[t] # e /\ event[t] # last
    <3>1. last # Null => last \in heap /\ pc[fi_envelope[last]] \in InLoop
      BY <1>1, <1>3, AppendFacts DEF QueueRepresentsLine, QueueContents
    <3> QED BY <2>2, <3>1 DEF TypeOK, Ownership
  <2>4. \A t \in Session \ {s} : pc[t] \in {"lock_queue", "enqueue"} =>
          ev_next'[event[t]] = Null /\ pt_lock'[event[t]] = Null
    <3>1. \A d \in Event : d # e /\ d # last =>
            ev_next'[d] = ev_next[d] /\ pt_lock'[d] = pt_lock[d]
      BY <2>1 DEF Enqueue, Link, TypeOK
    <3> QED BY <2>3, <3>1 DEF Progress
  <2>5. ~ is_done[e]
    BY <1>1 DEF Progress
  <2> QED BY <1>1, <2>1, <2>2, <2>4, <2>5 DEF Progress, TypeOK
<1> QED BY <1>4, <1>5, <1>6, <1>7, <1>8, <1>9, <1>10

(* A thread that cannot lock its event gives the queue lock back. *)
LEMMA EnqueueFailsStep ==
  ASSUME IInv, NEW s \in Session, EnqueueFails(s)
  PROVE  IInv'
<1>1. /\ GoTo(s, "enqueue", "delete") /\ ReturnTempFail(s)
      /\ lck_queue' = Null
      /\ UNCHANGED <<event, objectVars, fieldVars, pt_lock, listVars, pending,
                     nodeVars, doneVars, scriptVars>>
  BY DEF EnqueueFails
<1>2. QueueRepresentsLine' /\ Ownership' /\ ContextKnown' /\ Frames'
  BY <1>1 DEF QueueRepresentsLine, Ownership, ContextKnown, Frames
<1>3. TypeOK'
  BY <1>1 DEF ReturnTempFail, TypeOK
<1>4. QueueLock'
  BY <1>1 DEF QueueLock, TypeOK
<1>5. EventLock'
  BY <1>1 DEF EventLock, TypeOK, NodeHolds
<1>6. QueueContents'
  BY <1>1 DEF QueueContents, TypeOK
<1>7. Unlinked'
  BY <1>1 DEF Unlinked, TypeOK
<1>8. HandOff'
  BY <1>1 DEF HandOff, TypeOK
<1>9. Completing'
  BY <1>1 DEF Completing, TypeOK
<1>10. Progress'
  BY <1>1 DEF Progress, TypeOK
<1> QED BY <1>2, <1>3, <1>4, <1>5, <1>6, <1>7, <1>8, <1>9, <1>10

(* The event stays locked when the queue is given up. *)
LEMMA UnlockQueueStep ==
  ASSUME IInv, NEW s \in Session, UnlockQueue(s)
  PROVE  IInv'
<1>1. QueueRepresentsLine' /\ Ownership' /\ ContextKnown' /\ Frames'
  BY DEF UnlockQueue, QueueRepresentsLine, Ownership, ContextKnown, Frames
<1>2. TypeOK'
  BY DEF UnlockQueue, TypeOK
<1>3. QueueLock'
  BY DEF UnlockQueue, QueueLock, TypeOK
<1>4. EventLock'
  BY DEF UnlockQueue, EventLock, TypeOK, NodeHolds
<1>5. QueueContents'
  BY DEF UnlockQueue, QueueContents, TypeOK
<1>6. Unlinked'
  BY DEF UnlockQueue, Unlinked, TypeOK
<1>7. HandOff'
  BY DEF UnlockQueue, HandOff, TypeOK
<1>8. Completing'
  BY DEF UnlockQueue, Completing, TypeOK
<1>9. Progress'
  BY DEF UnlockQueue, Progress, TypeOK
<1> QED BY <1>1, <1>2, <1>3, <1>4, <1>5, <1>6, <1>7, <1>8, <1>9

(* The context is written while the event is still locked. *)
LEMMA SetMilterContextStep ==
  ASSUME IInv, NEW s \in Session, SetMilterContext(s)
  PROVE  IInv'
<1>1. QueueRepresentsLine' /\ Ownership' /\ ContextKnown' /\ Frames'
  BY DEF SetMilterContext, QueueRepresentsLine, Ownership, ContextKnown,
       Frames
<1>2. TypeOK'
  BY DEF SetMilterContext, TypeOK
<1>3. QueueLock'
  BY DEF SetMilterContext, QueueLock, TypeOK
<1>4. EventLock'
  BY DEF SetMilterContext, EventLock, TypeOK, NodeHolds
<1>5. QueueContents'
  BY DEF SetMilterContext, QueueContents, TypeOK
<1>6. Unlinked'
  BY DEF SetMilterContext, Unlinked, TypeOK
<1>7. HandOff'
  BY DEF SetMilterContext, HandOff, TypeOK
<1>8. Completing'
  BY DEF SetMilterContext, Completing, TypeOK
<1>9. Progress'
  BY DEF SetMilterContext, Progress, TypeOK, Ownership
<1> QED BY <1>1, <1>2, <1>3, <1>4, <1>5, <1>6, <1>7, <1>8, <1>9

(* Raising the handle touches nothing the invariant speaks of. *)
LEMMA AsyncSendStep ==
  ASSUME IInv, NEW s \in Session, AsyncSend(s)
  PROVE  IInv'
<1>1. QueueRepresentsLine' /\ Ownership' /\ ContextKnown' /\ Frames'
  BY DEF AsyncSend, QueueRepresentsLine, Ownership, ContextKnown, Frames
<1>2. TypeOK'
  BY DEF AsyncSend, Raised, TypeOK
<1>3. QueueLock'
  BY DEF AsyncSend, Raised, QueueLock, TypeOK
<1>4. EventLock'
  BY DEF AsyncSend, Raised, EventLock, TypeOK, NodeHolds
<1>5. QueueContents'
  BY DEF AsyncSend, Raised, QueueContents, TypeOK
<1>6. Unlinked'
  BY DEF AsyncSend, Raised, Unlinked, TypeOK
<1>7. HandOff'
  BY DEF AsyncSend, Raised, HandOff, TypeOK
<1>8. Completing'
  BY DEF AsyncSend, Raised, Completing, TypeOK
<1>9. Progress'
  BY DEF AsyncSend, Raised, Progress, TypeOK
<1> QED BY <1>1, <1>2, <1>3, <1>4, <1>5, <1>6, <1>7, <1>8, <1>9

(* Only here does a queued event's mutex become free. *)
LEMMA WaitStep ==
  ASSUME IInv, NEW s \in Session, Wait(s)
  PROVE  IInv'
<1>1. QueueRepresentsLine' /\ Ownership' /\ ContextKnown' /\ Frames'
  BY DEF Wait, QueueRepresentsLine, Ownership, ContextKnown, Frames
<1>2. TypeOK'
  BY DEF Wait, TypeOK
<1>3. QueueLock'
  BY DEF Wait, QueueLock, TypeOK
<1>4. EventLock'
  BY DEF Wait, EventLock, TypeOK, NodeHolds
<1>5. QueueContents'
  BY DEF Wait, QueueContents, TypeOK
<1>6. Unlinked'
  BY DEF Wait, Unlinked, TypeOK
<1>7. HandOff'
  BY DEF Wait, HandOff, TypeOK, Ownership
<1>8. Completing'
  BY DEF Wait, Completing, TypeOK
<1>9. Progress'
  BY DEF Wait, Progress, TypeOK
<1> QED BY <1>1, <1>2, <1>3, <1>4, <1>5, <1>6, <1>7, <1>8, <1>9

(* A thread that wakes by itself still has to take the mutex back. *)
LEMMA SpuriousWakeupStep ==
  ASSUME IInv, NEW s \in Session, SpuriousWakeup(s)
  PROVE  IInv'
<1>1. QueueRepresentsLine' /\ Ownership' /\ ContextKnown' /\ Frames'
  BY DEF SpuriousWakeup, QueueRepresentsLine, Ownership, ContextKnown, Frames
<1>2. TypeOK'
  BY DEF SpuriousWakeup, TypeOK
<1>3. QueueLock'
  BY DEF SpuriousWakeup, QueueLock, TypeOK
<1>4. EventLock'
  BY DEF SpuriousWakeup, EventLock, TypeOK, NodeHolds
<1>5. QueueContents'
  BY DEF SpuriousWakeup, QueueContents, TypeOK
<1>6. Unlinked'
  BY DEF SpuriousWakeup, Unlinked, TypeOK
<1>7. HandOff'
  BY DEF SpuriousWakeup, HandOff, TypeOK
<1>8. Completing'
  BY DEF SpuriousWakeup, Completing, TypeOK
<1>9. Progress'
  BY DEF SpuriousWakeup, Progress, TypeOK
<1> QED BY <1>1, <1>2, <1>3, <1>4, <1>5, <1>6, <1>7, <1>8, <1>9

(* The mutex is only free when the node thread is done with it. *)
LEMMA RelockStep ==
  ASSUME IInv, NEW s \in Session, Relock(s)
  PROVE  IInv'
<1>1. QueueRepresentsLine' /\ Ownership' /\ ContextKnown' /\ Frames'
  BY DEF Relock, QueueRepresentsLine, Ownership, ContextKnown, Frames
<1>2. TypeOK'
  BY DEF Relock, TypeOK
<1>3. QueueLock'
  BY DEF Relock, QueueLock, TypeOK
<1>4. EventLock'
  BY DEF Relock, EventLock, TypeOK, NodeHolds
<1>5. QueueContents'
  BY DEF Relock, QueueContents, TypeOK
<1>6. Unlinked'
  BY DEF Relock, Unlinked, Ownership, EventLock, NodeHolds
<1>7. HandOff'
  BY DEF Relock, HandOff, TypeOK
<1>8. Completing'
  BY DEF Relock, Completing, Ownership, EventLock, NodeHolds
<1>9. Progress'
  BY DEF Relock, Progress, TypeOK, Ownership
<1> QED BY <1>1, <1>2, <1>3, <1>4, <1>5, <1>6, <1>7, <1>8, <1>9

(* An event found not done is still where it was. *)
LEMMA RetryStep ==
  ASSUME IInv, NEW s \in Session, Retry(s)
  PROVE  IInv'
<1>1. QueueRepresentsLine' /\ Ownership' /\ ContextKnown' /\ Frames'
  BY DEF Retry, QueueRepresentsLine, Ownership, ContextKnown, Frames
<1>2. TypeOK'
  BY DEF Retry, IsDone, TypeOK
<1>3. QueueLock'
  BY DEF Retry, IsDone, QueueLock, TypeOK
<1>4. EventLock'
  BY DEF Retry, IsDone, EventLock, TypeOK, NodeHolds
<1>5. QueueContents'
  BY DEF Retry, IsDone, QueueContents, TypeOK
<1>6. Unlinked'
  BY DEF Retry, IsDone, Unlinked, TypeOK
<1>7. HandOff'
  BY DEF Retry, IsDone, HandOff, TypeOK
<1>8. Completing'
  BY DEF Retry, IsDone, Completing, TypeOK
<1>9. Progress'
  BY DEF Retry, IsDone, Progress, TypeOK
<1> QED BY <1>1, <1>2, <1>3, <1>4, <1>5, <1>6, <1>7, <1>8, <1>9

(* A completed event is in no queue and with no script. *)
LEMMA TakeResultStep ==
  ASSUME IInv, NEW s \in Session, TakeResult(s)
  PROVE  IInv'
<1>1. QueueRepresentsLine' /\ Ownership' /\ ContextKnown' /\ Frames'
  BY DEF TakeResult, QueueRepresentsLine, Ownership, ContextKnown, Frames
<1>2. TypeOK'
  BY DEF TakeResult, IsDone, TypeOK
<1>3. QueueLock'
  BY DEF TakeResult, IsDone, QueueLock, TypeOK
<1>4. EventLock'
  BY DEF TakeResult, IsDone, EventLock, TypeOK, NodeHolds
<1>5. QueueContents'
  BY DEF TakeResult, IsDone, QueueContents, Ownership
<1>6. Unlinked'
  BY DEF TakeResult, IsDone, Unlinked, Ownership
<1>7. HandOff'
  BY DEF TakeResult, IsDone, HandOff, TypeOK
<1>8. Completing'
  BY DEF TakeResult, IsDone, Completing, TypeOK
<1>9. Progress'
  BY DEF TakeResult, IsDone, Progress, TypeOK
<1> QED BY <1>1, <1>2, <1>3, <1>4, <1>5, <1>6, <1>7, <1>8, <1>9

(* Nothing live refers to the event that is freed. *)
LEMMA DeleteStep ==
  ASSUME IInv, NEW s \in Session, Delete(s)
  PROVE  IInv'
<1>1. QueueRepresentsLine' /\ ContextKnown' /\ Frames'
  BY DEF Delete, QueueRepresentsLine, ContextKnown, Frames
<1>2. TypeOK'
  BY DEF Delete, FrameLeft, TypeOK
<1>3. Ownership'
  BY DEF Delete, FrameLeft, Ownership, TypeOK
<1>4. QueueLock'
  BY DEF Delete, FrameLeft, QueueLock, TypeOK
<1>5. EventLock'
  BY DEF Delete, FrameLeft, EventLock, TypeOK, NodeHolds
<1>6. QueueContents'
  BY DEF Delete, FrameLeft, QueueContents, TypeOK, Ownership
<1>7. Unlinked'
  BY DEF Delete, FrameLeft, Unlinked, Ownership
<1>8. HandOff'
  BY DEF Delete, FrameLeft, HandOff, TypeOK
<1>9. Completing'
  BY DEF Delete, FrameLeft, Completing, TypeOK, Ownership
<1>10. Progress'
  BY DEF Delete, FrameLeft, Progress, TypeOK
<1> QED BY <1>1, <1>2, <1>3, <1>4, <1>5, <1>6, <1>7, <1>8, <1>9, <1>10

(* The event loop serves the handle. *)
LEMMA TriggerEventStep ==
  ASSUME IInv, TriggerEvent
  PROVE  IInv'
<1>1. QueueRepresentsLine' /\ Ownership' /\ QueueContents' /\ HandOff' /\
     ContextKnown' /\ Completing' /\ Progress'
  BY DEF TriggerEvent, QueueRepresentsLine, Ownership, QueueContents, HandOff,
       ContextKnown, Completing, Progress
<1>2. TypeOK'
  BY DEF TriggerEvent, TypeOK
<1>3. QueueLock'
  BY DEF TriggerEvent, QueueLock, TypeOK
<1>4. EventLock'
  BY DEF TriggerEvent, EventLock, TypeOK, NodeHolds
<1>5. Unlinked'
  BY DEF TriggerEvent, Unlinked, TypeOK
<1>6. Frames'
  BY DEF TriggerEvent, Frames, TypeOK
<1> QED BY <1>1, <1>2, <1>3, <1>4, <1>5, <1>6

(* The queue lock goes to the node thread. *)
LEMMA TriggerLockQueueStep ==
  ASSUME IInv, TriggerLockQueue
  PROVE  IInv'
<1>1. QueueRepresentsLine' /\ Ownership' /\ QueueContents' /\ HandOff' /\
     ContextKnown' /\ Completing' /\ Progress'
  BY DEF TriggerLockQueue, QueueRepresentsLine, Ownership, QueueContents,
       HandOff, ContextKnown, Completing, Progress
<1>2. TypeOK'
  BY DEF TriggerLockQueue, TypeOK
<1>3. QueueLock'
  BY DEF TriggerLockQueue, QueueLock, TypeOK
<1>4. EventLock'
  BY DEF TriggerLockQueue, EventLock, TypeOK, NodeHolds
<1>5. Unlinked'
  BY DEF TriggerLockQueue, Unlinked, TypeOK
<1>6. Frames'
  BY DEF TriggerLockQueue, Frames, TypeOK
<1> QED BY <1>1, <1>2, <1>3, <1>4, <1>5, <1>6

(* trigger_event gives up without touching the queue. *)
LEMMA TriggerLockQueueFailsStep ==
  ASSUME IInv, TriggerLockQueueFails
  PROVE  IInv'
<1>1. /\ npc = "lock_queue" /\ npc' = "loop"
      /\ UNCHANGED <<threadVars, objectVars, fieldVars, pt_lock, listVars,
                     lck_queue, pending, ev, doneVars, scriptVars>>
  BY DEF TriggerLockQueueFails
<1>2. QueueRepresentsLine' /\ Ownership' /\ QueueContents' /\ HandOff' /\
     ContextKnown' /\ Completing' /\ Progress'
  BY <1>1 DEF QueueRepresentsLine, Ownership, QueueContents, HandOff,
       ContextKnown, Completing, Progress
<1>3. TypeOK'
  BY <1>1 DEF TypeOK
<1>4. QueueLock'
  BY <1>1 DEF QueueLock, TypeOK
<1>5. EventLock'
  BY <1>1 DEF EventLock, TypeOK, NodeHolds
<1>6. Unlinked'
  BY <1>1 DEF Unlinked, TypeOK
<1>7. Frames'
  BY <1>1 DEF Frames, TypeOK
<1> QED BY <1>2, <1>3, <1>4, <1>5, <1>6, <1>7

(* Unlinking the first event leaves the rest of the line. *)
LEMMA DequeueStep ==
  ASSUME IInv, Dequeue
  PROVE  IInv'
<1>1. /\ line \in Seq(Event) /\ line # <<>>
      /\ first = line[1] /\ line' = Tail(line)
  BY DEF Dequeue, TypeOK, QueueRepresentsLine
<1>2. Ownership' /\ HandOff' /\ ContextKnown' /\ Completing'
  BY DEF Dequeue, Ownership, HandOff, ContextKnown, Completing
<1>3. TypeOK'
  BY DEF Dequeue, FirstAfter, LastAfter, TypeOK, QueueRepresentsLine
<1>4. QueueRepresentsLine'
  <2>1. /\ first' = IF Len(line) = 1 THEN Null ELSE line[2]
        /\ last' = IF Len(line) = 1 THEN Null ELSE line[Len(line)]
    BY <1>1, TailFacts
    DEF Dequeue, FirstAfter, LastAfter, QueueRepresentsLine, TypeOK
  <2>2. \A i \in 2..Len(line) : ev_next'[line[i]] = ev_next[line[i]]
    BY <1>1, TailFacts DEF Dequeue, QueueContents, TypeOK
  <2>3. \A i \in 1..(Len(line) - 1) :
          ev_next'[line[i + 1]] =
            IF i = Len(line) - 1 THEN Null ELSE line[i + 2]
    <3>1. DOMAIN line = 1..Len(line) /\ Len(line) \in Nat
      BY <1>1, TailFacts
    <3>2. \A i \in 1..Len(line) :
            ev_next[line[i]] = IF i = Len(line) THEN Null ELSE line[i + 1]
      BY <3>1 DEF QueueRepresentsLine
    <3>3. ASSUME NEW i \in 1..(Len(line) - 1)
          PROVE  ev_next'[line[i + 1]] =
                   IF i = Len(line) - 1 THEN Null ELSE line[i + 2]
      <4>1. i + 1 \in 2..Len(line) /\ i + 1 \in 1..Len(line)
        BY <3>1
      <4>2. ev_next'[line[i + 1]] = ev_next[line[i + 1]]
        BY <2>2, <4>1
      <4>3. ev_next[line[i + 1]] =
              IF i + 1 = Len(line) THEN Null ELSE line[(i + 1) + 1]
        BY <3>2, <4>1
      <4> QED BY <3>1, <4>2, <4>3
    <3> QED BY <3>3
  <2>4. /\ first' = IF line' = <<>> THEN Null ELSE line'[1]
        /\ last' = IF line' = <<>> THEN Null ELSE line'[Len(line')]
    BY <1>1, <2>1, TailFacts
  <2>5. \A i \in DOMAIN line' :
          ev_next'[line'[i]] = IF i = Len(line') THEN Null ELSE line'[i + 1]
    BY <1>1, <2>3, TailFacts
  <2> QED BY <2>4, <2>5 DEF QueueRepresentsLine
<1>5. QueueLock'
  BY DEF Dequeue, FirstAfter, LastAfter, QueueLock, TypeOK
<1>6. EventLock'
  BY DEF Dequeue, FirstAfter, LastAfter, EventLock, TypeOK, NodeHolds
<1>7. QueueContents'
  BY DEF Dequeue, FirstAfter, LastAfter, QueueContents, Ownership,
       QueueRepresentsLine
<1>8. Unlinked'
  BY DEF Dequeue, FirstAfter, LastAfter, Unlinked, Ownership, QueueContents,
       QueueRepresentsLine
<1>9. Frames'
  BY DEF Dequeue, FirstAfter, LastAfter, Frames, TypeOK
<1>10. Progress'
  BY DEF Dequeue, FirstAfter, LastAfter, Progress, TypeOK
<1> QED BY <1>2, <1>3, <1>4, <1>5, <1>6, <1>7, <1>8, <1>9, <1>10

(* A spurious wakeup only gives the queue lock back. *)
LEMMA DequeueNothingStep ==
  ASSUME IInv, DequeueNothing
  PROVE  IInv'
<1>1. QueueRepresentsLine' /\ Ownership' /\ QueueContents' /\ HandOff' /\
     ContextKnown' /\ Completing' /\ Progress'
  BY DEF DequeueNothing, QueueRepresentsLine, Ownership, QueueContents,
       HandOff, ContextKnown, Completing, Progress
<1>2. TypeOK'
  BY DEF DequeueNothing, TypeOK
<1>3. QueueLock'
  BY DEF DequeueNothing, QueueLock, TypeOK
<1>4. EventLock'
  BY DEF DequeueNothing, EventLock, TypeOK, NodeHolds
<1>5. Unlinked'
  BY DEF DequeueNothing, Unlinked, TypeOK
<1>6. Frames'
  BY DEF DequeueNothing, Frames, TypeOK
<1> QED BY <1>1, <1>2, <1>3, <1>4, <1>5, <1>6

(* The node thread gets the mutex from a sleeping thread. *)
LEMMA LockEventStep ==
  ASSUME IInv, LockEvent
  PROVE  IInv'
<1>1. QueueRepresentsLine' /\ Ownership' /\ QueueContents' /\ ContextKnown' /\
     Completing'
  BY DEF LockEvent, QueueRepresentsLine, Ownership, QueueContents,
       ContextKnown, Completing
<1>2. TypeOK'
  BY DEF LockEvent, TypeOK
<1>3. QueueLock'
  BY DEF LockEvent, QueueLock, TypeOK
<1>4. EventLock'
  BY DEF LockEvent, EventLock, TypeOK, NodeHolds
<1>5. Unlinked'
  BY DEF LockEvent, Unlinked, Ownership, EventLock, NodeHolds
<1>6. HandOff'
  BY DEF LockEvent, HandOff, TypeOK
<1>7. Frames'
  BY DEF LockEvent, Frames, TypeOK
<1>8. Progress'
  BY DEF LockEvent, Progress, TypeOK, Ownership, Unlinked
<1> QED BY <1>1, <1>2, <1>3, <1>4, <1>5, <1>6, <1>7, <1>8

(* A dropped event is in no place any more. *)
LEMMA LockEventFailsStep ==
  ASSUME IInv, LockEventFails
  PROVE  IInv'
<1>1. /\ npc = "lock_event" /\ npc' = "loop"
      /\ ev' = Null /\ lck_queue' = Null
      /\ UNCHANGED <<threadVars, objectVars, fieldVars, pt_lock, listVars,
                     pending, doneVars, scriptVars>>
  BY DEF LockEventFails
<1>2. QueueRepresentsLine' /\ Ownership' /\ HandOff' /\ ContextKnown' /\
     Completing' /\ Progress'
  BY <1>1 DEF QueueRepresentsLine, Ownership, HandOff, ContextKnown,
       Completing, Progress
<1>3. TypeOK'
  BY <1>1 DEF TypeOK
<1>4. QueueLock'
  BY <1>1 DEF QueueLock, TypeOK
<1>5. EventLock'
  BY <1>1 DEF EventLock, TypeOK, NodeHolds
<1>6. QueueContents'
  BY <1>1 DEF QueueContents, TypeOK
<1>7. Unlinked'
  BY <1>1 DEF Unlinked, TypeOK
<1>8. Frames'
  BY <1>1 DEF Frames, TypeOK
<1> QED BY <1>2, <1>3, <1>4, <1>5, <1>6, <1>7, <1>8

(* The script is given the event whose mutex the node thread took. *)
LEMMA FireStep ==
  ASSUME IInv, Fire
  PROVE  IInv'
<1>1. QueueRepresentsLine' /\ Ownership' /\ Progress'
  BY DEF Fire, QueueRepresentsLine, Ownership, Progress
<1>2. TypeOK'
  BY DEF Fire, TypeOK, Ownership, Unlinked
<1>3. QueueLock'
  BY DEF Fire, QueueLock, TypeOK
<1>4. EventLock'
  BY DEF Fire, EventLock, TypeOK, Ownership, Unlinked, NodeHolds
<1>5. QueueContents'
  BY DEF Fire, QueueContents, TypeOK, Ownership, Unlinked
<1>6. Unlinked'
  BY DEF Fire, Unlinked, TypeOK
<1>7. HandOff'
  BY DEF Fire, HandOff, TypeOK, Ownership, Unlinked, EventLock, NodeHolds
<1>8. ContextKnown'
  BY DEF Fire, ContextKnown, TypeOK, Ownership, Unlinked, Progress
<1>9. Frames'
  BY DEF Fire, Frames, TypeOK
<1>10. Completing'
  BY DEF Fire, Completing, Frames
<1> QED BY <1>1, <1>2, <1>3, <1>4, <1>5, <1>6, <1>7, <1>8, <1>9, <1>10

(* The script returns with or without its answer given. *)
LEMMA ScriptReturnsStep ==
  ASSUME IInv, ScriptReturns
  PROVE  IInv'
<1>1. QueueRepresentsLine' /\ Ownership' /\ QueueContents' /\ HandOff' /\
     ContextKnown' /\ Completing' /\ Progress'
  BY DEF ScriptReturns, QueueRepresentsLine, Ownership, QueueContents,
       HandOff, ContextKnown, Completing, Progress
<1>2. TypeOK'
  BY DEF ScriptReturns, TypeOK
<1>3. QueueLock'
  BY DEF ScriptReturns, QueueLock, TypeOK
<1>4. EventLock'
  BY DEF ScriptReturns, EventLock, TypeOK, NodeHolds
<1>5. Unlinked'
  BY DEF ScriptReturns, Unlinked, TypeOK
<1>6. Frames'
  BY DEF ScriptReturns, Frames, TypeOK
<1> QED BY <1>1, <1>2, <1>3, <1>4, <1>5, <1>6

(* The answered event is the one the session's thread sleeps on. *)
LEMMA DoneStep ==
  ASSUME IInv, NEW s \in Session, NEW v \in Verdict, Done(s, v)
  PROVE  IInv'
<1> DEFINE e == current_event[s]
<1>1. s \in owes /\ e \in Event /\ e = event[s] /\ pc[s] \in Asleep
  BY DEF Done, HandOff, TypeOK
<1>2. /\ pc' \in [Session -> ThreadPc]
      /\ \A t \in Session : pc'[t] = "idle" <=> pc[t] = "idle"
  BY <1>1 DEF Done, Signalled, TypeOK
<1>3. fi_retval' \in [Event -> Verdict] /\ is_done' \in [Event -> BOOLEAN]
  BY <1>1 DEF Done, Recorded, TypeOK
<1>4. QueueRepresentsLine' /\ Ownership'
  BY DEF Done, QueueRepresentsLine, Ownership
<1>5. TypeOK'
  BY <1>1, <1>2, <1>3 DEF Done, TypeOK
<1>6. QueueLock'
  BY DEF Done, Recorded, Signalled, QueueLock, TypeOK
<1>7. EventLock'
  BY DEF Done, Recorded, Signalled, EventLock, TypeOK, NodeHolds
<1>8. QueueContents'
  BY DEF Done, Recorded, Signalled, QueueContents, TypeOK, Ownership, HandOff
<1>9. Unlinked'
  BY DEF Done, Recorded, Signalled, Unlinked, TypeOK
<1>10. HandOff'
  BY DEF Done, Recorded, Signalled, HandOff, TypeOK, Ownership
<1>11. ContextKnown'
  BY DEF Done, Recorded, Signalled, ContextKnown, TypeOK
<1>12. Frames'
  BY DEF Done, Recorded, Signalled, Frames, TypeOK
<1>13. Completing'
  BY DEF Done, Recorded, Signalled, Completing, TypeOK, Ownership, HandOff
<1>14. Progress'
  BY DEF Done, Recorded, Signalled, Progress, TypeOK, Ownership, HandOff
<1> QED BY <1>4, <1>5, <1>6, <1>7, <1>8, <1>9, <1>10, <1>11, <1>12, <1>13,
     <1>14

(* Done gives the mutex back to nobody but the woken thread. *)
LEMMA DoneUnlockStep ==
  ASSUME IInv, DoneUnlock
  PROVE  IInv'
<1>1. QueueRepresentsLine' /\ Ownership' /\ QueueLock' /\ Unlinked' /\
     ContextKnown'
  BY DEF DoneUnlock, QueueRepresentsLine, Ownership, QueueLock, Unlinked,
       ContextKnown
<1>2. TypeOK'
  BY DEF DoneUnlock, Yielded, TypeOK
<1>3. EventLock'
  BY DEF DoneUnlock, Yielded, EventLock, TypeOK, Ownership, HandOff,
       Completing, Frames, NodeHolds
<1>4. QueueContents'
  BY DEF DoneUnlock, Yielded, QueueContents, TypeOK
<1>5. HandOff'
  BY DEF DoneUnlock, Yielded, HandOff, TypeOK, Ownership, Completing
<1>6. Frames'
  BY DEF DoneUnlock, Yielded, Frames, TypeOK
<1>7. Completing'
  BY DEF DoneUnlock, Yielded, Completing, TypeOK
<1>8. Progress'
  BY DEF DoneUnlock, Yielded, Progress, TypeOK
<1> QED BY <1>1, <1>2, <1>3, <1>4, <1>5, <1>6, <1>7, <1>8

(* The end of Done touches no event. *)
LEMMA DoneReturnStep ==
  ASSUME IInv, DoneReturn
  PROVE  IInv'
<1>1. QueueRepresentsLine' /\ Ownership' /\ QueueLock' /\ Unlinked' /\
     HandOff' /\ ContextKnown' /\ Progress'
  BY DEF DoneReturn, QueueRepresentsLine, Ownership, QueueLock, Unlinked,
       HandOff, ContextKnown, Progress
<1>2. TypeOK'
  BY DEF DoneReturn, TypeOK
<1>3. EventLock'
  BY DEF DoneReturn, EventLock, TypeOK, NodeHolds
<1>4. QueueContents'
  BY DEF DoneReturn, QueueContents, TypeOK
<1>5. Frames'
  BY DEF DoneReturn, Frames, TypeOK
<1>6. Completing'
  BY DEF DoneReturn, Completing, TypeOK
<1> QED BY <1>1, <1>2, <1>3, <1>4, <1>5, <1>6
(* Every step of the bridge preserves the invariant. *)
LEMMA NextInv == IInv /\ [Next]_vars => IInv'
<1> SUFFICES ASSUME IInv, [Next]_vars PROVE IInv'
  OBVIOUS
<1>1. ASSUME NEW s \in Session, ThreadStep(s) PROVE IInv'
  BY <1>1, ConstructStep, LockQueueStep, LockQueueFailsStep, EnqueueStep,
     EnqueueFailsStep, UnlockQueueStep, SetMilterContextStep, AsyncSendStep,
     WaitStep, SpuriousWakeupStep, RelockStep, RetryStep, TakeResultStep,
     DeleteStep
  DEF ThreadStep
<1>2. CASE NodeStep
  BY <1>2, TriggerEventStep, TriggerLockQueueStep, TriggerLockQueueFailsStep,
     DequeueStep, DequeueNothingStep, LockEventStep, LockEventFailsStep,
     FireStep, ScriptReturnsStep, DoneStep, DoneUnlockStep, DoneReturnStep
  DEF NodeStep
<1>3. CASE UNCHANGED vars
  BY <1>3, StutterStep
<1> QED BY <1>1, <1>2, <1>3 DEF Next

(* The locks, the list, the events and the two sides' frames agree in      *)
(* every reachable state: generate_event, trigger_event and Done together. *)
THEOREM Invariance == Spec => []IInv
  BY InitInv, NextInv, PTL DEF Spec

(* Every variable has its type, and the locals of the frames are set       *)
(* exactly where the code has set them.                                    *)
THEOREM TypeCorrect == Spec => []TypeOK
<1>1. IInv => TypeOK
  OBVIOUS
<1> QED BY <1>1, Invariance, PTL

(* first, last and the ev_next links are the queued events in order, and   *)
(* the assertion of MilterEvent::Append never fails.                       *)
THEOREM QueueCorrect == Spec => []QueueRepresentsLine
<1>1. IInv => QueueRepresentsLine
  OBVIOUS
<1> QED BY <1>1, Invariance, PTL

(* A script that owes an answer has the event its session's thread sleeps  *)
(* on, locked for the node thread and not completed.                       *)
THEOREM HandOffSafe == Spec => []HandOff
<1>1. IInv => HandOff
  OBVIOUS
<1> QED BY <1>1, Invariance, PTL

(* Although generate_event writes smfi_context after queueing the event,   *)
(* Fire never reads it unwritten.                                          *)
THEOREM ContextAlwaysKnown == Spec => []ContextKnown
<1>1. IInv => ContextKnown
  OBVIOUS
<1> QED BY <1>1, Invariance, PTL

(* Neither the queue, nor trigger_event, nor an envelope that may still be *)
(* answered, nor a Done that has not unlocked holds a freed event.         *)
THEOREM NoFreedEvent == Spec => []LiveEvents
<1>1. IInv => LiveEvents
  <2> SUFFICES ASSUME IInv PROVE LiveEvents
    OBVIOUS
  <2>1. Queued \subseteq heap
    BY DEF Queued, QueueContents
  <2>2. ev # Null => ev \in heap
    BY DEF Unlinked
  <2>3. \A s \in owes : current_event[s] \in heap
    BY DEF HandOff, Ownership, TypeOK
  <2>4. done_pc = "unlock" => done_ev \in heap
    BY DEF Completing
  <2> QED BY <2>1, <2>2, <2>3, <2>4 DEF LiveEvents
<1> QED BY <1>1, Invariance, PTL

-----------------------------------------------------------------------------
(* Only a thread in the wait loop has its event in the queue.              *)
LEMMA OnlyLoopQueued ==
  ASSUME IInv, NEW s \in Session, event[s] \in Queued
  PROVE  pc[s] \in InLoop /\ ~ is_done[event[s]]
  BY DEF Queued, QueueContents, Ownership, TypeOK

(* Each step of a thread either leaves a wakeup under way, or is made by a *)
(* thread whose event is not queued, or touches neither.                   *)
LEMMA ThreadKeepsAwake ==
  ASSUME IInv, NeverAllAsleep, NEW s \in Session, ThreadStep(s)
  PROVE  NeverAllAsleep'
<1>1. CASE Construct(s)
  <2>1. event'[s] \notin heap /\ line' = line
    BY <1>1 DEF Construct, TypeOK
  <2>2. event'[s] \notin Queued'
    BY <2>1 DEF Queued, QueueContents
  <2> QED BY <2>2 DEF NeverAllAsleep
<1>2. CASE LockQueue(s) \/ LockQueueFails(s) \/ EnqueueFails(s)
  <2>1. event[s] \notin Queued
    BY <1>2, OnlyLoopQueued DEF LockQueue, LockQueueFails, EnqueueFails
  <2>2. UNCHANGED <<event, line>>
    BY <1>2 DEF LockQueue, LockQueueFails, EnqueueFails
  <2> QED BY <2>1, <2>2 DEF NeverAllAsleep, Queued
<1>3. CASE Enqueue(s) \/ UnlockQueue(s) \/ SetMilterContext(s) \/ Retry(s)
  <2>1. pc'[s] \in {"unlock_queue", "set_context", "send"}
    BY <1>3 DEF Enqueue, UnlockQueue, SetMilterContext, Retry, TypeOK
  <2> QED BY <2>1 DEF NeverAllAsleep, Wakeup
<1>4. CASE AsyncSend(s)
  BY <1>4 DEF AsyncSend, Raised, NeverAllAsleep, Wakeup
<1>5. CASE Wait(s) \/ SpuriousWakeup(s) \/ Relock(s) \/ TakeResult(s)
  <2>1. pc[s] \notin {"unlock_queue", "set_context", "send"}
    BY <1>5 DEF Wait, SpuriousWakeup, Relock, TakeResult
  <2>2. \A t \in Session \ {s} : pc'[t] = pc[t]
    BY <1>5 DEF Wait, SpuriousWakeup, Relock, TakeResult, TypeOK
  <2>3. UNCHANGED <<pending, npc, event, line>>
    BY <1>5 DEF Wait, SpuriousWakeup, Relock, TakeResult
  <2> QED BY <2>1, <2>2, <2>3 DEF NeverAllAsleep, Wakeup, Queued
<1>6. CASE Delete(s)
  <2>1. event'[s] = Null /\ line' = line
    BY <1>6 DEF Delete, FrameLeft, TypeOK
  <2>2. Null \notin Queued
    BY DEF Queued, QueueContents, TypeOK
  <2> QED BY <2>1, <2>2 DEF NeverAllAsleep, Queued
<1> QED BY <1>1, <1>2, <1>3, <1>4, <1>5, <1>6 DEF ThreadStep

(* trigger_event looks into the queue after every wakeup it consumes, and  *)
(* takes an event out of it unless it is empty.                            *)
LEMMA NodeKeepsAwake ==
  ASSUME IInv, NeverAllAsleep, Session # {}, NodeStep,
         ~ TriggerLockQueueFails
  PROVE  NeverAllAsleep'
<1>1. CASE TriggerEvent \/ TriggerLockQueue
  BY <1>1 DEF TriggerEvent, TriggerLockQueue, NeverAllAsleep, Wakeup
<1>2. CASE Dequeue
  <2> DEFINE t == fi_envelope[first]
  <2>1. line \in Seq(Event) /\ line # <<>> /\ first = line[1]
    BY <1>2 DEF Dequeue, TypeOK, QueueRepresentsLine
  <2>2. DOMAIN line = 1..Len(line) /\ Len(line) \in Nat \ {0}
    BY <2>1, TailFacts
  <2>3. \A i \in 1..(Len(line) - 1) : line[i + 1] # first
    <3>1. \A i \in DOMAIN line : line[i] = line[1] => i = 1
      BY <2>2 DEF QueueContents
    <3> QED BY <2>1, <2>2, <3>1
  <2>4. first \notin {Tail(line)[i] : i \in DOMAIN Tail(line)}
    BY <2>1, <2>3, TailFacts
  <2>5. line' = Tail(line) /\ event' = event
    BY <1>2 DEF Dequeue
  <2>6. t \in Session /\ event[t] = first
    <3>1. line[1] \in heap
      BY <2>2 DEF QueueContents
    <3> QED BY <2>1, <3>1 DEF Ownership
  <2> QED BY <2>4, <2>5, <2>6 DEF NeverAllAsleep, Queued
<1>3. CASE DequeueNothing
  <2>1. line # <<>> => line[1] \in Event
    BY ElementOfSeq, EmptySeq DEF TypeOK
  <2>2. line' = <<>>
    BY <1>3, <2>1 DEF DequeueNothing, QueueRepresentsLine
  <2>3. Queued' = {}
    BY <2>2, EmptyDomain DEF Queued
  <2> QED BY <2>3 DEF NeverAllAsleep
<1>4. CASE LockEvent \/ LockEventFails \/ Fire \/ ScriptReturns
           \/ DoneUnlock \/ DoneReturn
  <2>1. UNCHANGED <<pc, event, line, pending>>
    BY <1>4 DEF LockEvent, LockEventFails, Fire, ScriptReturns, DoneUnlock,
                DoneReturn
  <2>2. npc \in {"lock_queue", "dequeue"} => npc' = npc
    BY <1>4 DEF LockEvent, LockEventFails, Fire, ScriptReturns, DoneUnlock,
                DoneReturn
  <2> QED BY <2>1, <2>2 DEF NeverAllAsleep, Wakeup, Queued
<1>5. ASSUME NEW s \in Session, NEW v \in Verdict, Done(s, v)
      PROVE  NeverAllAsleep'
  <2>1. \A t \in Session :
          pc[t] \in {"unlock_queue", "set_context", "send"} => pc'[t] = pc[t]
    BY <1>5 DEF Done, Signalled
  <2>2. UNCHANGED <<event, line, pending, npc>>
    BY <1>5 DEF Done
  <2> QED BY <2>1, <2>2 DEF NeverAllAsleep, Wakeup, Queued
<1> QED BY <1>1, <1>2, <1>3, <1>4, <1>5 DEF NodeStep

(* As long as trigger_event can lock the queue, the queued events of all   *)
(* sessions are never left behind together with no wakeup under way.       *)
THEOREM SomeoneAwake ==
  ASSUME Session # {}, ~ MayFail("trigger queue")
  PROVE  Spec => []NeverAllAsleep
<1>1. Init => NeverAllAsleep
  <2>1. Init => Queued = {}
    BY EmptyDomain DEF Init, Queued
  <2> QED BY <2>1 DEF NeverAllAsleep
<1>2. IInv /\ NeverAllAsleep /\ [Next]_vars => NeverAllAsleep'
  <2> SUFFICES ASSUME IInv, NeverAllAsleep, [Next]_vars
               PROVE  NeverAllAsleep'
    OBVIOUS
  <2>1. ~ TriggerLockQueueFails
    BY DEF TriggerLockQueueFails
  <2>2. CASE Next
    BY <2>1, <2>2, ThreadKeepsAwake, NodeKeepsAwake DEF Next
  <2>3. CASE UNCHANGED vars
    BY <2>3 DEF vars, NeverAllAsleep, Wakeup, Queued
  <2> QED BY <2>2, <2>3
<1> QED BY <1>1, <1>2, Invariance, PTL DEF Spec

=============================================================================
