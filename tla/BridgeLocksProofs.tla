------------------------- MODULE BridgeLocksProofs -------------------------
(***************************************************************************)
(* The locking discipline of the bridge, for any number of sessions and    *)
(* addresses and any failing calls.  All of it follows from the inductive  *)
(* invariant IInv, which says who holds which mutex at which step.         *)
(***************************************************************************)
EXTENDS BridgeLocks, EventBridgeProofs

USE BridgeAssumption
  DEF BridgeAssumption, IInv, GoTo, ThreadPc, NodePc, DonePc, threadVars,
      objectVars, fieldVars, listVars, nodeVars, doneVars, scriptVars,
      InLoop, Holding, Asleep

(* The thread behind an event the node thread holds is asleep, or about to *)
(* take the event's mutex back.                                            *)
LEMMA HeldAsleep ==
  ASSUME IInv, NEW s \in Session, event[s] # Null, pt_lock[event[s]] = Node
  PROVE  pc[s] \in Asleep
<1> DEFINE e == event[s]
<1>1. e \in heap /\ fi_envelope[e] = s
  BY DEF Ownership
<1>2. NodeHolds(e)
  BY <1>1 DEF EventLock
<1>3. CASE npc = "fire" /\ ev = e
  BY <1>1, <1>3 DEF Unlinked, TypeOK
<1>4. CASE \E t \in owes : current_event[t] = e
  <2>1. PICK t \in owes : current_event[t] = e
    BY <1>4
  <2>2. t \in Session /\ event[t] = e /\ event[t] # Null
    BY <1>1, <2>1 DEF HandOff, TypeOK
  <2>3. t = s
    BY <1>1, <2>2 DEF Ownership
  <2> QED BY <2>1, <2>3 DEF HandOff
<1>5. CASE done_pc = "unlock" /\ done_ev = e
  BY <1>1, <1>5 DEF Completing
<1> QED BY <1>2, <1>3, <1>4, <1>5 DEF NodeHolds

(* A thread outside the steps that take a mutex waits for none.            *)
LEMMA BusyWaitsForNone ==
  ASSUME NEW s \in Session, NEW r,
         pc[s] \notin {"lock_queue", "enqueue", "relock"}
  PROVE  ~ Waits(s, r)
  BY DEF Waits

(* A thread that holds lck_queue, and its own event's mutex as well or is  *)
(* about to take it, finds that mutex free.                                *)
LEMMA QueueHolderRuns ==
  ASSUME IInv, NEW s \in Session, lck_queue = s,
         NEW r \in Session \cup {Node}
  PROVE  ~ Waits(s, r)
<1>1. pc[s] \in {"enqueue", "unlock_queue"}
  BY DEF QueueLock
<1>2. pc[s] = "enqueue" => pt_lock[event[s]] = Null
  BY DEF Progress
<1> QED BY <1>1, <1>2 DEF Waits

(* A thread that holds its event's mutex is at a step that takes no other. *)
LEMMA EventHolderRuns ==
  ASSUME IInv, NEW s \in Session, NEW e \in heap, pt_lock[e] = s, NEW r
  PROVE  ~ Waits(s, r)
<1>1. pc[s] \in Holding
  BY DEF EventLock
<1> QED BY <1>1, BusyWaitsForNone

(* Nobody waits in a circle.                                               *)
LEMMA NoCircle == IInv => NoCircularWait
<1> SUFFICES ASSUME IInv PROVE NoCircularWait
  OBVIOUS
<1>1. ~ Waits(Node, Node)
  <2>1. npc = "lock_queue" => lck_queue # Node
    BY DEF QueueLock
  <2>2. npc = "lock_event" => pt_lock[ev] # Node
    <3> SUFFICES ASSUME npc = "lock_event", pt_lock[ev] = Node PROVE FALSE
      OBVIOUS
    <3>1. /\ ev # Null /\ ev \in heap /\ fi_envelope[ev] \notin owes
          /\ done_pc = "none"
      BY DEF TypeOK, Unlinked, Frames
    <3>2. NodeHolds(ev)
      BY <3>1 DEF EventLock
    <3>3. PICK t \in owes : current_event[t] = ev
      BY <3>1, <3>2 DEF NodeHolds
    <3>4. t \in Session /\ event[t] = ev
      BY <3>3 DEF HandOff, TypeOK
    <3>5. fi_envelope[ev] = t
      BY <3>1, <3>4 DEF Ownership
    <3> QED BY <3>1, <3>3, <3>5
  <2> QED BY <2>1, <2>2 DEF Waits
<1>2. ASSUME NEW p \in Session \cup {Node}, NEW q \in Session,
             NEW r \in Session \cup {Node}, Waits(p, q)
      PROVE  ~ Waits(q, r)
  <2>1. CASE lck_queue = q
    BY <2>1, QueueHolderRuns
  <2>2. CASE p = Node /\ npc = "lock_event" /\ pt_lock[ev] = q
    <3>1. ev \in heap
      BY <2>2 DEF TypeOK, Unlinked
    <3> QED BY <2>2, <3>1, EventHolderRuns
  <2>3. CASE p \in Session /\ pc[p] \in {"enqueue", "relock"}
             /\ pt_lock[event[p]] = q
    <3>1. event[p] \in heap
      BY <2>3 DEF TypeOK, Ownership
    <3> QED BY <2>3, <3>1, EventHolderRuns
  <2> QED BY <1>2, <2>1, <2>2, <2>3 DEF Waits
<1> QED BY <1>1, <1>2 DEF NoCircularWait

(* Whatever fails, the mutexes of the bridge are never waited for in a     *)
(* circle: trigger_event, blocked on an event with lck_queue held, always  *)
(* blocks on a thread that will reach its wait.                            *)
THEOREM LocksOrdered == Spec => []NoCircularWait
  BY NoCircle, Invariance, PTL

-----------------------------------------------------------------------------
(* The events a thread that returned is not among those of the node side.  *)
LEMMA DeletedIsNobodys == IInv => DestroyedAtRest
<1> SUFFICES ASSUME IInv, NEW s \in Session, pc[s] = "delete"
             PROVE  /\ pt_lock[event[s]] = Null
                    /\ event[s] \notin Queued
                    /\ event[s] # ev
                    /\ done_pc = "unlock" => event[s] # done_ev
  BY DEF DestroyedAtRest
<1> DEFINE e == event[s]
<1>1. e # Null /\ e \in heap /\ e \in Event /\ fi_envelope[e] = s
  BY DEF TypeOK, Ownership
<1>2. pt_lock[e] # Node
  BY <1>1, HeldAsleep
<1>3. \A t \in Session : pt_lock[e] # t
  <2> SUFFICES ASSUME NEW t \in Session, pt_lock[e] = t PROVE FALSE
    OBVIOUS
  <2>1. event[t] = e /\ pc[t] \in Holding
    BY <1>1 DEF EventLock
  <2>2. t = s
    BY <1>1, <2>1 DEF Ownership
  <2> QED BY <2>1, <2>2
<1>4. pt_lock[e] = Null
  BY <1>1, <1>2, <1>3 DEF TypeOK
<1>5. e \notin Queued
  BY <1>1 DEF Queued, QueueContents
<1>6. e # ev
  BY <1>1 DEF Unlinked
<1>7. done_pc = "unlock" => e # done_ev
  BY <1>1 DEF Completing
<1> QED BY <1>4, <1>5, <1>6, <1>7

(* An event is deleted, its mutex and condition variable destroyed, when   *)
(* nobody holds, queues or is about to lock or unlock it.                  *)
THEOREM DestroysAtRest == Spec => []DestroyedAtRest
  BY DeletedIsNobodys, Invariance, PTL

-----------------------------------------------------------------------------
(* The critical section of the queue has one occupant, and the links it    *)
(* touches are those of events whose threads are in generate_event.        *)
LEMMA ListGuarded ==
  ASSUME IInv, NEW s \in Session, pc[s] = "enqueue"
  PROVE  /\ npc # "dequeue"
         /\ \A t \in Session \ {s} : pc[t] # "enqueue"
  BY DEF QueueLock

(* An event at either end of the list is not being deleted.                *)
LEMMA EndsInLoop ==
  ASSUME IInv, NEW s \in Session, pc[s] \notin InLoop, event[s] # Null
  PROVE  first # event[s] /\ last # event[s]
<1>1. ASSUME line # <<>>
      PROVE  1 \in DOMAIN line /\ Len(line) \in DOMAIN line
  <2>1. Len(line) \in Nat \ {0} /\ DOMAIN line = 1..Len(line)
    BY <1>1, TailFacts DEF TypeOK
  <2> QED BY <2>1
<1>2. \A i \in DOMAIN line : line[i] # event[s]
  BY DEF QueueContents, Ownership
<1> QED BY <1>1, <1>2 DEF QueueRepresentsLine

(* Two threads never share an event.                                       *)
LEMMA EventsApart ==
  ASSUME IInv, NEW s \in Session, NEW t \in Session, s # t, event[s] # Null
  PROVE  event[s] # event[t]
  BY DEF Ownership

(* Two libmilter threads are never about to touch the same memory.         *)
LEMMA ThreadsApart ==
  ASSUME IInv, NEW s \in Session, NEW t \in Session, s # t
  PROVE  ThreadTouches(s) \cap ThreadTouches(t) = {}
<1> USE DEF ThreadTouches
<1>1. /\ pc[s] # "idle" => event[s] # Null
      /\ pc[t] # "idle" => event[t] # Null
  BY DEF TypeOK
<1>2. CASE pc[s] = "enqueue"
  <2>1. pc[t] # "enqueue"
    BY <1>2, ListGuarded
  <2>2. CASE pc[t] \in {"set_context", "check"}
    BY <1>2, <2>2
  <2>3. CASE pc[t] = "delete"
    <3>1. event[t] # event[s] /\ event[t] # last /\ event[t] # Null
      BY <1>1, <2>3, EventsApart, EndsInLoop
    <3> QED BY <1>2, <2>3, <3>1
  <2> QED BY <1>2, <2>1, <2>2, <2>3
<1>3. CASE pc[s] \in {"set_context", "check"}
  <2>1. event[s] # event[t]
    BY <1>1, <1>3, EventsApart
  <2> QED BY <1>3, <2>1
<1>4. CASE pc[s] = "delete"
  <2>1. event[s] # event[t] /\ event[s] # last /\ event[s] # Null
    BY <1>1, <1>4, EventsApart, EndsInLoop
  <2> QED BY <1>4, <2>1
<1> QED BY <1>2, <1>3, <1>4

(* The fields the node thread may touch are those of an event whose thread *)
(* is asleep.                                                              *)
LEMMA NodeFieldsAsleep ==
  ASSUME IInv, NEW s \in Session, event[s] # Null,
         <<event[s], "fields">> \in NodeTouches
  PROVE  pc[s] \in Asleep
<1> DEFINE e == event[s]
<1>1. e \in heap /\ fi_envelope[e] = s
  BY DEF Ownership
<1>2. \/ npc = "fire" /\ ev = e
      \/ done_pc = "unlock" /\ done_ev = e
      \/ \E t \in owes : current_event[t] = e
  BY DEF NodeTouches
<1>3. NodeHolds(e)
  BY <1>2 DEF NodeHolds
<1>4. pt_lock[e] = Node
  BY <1>1, <1>3 DEF EventLock
<1> QED BY <1>1, <1>4, HeldAsleep

(* A libmilter thread and the node thread are never about to touch the     *)
(* same memory.                                                            *)
LEMMA ThreadAndNodeApart ==
  ASSUME IInv, NEW s \in Session
  PROVE  ThreadTouches(s) \cap NodeTouches = {}
<1> USE DEF ThreadTouches
<1>1. pc[s] # "idle" => event[s] # Null
  BY DEF TypeOK
<1>2. ASSUME NEW x, <<x, "link">> \in NodeTouches \/ <<x, "list">> \in NodeTouches
      PROVE  npc = "dequeue" /\ (<<x, "link">> \in NodeTouches => x = first)
  BY <1>2 DEF NodeTouches
<1>3. CASE pc[s] = "enqueue"
  <2>1. npc # "dequeue"
    BY <1>3, ListGuarded
  <2> QED BY <1>2, <1>3, <2>1
<1>4. CASE pc[s] \in {"set_context", "check"}
  <2>1. <<event[s], "fields">> \notin NodeTouches
    BY <1>1, <1>4, NodeFieldsAsleep
  <2> QED BY <1>4, <2>1
<1>5. CASE pc[s] = "delete"
  <2>1. <<event[s], "fields">> \notin NodeTouches
    BY <1>1, <1>5, NodeFieldsAsleep
  <2>2. first # event[s]
    BY <1>1, <1>5, EndsInLoop
  <2>3. <<event[s], "link">> \notin NodeTouches
    BY <1>2, <2>2
  <2>4. ThreadTouches(s) = {<<event[s], "link">>, <<event[s], "fields">>}
    BY <1>5
  <2> QED BY <2>1, <2>3, <2>4
<1> QED BY <1>3, <1>4, <1>5

(* No two threads are ever about to touch the same part of the list or of  *)
(* an event, on any error path either: the bridge has no data race but the *)
(* read after unlock in MilterEvent::Done.                                 *)
THEOREM RaceFree == Spec => []NoDataRace
<1>1. IInv => NoDataRace
  BY ThreadsApart, ThreadAndNodeApart DEF NoDataRace
<1> QED BY <1>1, Invariance, PTL

=============================================================================
