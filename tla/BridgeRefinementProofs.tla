----------------------- MODULE BridgeRefinementProofs -----------------------
(***************************************************************************)
(* EventBridge implements CallbackService, for any number of sessions,     *)
(* addresses and verdicts, unless a call fails whose error path loses the  *)
(* event: the event's lock in trigger_event, the signal in Done.           *)
(***************************************************************************)
EXTENDS EventBridgeProofs

USE BridgeAssumption
  DEF BridgeAssumption, IInv, GoTo, ThreadPc, NodePc, DonePc, threadVars,
      objectVars, fieldVars, listVars, nodeVars, doneVars, scriptVars,
      InLoop, Holding, Asleep

(* The verdict an event carries once it is done is the script's.           *)
Given ==
  \A s \in Session :
    pc[s] \in InLoop /\ is_done[event[s]] => given[s] = fi_retval[event[s]]

(* The event of a thread that waits is nowhere any more.                   *)
LostAt(s) ==
  /\ pc[s] \in InLoop
  /\ event[s] \notin Queued
  /\ event[s] # ev
  /\ s \notin owes
  /\ ~ is_done[event[s]]

Placed == \A s \in Session : ~ LostAt(s)

(* A step loses no callback, and none comes back.                          *)
LossesKept == \A s \in Session : LostAt(s)' <=> LostAt(s)

(* The parts of the refinement mapping.                                    *)
Outside == {"idle", "lock_queue", "enqueue"}

StageAt(s) ==
  IF pc[s] \in Outside THEN "idle"
  ELSE IF s \in owes THEN "delivered"
  ELSE IF pc[s] = "delete" \/ is_done[event[s]] THEN "answered"
  ELSE "queued"

VerdictAt(s) ==
  IF StageAt(s) = "answered" /\ pc[s] # "delete" THEN given[s] ELSE retval[s]

barVars == <<stageBar, queueBar, verdictBar>>

-----------------------------------------------------------------------------
(* The alternatives of StageOf exclude each other.                         *)
LEMMA StageIsAt ==
  ASSUME IInv, NEW s \in Session
  PROVE  StageOf(s) = StageAt(s)
<1>1. s \in owes => pc[s] \in {"waiting", "relock"}
  BY DEF HandOff
<1>2. pc[s] \in ThreadPc
  BY DEF TypeOK
<1>3. CASE pc[s] \in Outside
  BY <1>1, <1>3 DEF StageOf, StageAt, Outside
<1>4. CASE pc[s] \notin Outside /\ s \in owes
  <2>1. ~ is_done[event[s]]
    BY <1>4 DEF HandOff
  <2> QED BY <1>1, <1>4, <2>1 DEF StageOf, StageAt, Outside
<1>5. CASE pc[s] \notin Outside /\ s \notin owes
  BY <1>2, <1>5 DEF StageOf, StageAt, Outside
<1> QED BY <1>3, <1>4, <1>5

(* The mapped queue: the line, behind an event that is still to be fired.  *)
LEMMA QueueIs ==
  ASSUME IInv
  PROVE  /\ ev = Null => queueBar = [i \in 1..Len(line) |-> fi_envelope[line[i]]]
         /\ ev # Null => queueBar = [i \in 1..(Len(line) + 1) |->
              fi_envelope[IF i = 1 THEN ev ELSE line[i - 1]]]
<1>1. line \in Seq(Event) /\ Len(line) \in Nat
  BY LenProperties DEF TypeOK
<1>2. CASE ev = Null
  <2>1. Len(<<>>) = 0 /\ <<>> \o line = line
    BY <1>1, ConcatEmptySeq, EmptySeq
  <2>2. queueBar = [i \in 1..(Len(<<>>) + Len(line)) |-> SessionOf((<<>> \o line)[i])]
    BY <1>2 DEF queueBar
  <2> QED BY <1>1, <1>2, <2>1, <2>2 DEF SessionOf
<1>3. CASE ev # Null
  <2>1. <<ev>> \in Seq(Event) /\ Len(<<ev>>) = 1 /\ <<ev>>[1] = ev
    BY <1>3 DEF TypeOK
  <2>2. \A i \in 1..(1 + Len(line)) :
          (<<ev>> \o line)[i] = IF i <= 1 THEN <<ev>>[i] ELSE line[i - 1]
    BY <1>1, <2>1, ConcatProperties
  <2>3. \A i \in 1..(1 + Len(line)) :
          (<<ev>> \o line)[i] = IF i = 1 THEN ev ELSE line[i - 1]
    BY <1>1, <2>1, <2>2
  <2>4. queueBar = [i \in 1..(Len(<<ev>>) + Len(line)) |-> SessionOf((<<ev>> \o line)[i])]
    BY <1>3 DEF queueBar
  <2>5. 1..(Len(<<ev>>) + Len(line)) = 1..(Len(line) + 1)
    BY <1>1, <2>1
  <2> QED BY <1>3, <1>1, <2>1, <2>3, <2>4, <2>5 DEF SessionOf
<1> QED BY <1>2, <1>3

(* Stages and verdicts are mapped session by session.                      *)
LEMMA BarsAt ==
  ASSUME IInv
  PROVE  /\ stageBar = [s \in Session |-> StageAt(s)]
         /\ verdictBar = [s \in Session |-> VerdictAt(s)]
<1>1. \A s \in Session : StageOf(s) = StageAt(s)
  BY StageIsAt
<1> QED BY <1>1 DEF stageBar, verdictBar, VerdictAt

(* The same in the next state.                                             *)
LEMMA BarsAtNext ==
  ASSUME IInv'
  PROVE  /\ stageBar' = [s \in Session |-> StageAt(s)']
         /\ verdictBar' = [s \in Session |-> VerdictAt(s)']
<1>1. (/\ stageBar = [s \in Session |-> StageAt(s)]
       /\ verdictBar = [s \in Session |-> VerdictAt(s)])'
  BY BarsAt, PTL
<1> QED BY <1>1

-----------------------------------------------------------------------------
(* The service sees nothing of a step that keeps stages, verdicts and the  *)
(* queue.                                                                  *)
LEMMA Unseen ==
  ASSUME IInv, IInv',
         \A s \in Session : StageAt(s)' = StageAt(s)
                           /\ VerdictAt(s)' = VerdictAt(s),
         queueBar' = queueBar
  PROVE  UNCHANGED barVars
  BY BarsAt, BarsAtNext DEF barVars

(* The mapped queue depends on these variables only.                       *)
LEMMA QueueUnseen ==
  ASSUME UNCHANGED <<ev, line, fi_envelope>>
  PROVE  queueBar' = queueBar
  BY DEF queueBar, SessionOf

(* The node thread moves its own program counter, locks or raises.         *)
LEMMA NodeQuiet ==
  ASSUME IInv, IInv',
         UNCHANGED <<pc, event, retval, fi_envelope, is_done, line, ev, owes,
                     given>>
  PROVE  UNCHANGED barVars
<1>1. \A s \in Session : StageAt(s)' = StageAt(s)
                         /\ VerdictAt(s)' = VerdictAt(s)
  BY DEF StageAt, VerdictAt, Outside
<1> QED BY <1>1, Unseen, QueueUnseen

(* A thread goes on inside or outside the queue's keeping.                 *)
LEMMA ThreadQuiet ==
  ASSUME IInv, IInv', NEW s \in Session, NEW to,
         pc' = [pc EXCEPT ![s] = to],
         \/ pc[s] \in Outside /\ to \in Outside
         \/ pc[s] \in InLoop /\ to \in InLoop,
         UNCHANGED <<event, retval, fi_envelope, is_done, line, ev, owes,
                     given>>
  PROVE  UNCHANGED barVars
<1>1. ASSUME NEW t \in Session
      PROVE  StageAt(t)' = StageAt(t) /\ VerdictAt(t)' = VerdictAt(t)
  BY DEF StageAt, VerdictAt, Outside, TypeOK
<1> QED BY <1>1, Unseen, QueueUnseen

(* A new event is nobody's yet; the addresses in the queue are taken.      *)
LEMMA ConstructQuiet ==
  ASSUME IInv, IInv', NEW s \in Session, Construct(s)
  PROVE  UNCHANGED barVars
<1>1. PICK e \in Event \ heap :
        /\ event' = [event EXCEPT ![s] = e]
        /\ fi_envelope' = [fi_envelope EXCEPT ![e] = s]
        /\ is_done' = [is_done EXCEPT ![e] = FALSE]
  BY DEF Construct
<1>2. /\ pc[s] = "idle" /\ pc' = [pc EXCEPT ![s] = "lock_queue"]
      /\ UNCHANGED <<retval, line, ev, owes, given>>
  BY DEF Construct
<1>3. \A t \in Session \ {s} : pc[t] \notin Outside => event[t] \in heap
  BY DEF Outside, TypeOK, Ownership
<1>4. ASSUME NEW t \in Session
      PROVE  StageAt(t)' = StageAt(t) /\ VerdictAt(t)' = VerdictAt(t)
  <2>1. CASE t = s
    BY <1>2, <2>1 DEF StageAt, VerdictAt, Outside, TypeOK
  <2>2. CASE t # s
    BY <1>1, <1>2, <1>3, <2>2 DEF StageAt, VerdictAt, Outside, TypeOK
  <2> QED BY <2>1, <2>2
<1>5. ev # Null => fi_envelope'[ev] = fi_envelope[ev]
  BY <1>1 DEF Unlinked, TypeOK
<1>6. \A i \in 1..Len(line) : fi_envelope'[line[i]] = fi_envelope[line[i]]
  <2>1. \A i \in 1..Len(line) : line[i] \in heap /\ line[i] \in Event
    BY LenProperties DEF QueueContents, TypeOK
  <2> QED BY <1>1, <2>1 DEF TypeOK
<1>7. queueBar' = queueBar
  <2>1. (ev = Null => queueBar = [i \in 1..Len(line) |-> fi_envelope[line[i]]])'
    BY QueueIs, PTL
  <2>2. (ev # Null => queueBar = [i \in 1..(Len(line) + 1) |->
           fi_envelope[IF i = 1 THEN ev ELSE line[i - 1]]])'
    BY QueueIs, PTL
  <2>3. Len(line) \in Nat
    BY LenProperties DEF TypeOK
  <2>4. CASE ev = Null
    <3>1. queueBar = [i \in 1..Len(line) |-> fi_envelope[line[i]]]
      BY <2>4, QueueIs
    <3> QED BY <1>2, <1>6, <2>1, <2>4, <3>1
  <2>5. CASE ev # Null
    <3>1. queueBar = [i \in 1..(Len(line) + 1) |->
            fi_envelope[IF i = 1 THEN ev ELSE line[i - 1]]]
      BY <2>5, QueueIs
    <3>2. \A i \in 1..(Len(line) + 1) :
            fi_envelope'[IF i = 1 THEN ev ELSE line[i - 1]]
              = fi_envelope[IF i = 1 THEN ev ELSE line[i - 1]]
      BY <1>5, <1>6, <2>3, <2>5
    <3> QED BY <1>2, <2>2, <2>5, <3>1, <3>2
  <2> QED BY <2>4, <2>5
<1> QED BY <1>4, <1>7, Unseen

(* trigger_event unlinks the head of the line, which stays the oldest.     *)
LEMMA DequeueQuiet ==
  ASSUME IInv, IInv', Dequeue
  PROVE  UNCHANGED barVars
<1>1. /\ ev' = first /\ first # Null /\ line' = Tail(line) /\ ev = Null
      /\ UNCHANGED <<pc, event, retval, fi_envelope, is_done, owes, given>>
  BY DEF Dequeue, TypeOK
<1>2. \A s \in Session : StageAt(s)' = StageAt(s)
                         /\ VerdictAt(s)' = VerdictAt(s)
  BY <1>1 DEF StageAt, VerdictAt, Outside
<1> DEFINE n == Len(line)
<1>3. /\ line # <<>> /\ first = line[1] /\ n \in Nat \ {0}
      /\ Len(line') = n - 1
      /\ \A i \in 1..(n - 1) : line'[i] = line[i + 1]
  <2>1. line # <<>> /\ line \in Seq(Event)
    BY <1>1 DEF QueueRepresentsLine, TypeOK
  <2> QED BY <1>1, <2>1, TailFacts DEF QueueRepresentsLine
<1>4. queueBar' = queueBar
  <2>1. queueBar = [i \in 1..n |-> fi_envelope[line[i]]]
    BY <1>1, QueueIs
  <2>2. (ev # Null => queueBar = [i \in 1..(Len(line) + 1) |->
           fi_envelope[IF i = 1 THEN ev ELSE line[i - 1]]])'
    BY QueueIs, PTL
  <2>3. 1..(Len(line') + 1) = 1..n
    BY <1>3
  <2>4. \A i \in 1..n : (IF i = 1 THEN ev' ELSE line'[i - 1]) = line[i]
    BY <1>1, <1>3
  <2>5. queueBar' = [i \in 1..n |->
          fi_envelope[IF i = 1 THEN ev' ELSE line'[i - 1]]]
    BY <1>1, <2>2, <2>3
  <2> QED BY <2>1, <2>4, <2>5
<1> QED BY <1>2, <1>4, Unseen

(* The thread takes the verdict that the script gave.                      *)
LEMMA TakeResultQuiet ==
  ASSUME IInv, IInv', Given, NEW s \in Session, TakeResult(s)
  PROVE  UNCHANGED barVars
<1>1. /\ pc[s] = "check" /\ pc' = [pc EXCEPT ![s] = "delete"]
      /\ is_done[event[s]]
      /\ retval' = [retval EXCEPT ![s] = fi_retval[event[s]]]
      /\ UNCHANGED <<event, fi_envelope, is_done, line, ev, owes, given>>
  BY DEF TakeResult, IsDone
<1>2. s \notin owes /\ given[s] = fi_retval[event[s]]
  BY <1>1 DEF HandOff, Given
<1>3. ASSUME NEW t \in Session
      PROVE  StageAt(t)' = StageAt(t) /\ VerdictAt(t)' = VerdictAt(t)
  <2>1. CASE t = s
    BY <1>1, <1>2, <2>1 DEF StageAt, VerdictAt, Outside, TypeOK
  <2>2. CASE t # s
    BY <1>1, <2>2 DEF StageAt, VerdictAt, Outside, TypeOK
  <2> QED BY <2>1, <2>2
<1> QED BY <1>1, <1>3, Unseen, QueueUnseen

-----------------------------------------------------------------------------
(* A step that moves one session to stage st.                              *)
LEMMA StageMoves ==
  ASSUME IInv, IInv', NEW s \in Session, NEW st,
         StageAt(s)' = st,
         \A t \in Session \ {s} : StageAt(t)' = StageAt(t)
  PROVE  stageBar' = [stageBar EXCEPT ![s] = st]
  BY BarsAt, BarsAtNext

(* A step that changes at most the verdict of one session.                 *)
LEMMA VerdictMoves ==
  ASSUME IInv, IInv', NEW s \in Session, NEW v,
         VerdictAt(s)' = v,
         \A t \in Session \ {s} : VerdictAt(t)' = VerdictAt(t)
  PROVE  verdictBar' = [verdictBar EXCEPT ![s] = v]
  BY BarsAt, BarsAtNext

(* A step that changes no verdict.                                         *)
LEMMA VerdictsKept ==
  ASSUME IInv, IInv', \A t \in Session : VerdictAt(t)' = VerdictAt(t)
  PROVE  verdictBar' = verdictBar
  BY BarsAt, BarsAtNext

(* The mapped queue is a queue of sessions.                                *)
LEMMA QueueBarType ==
  ASSUME IInv
  PROVE  /\ queueBar \in Seq(Session)
         /\ Len(queueBar) = IF ev = Null THEN Len(line) ELSE Len(line) + 1
<1>1. Len(line) \in Nat /\ DOMAIN line = 1..Len(line)
  BY LenProperties DEF TypeOK
<1>2. \A i \in 1..Len(line) : fi_envelope[line[i]] \in Session
  BY <1>1 DEF QueueContents, Ownership
<1>3. CASE ev = Null
  BY <1>1, <1>2, <1>3, QueueIs
<1>4. CASE ev # Null
  <2>1. \A i \in 1..(Len(line) + 1) :
          fi_envelope[IF i = 1 THEN ev ELSE line[i - 1]] \in Session
    BY <1>1, <1>2, <1>4 DEF Unlinked, Ownership
  <2>2. queueBar = [i \in 1..(Len(line) + 1) |->
          fi_envelope[IF i = 1 THEN ev ELSE line[i - 1]]]
    BY <1>4, QueueIs
  <2>3. queueBar \in [1..(Len(line) + 1) -> Session]
    BY <2>1, <2>2
  <2> HIDE DEF queueBar
  <2>4. Len(line) + 1 \in Nat
    BY <1>1
  <2> QED BY <1>4, <2>3, <2>4
<1> QED BY <1>3, <1>4

(* Enqueue is where the callback is submitted.                             *)
LEMMA EnqueueSubmits ==
  ASSUME IInv, IInv', NEW s \in Session, Enqueue(s)
  PROVE  Service!Submit(s)
<1> DEFINE e == event[s]
           n == Len(line)
<1>1. /\ pc[s] = "enqueue" /\ pc' = [pc EXCEPT ![s] = "unlock_queue"]
      /\ line' = Append(line, e)
      /\ UNCHANGED <<event, retval, fi_envelope, is_done, ev, owes, given>>
  BY DEF Enqueue, Link
<1>2. s \notin owes /\ ~ is_done[e] /\ e \in Event /\ fi_envelope[e] = s
  BY <1>1 DEF HandOff, Progress, TypeOK, Ownership
<1>3. /\ StageAt(s) = "idle" /\ StageAt(s)' = "queued"
      /\ VerdictAt(s)' = VerdictAt(s)
  BY <1>1, <1>2 DEF StageAt, VerdictAt, Outside, TypeOK
<1>4. \A t \in Session \ {s} : StageAt(t)' = StageAt(t)
                              /\ VerdictAt(t)' = VerdictAt(t)
  BY <1>1 DEF StageAt, VerdictAt, Outside, TypeOK
<1>5. /\ n \in Nat /\ Len(line') = n + 1 /\ line'[n + 1] = e
      /\ \A i \in 1..n : line'[i] = line[i]
  BY <1>1, <1>2, AppendFacts DEF TypeOK
<1>6. queueBar' = Append(queueBar, s)
  <2>1. /\ queueBar \in Seq(Session)
        /\ Len(queueBar) = IF ev = Null THEN n ELSE n + 1
    BY QueueBarType
  <2>2. (/\ queueBar \in Seq(Session)
         /\ Len(queueBar) = IF ev = Null THEN Len(line) ELSE Len(line) + 1)'
    BY QueueBarType, PTL
  <2> DEFINE m == Len(queueBar)
  <2>3. /\ Append(queueBar, s) \in Seq(Session) /\ m \in Nat
        /\ Len(Append(queueBar, s)) = m + 1
        /\ \A i \in 1..m : Append(queueBar, s)[i] = queueBar[i]
        /\ Append(queueBar, s)[m + 1] = s
    BY <2>1, AppendFacts
  <2>4. Len(queueBar') = m + 1
    BY <1>1, <1>5, <2>1, <2>2
  <2>5. \A i \in 1..m : queueBar'[i] = queueBar[i]
    <3>1. CASE ev = Null
      <4>1. queueBar = [i \in 1..n |-> fi_envelope[line[i]]]
        BY <3>1, QueueIs
      <4>2. (ev = Null => queueBar = [i \in 1..Len(line) |-> fi_envelope[line[i]]])'
        BY QueueIs, PTL
      <4>3. queueBar' = [i \in 1..(n + 1) |-> fi_envelope[line'[i]]]
        BY <1>1, <1>5, <3>1, <4>2
      <4> QED BY <1>5, <2>1, <3>1, <4>1, <4>3
    <3>2. CASE ev # Null
      <4>1. queueBar = [i \in 1..(n + 1) |->
              fi_envelope[IF i = 1 THEN ev ELSE line[i - 1]]]
        BY <3>2, QueueIs
      <4>2. (ev # Null => queueBar = [i \in 1..(Len(line) + 1) |->
               fi_envelope[IF i = 1 THEN ev ELSE line[i - 1]]])'
        BY QueueIs, PTL
      <4>3. queueBar' = [i \in 1..(n + 2) |->
              fi_envelope[IF i = 1 THEN ev ELSE line'[i - 1]]]
        BY <1>1, <1>5, <3>2, <4>2
      <4>4. ASSUME NEW i \in 1..m
            PROVE  (IF i = 1 THEN ev ELSE line'[i - 1])
                     = (IF i = 1 THEN ev ELSE line[i - 1])
        BY <1>5, <2>1, <3>2
      <4>5. m = n + 1
        BY <2>1, <3>2
      <4> HIDE DEF queueBar
      <4> QED BY <1>5, <4>1, <4>3, <4>4, <4>5
    <3> QED BY <3>1, <3>2
  <2>6. queueBar'[m + 1] = s
    <3>1. CASE ev = Null
      <4>1. (ev = Null => queueBar = [i \in 1..Len(line) |-> fi_envelope[line[i]]])'
        BY QueueIs, PTL
      <4> QED BY <1>1, <1>2, <1>5, <2>1, <3>1, <4>1
    <3>2. CASE ev # Null
      <4>1. (ev # Null => queueBar = [i \in 1..(Len(line) + 1) |->
               fi_envelope[IF i = 1 THEN ev ELSE line[i - 1]]])'
        BY QueueIs, PTL
      <4>2. m = n + 1 /\ m + 1 # 1 /\ m + 1 \in 1..(n + 2) /\ m + 1 - 1 = n + 1
        BY <1>5, <2>1, <3>2
      <4>3. queueBar' = [i \in 1..(n + 2) |->
              fi_envelope[IF i = 1 THEN ev ELSE line'[i - 1]]]
        BY <1>1, <1>5, <3>2, <4>1
      <4> HIDE DEF queueBar, m
      <4> QED BY <1>2, <1>5, <4>2, <4>3
    <3> QED BY <3>1, <3>2
  <2> HIDE DEF queueBar, m
  <2> QED BY <2>2, <2>3, <2>4, <2>5, <2>6, SeqEqual
<1>7. stageBar' = [stageBar EXCEPT ![s] = "queued"] /\ stageBar[s] = "idle"
  BY <1>3, <1>4, StageMoves, BarsAt
<1>8. verdictBar' = verdictBar
  BY <1>3, <1>4, VerdictsKept
<1> QED BY <1>6, <1>7, <1>8 DEF Service!Submit, stageBar, queueBar, verdictBar

(* A lock that fails refuses the callback, which is not in the queue.      *)
LEMMA FailureRefuses ==
  ASSUME IInv, IInv', NEW s \in Session, LockQueueFails(s) \/ EnqueueFails(s)
  PROVE  Service!Refuse(s)
<1>1. /\ pc[s] \in {"lock_queue", "enqueue"}
      /\ pc' = [pc EXCEPT ![s] = "delete"]
      /\ retval' = [retval EXCEPT ![s] = TempFail]
      /\ UNCHANGED <<event, fi_envelope, is_done, line, ev, owes, given>>
  BY Zenon DEF LockQueueFails, EnqueueFails, ReturnTempFail
<1>2. s \notin owes
  BY <1>1 DEF HandOff
<1>3. /\ StageAt(s) = "idle" /\ StageAt(s)' = "answered"
      /\ VerdictAt(s)' = TempFail
  BY <1>1, <1>2 DEF StageAt, VerdictAt, Outside, TypeOK
<1>4. \A t \in Session \ {s} : StageAt(t)' = StageAt(t)
                              /\ VerdictAt(t)' = VerdictAt(t)
  BY <1>1 DEF StageAt, VerdictAt, Outside, TypeOK
<1>5. /\ stageBar[s] = "idle"
      /\ stageBar' = [stageBar EXCEPT ![s] = "answered"]
  BY <1>3, <1>4, StageMoves, BarsAt
<1>6. verdictBar' = [verdictBar EXCEPT ![s] = TempFail]
  BY <1>3, <1>4, VerdictMoves
<1>7. queueBar' = queueBar
  BY <1>1, QueueUnseen
<1> QED BY <1>5, <1>6, <1>7 DEF Service!Refuse, stageBar, queueBar, verdictBar

(* An unlinked event that trigger_event lets go of, in whatever way, leaves *)
(* the head of the mapped queue.                                           *)
LEMMA UnfiredLeaves ==
  ASSUME IInv, IInv', ev # Null, ev' = Null, UNCHANGED <<line, fi_envelope>>
  PROVE  /\ queueBar # <<>>
         /\ Head(queueBar) = fi_envelope[ev]
         /\ queueBar' = Tail(queueBar)
<1> DEFINE n == Len(line)
<1>1. n \in Nat
  BY LenProperties DEF TypeOK
<1>2. queueBar = [i \in 1..(n + 1) |->
        fi_envelope[IF i = 1 THEN ev ELSE line[i - 1]]]
  BY QueueIs
<1>3. /\ queueBar \in Seq(Session) /\ Len(queueBar) = n + 1
  BY QueueBarType
<1>4. (/\ queueBar \in Seq(Session)
       /\ Len(queueBar) = IF ev = Null THEN Len(line) ELSE Len(line) + 1)'
  BY QueueBarType, PTL
<1>5. (ev = Null => queueBar = [i \in 1..Len(line) |-> fi_envelope[line[i]]])'
  BY QueueIs, PTL
<1>6. queueBar' = [i \in 1..n |-> fi_envelope[line[i]]]
  BY <1>5
<1>7. queueBar' \in Seq(Session) /\ Len(queueBar') = n
  BY <1>4
<1> HIDE DEF queueBar
<1>8. queueBar # <<>>
  BY <1>1, <1>3, EmptySeq
<1>9. /\ Tail(queueBar) \in Seq(Session) /\ Len(Tail(queueBar)) = n
      /\ \A i \in 1..n : Tail(queueBar)[i] = queueBar[i + 1]
      /\ Head(queueBar) = queueBar[1]
  BY <1>1, <1>3, <1>8, TailFacts
<1>10. Head(queueBar) = fi_envelope[ev]
  BY <1>1, <1>2, <1>9
<1>11. \A i \in 1..n : queueBar'[i] = Tail(queueBar)[i]
  <2> TAKE i \in 1..n
  <2>1. i + 1 \in 1..(n + 1) /\ i + 1 # 1 /\ i + 1 - 1 = i
    BY <1>1
  <2>2. queueBar[i + 1] = fi_envelope[line[i]]
    BY <1>2, <2>1
  <2> QED BY <1>6, <1>9, <2>2
<1>12. queueBar' = Tail(queueBar)
  BY <1>1, <1>7, <1>9, <1>11, SeqEqual
<1> QED BY <1>8, <1>10, <1>12

(* Fire delivers the callback at the head of the mapped queue.             *)
LEMMA FireDelivers ==
  ASSUME IInv, IInv', Fire
  PROVE  \E s \in Session : Service!Deliver(s)
<1>0. PICK s \in Session : s = fi_envelope[ev]
  BY DEF Fire, TypeOK, Unlinked, Ownership
<1>1. /\ ev # Null /\ npc = "fire" /\ ev' = Null
      /\ owes' = owes \cup {s}
      /\ UNCHANGED <<pc, event, retval, fi_envelope, is_done, line, given>>
  BY <1>0 DEF Fire, TypeOK
<1>2. /\ s \in Session /\ event[s] = ev /\ ~ is_done[ev]
      /\ pc[s] \in Asleep /\ s \notin owes
  BY <1>0, <1>1 DEF Unlinked, Ownership
<1>3. /\ StageAt(s)' = "delivered" /\ VerdictAt(s)' = VerdictAt(s)
  BY <1>1, <1>2 DEF StageAt, VerdictAt, Outside, TypeOK
<1>4. \A t \in Session \ {s} : StageAt(t)' = StageAt(t)
                              /\ VerdictAt(t)' = VerdictAt(t)
  BY <1>1 DEF StageAt, VerdictAt, Outside, TypeOK
<1>5. queueBar # <<>> /\ s = Head(queueBar) /\ queueBar' = Tail(queueBar)
  BY <1>0, <1>1, UnfiredLeaves
<1>6. stageBar' = [stageBar EXCEPT ![s] = "delivered"]
  BY <1>2, <1>3, <1>4, StageMoves
<1>7. verdictBar' = verdictBar
  BY <1>2, <1>3, <1>4, VerdictsKept
<1>8. Service!Deliver(s)
  BY <1>5, <1>6, <1>7 DEF Service!Deliver, stageBar, queueBar, verdictBar
<1> QED BY <1>2, <1>8

(* What Done does to the event s sleeps on when its signal succeeds.       *)
LEMMA DoneSignals ==
  ASSUME IInv, NEW s \in Session, NEW v \in Verdict, Done(s, v),
         is_done'[event[s]]
  PROVE  /\ pc' = Signalled(current_event[s])
         /\ is_done' = [is_done EXCEPT ![current_event[s]] = TRUE]
<1>1. /\ s \in owes
      /\ \/ /\ pc' = Signalled(current_event[s])
            /\ is_done' = [is_done EXCEPT ![current_event[s]] = TRUE]
         \/ is_done' = [is_done EXCEPT ![current_event[s]] = FALSE]
  BY Zenon DEF Done
<1>2. current_event[s] = event[s] /\ event[s] \in Event
  BY <1>1 DEF HandOff, TypeOK
<1>3. is_done' # [is_done EXCEPT ![current_event[s]] = FALSE]
  BY <1>2 DEF TypeOK
<1> QED BY <1>1, <1>3

(* Done answers the callback it was called for, if the signal succeeds.    *)
LEMMA DoneAnswers ==
  ASSUME IInv, IInv', NEW s \in Session, NEW v \in Verdict, Done(s, v),
         is_done'[event[s]]
  PROVE  Service!Answer(s, v)
<1> DEFINE e == event[s]
<1>1. /\ s \in owes /\ owes' = owes \ {s}
      /\ given' = [given EXCEPT ![s] = v]
      /\ pc' = Signalled(current_event[s])
      /\ is_done' = [is_done EXCEPT ![current_event[s]] = TRUE]
      /\ UNCHANGED <<event, retval, fi_envelope, line, ev>>
  <2>1. /\ s \in owes /\ owes' = owes \ {s}
        /\ given' = [given EXCEPT ![s] = v]
        /\ UNCHANGED <<event, retval, fi_envelope, line, ev>>
    BY Zenon DEF Done
  <2> QED BY <2>1, DoneSignals
<1>2. current_event[s] = e /\ pc[s] \in Asleep /\ e \in Event
  BY <1>1 DEF HandOff, TypeOK
<1>3. \A t \in Session \ {s} : event[t] # e
  BY <1>2 DEF Ownership, TypeOK
<1>4. /\ pc'[s] \in Asleep
      /\ \A t \in Session \ {s} : pc'[t] = pc[t]
  BY <1>1, <1>2, <1>3 DEF Signalled
<1>10. is_done' = [is_done EXCEPT ![e] = TRUE] /\ is_done \in [Event -> BOOLEAN]
  BY <1>1, <1>2 DEF TypeOK
<1>11. /\ is_done'[e]
       /\ \A t \in Session \ {s} :
            pc[t] # "idle" => is_done'[event[t]] = is_done[event[t]]
  <2>1. \A t \in Session : pc[t] # "idle" => event[t] \in Event
    BY DEF TypeOK
  <2> QED BY <1>2, <1>3, <1>10, <2>1
<1>5. /\ StageAt(s) = "delivered" /\ StageAt(s)' = "answered"
      /\ VerdictAt(s)' = v
  BY <1>1, <1>2, <1>4, <1>11 DEF StageAt, VerdictAt, Outside, TypeOK
<1>6. ASSUME NEW t \in Session \ {s}
      PROVE  StageAt(t)' = StageAt(t) /\ VerdictAt(t)' = VerdictAt(t)
  <2>1. /\ pc'[t] = pc[t] /\ (t \in owes' <=> t \in owes)
        /\ given'[t] = given[t] /\ retval'[t] = retval[t]
        /\ event'[t] = event[t]
    BY <1>1, <1>4 DEF TypeOK
  <2>2. StageAt(t)' = StageAt(t)
    BY <1>11, <2>1 DEF StageAt, Outside
  <2> QED BY <2>1, <2>2 DEF VerdictAt
<1>7. /\ stageBar[s] = "delivered"
      /\ stageBar' = [stageBar EXCEPT ![s] = "answered"]
  BY <1>5, <1>6, StageMoves, BarsAt
<1>8. verdictBar' = [verdictBar EXCEPT ![s] = v]
  BY <1>5, <1>6, VerdictMoves
<1>9. queueBar' = queueBar
  BY <1>1, QueueUnseen
<1> QED BY <1>7, <1>8, <1>9 DEF Service!Answer, stageBar, queueBar, verdictBar

(* Deleting the event returns the callback to libmilter.                   *)
LEMMA DeleteReturns ==
  ASSUME IInv, IInv', NEW s \in Session, Delete(s)
  PROVE  Service!Return(s)
<1>1. /\ pc[s] = "delete" /\ pc' = [pc EXCEPT ![s] = "idle"]
      /\ event' = [event EXCEPT ![s] = Null]
      /\ given' = [given EXCEPT ![s] = TempFail]
      /\ UNCHANGED <<retval, fi_envelope, is_done, line, ev, owes>>
  BY DEF Delete, FrameLeft
<1>2. s \notin owes
  BY <1>1 DEF HandOff
<1>3. /\ StageAt(s) = "answered" /\ StageAt(s)' = "idle"
      /\ VerdictAt(s)' = VerdictAt(s)
  BY <1>1, <1>2 DEF StageAt, VerdictAt, Outside, TypeOK
<1>4. \A t \in Session \ {s} : StageAt(t)' = StageAt(t)
                              /\ VerdictAt(t)' = VerdictAt(t)
  BY <1>1 DEF StageAt, VerdictAt, Outside, TypeOK
<1>5. /\ stageBar[s] = "answered"
      /\ stageBar' = [stageBar EXCEPT ![s] = "idle"]
  BY <1>3, <1>4, StageMoves, BarsAt
<1>6. verdictBar' = verdictBar
  BY <1>3, <1>4, VerdictsKept
<1>7. queueBar' = queueBar
  BY <1>1, QueueUnseen
<1> QED BY <1>5, <1>6, <1>7 DEF Service!Return, stageBar, queueBar, verdictBar

-----------------------------------------------------------------------------
(* Only two error paths lose an event, and none of them its verdict.       *)

(* A step that leaves the events and their places alone.                   *)
LEMMA PlacesKept ==
  ASSUME IInv, Given,
         UNCHANGED <<event, is_done, fi_retval, given, line, ev, owes>>,
         \A t \in Session : pc'[t] \in InLoop <=> pc[t] \in InLoop
  PROVE  Given' /\ LossesKept
<1>1. Given'
  BY DEF Given
<1>2. LossesKept
  BY DEF LossesKept, LostAt, Queued
<1> QED BY <1>1, <1>2

(* A new event's address is no other thread's.                             *)
LEMMA ConstructPlaces ==
  ASSUME IInv, Given, NEW s \in Session, Construct(s)
  PROVE  Given' /\ LossesKept
<1>1. PICK e \in Event \ heap :
        /\ event' = [event EXCEPT ![s] = e]
        /\ is_done' = [is_done EXCEPT ![e] = FALSE]
        /\ fi_retval' = [fi_retval EXCEPT ![e] = TempFail]
  BY DEF Construct
<1>2. /\ pc[s] = "idle" /\ pc' = [pc EXCEPT ![s] = "lock_queue"]
      /\ UNCHANGED <<line, ev, owes, given>>
  BY DEF Construct
<1>3. \A t \in Session : (pc'[t] \in InLoop <=> pc[t] \in InLoop)
                         /\ (pc[t] \in InLoop => t # s)
  BY <1>2 DEF TypeOK
<1>4. ASSUME NEW t \in Session, pc[t] \in InLoop
      PROVE  /\ event'[t] = event[t]
             /\ is_done'[event[t]] = is_done[event[t]]
             /\ fi_retval'[event[t]] = fi_retval[event[t]]
  <2>1. t # s /\ pc[t] # "idle"
    BY <1>3, <1>4
  <2>2. event[t] \in Event /\ event[t] # e
    BY <1>1, <2>1 DEF TypeOK, Ownership
  <2>3. event'[t] = event[t]
    BY <1>1, <2>1 DEF TypeOK
  <2>4. is_done'[event[t]] = is_done[event[t]]
    BY <1>1, <2>2 DEF TypeOK
  <2>5. fi_retval'[event[t]] = fi_retval[event[t]]
    BY <1>1, <2>2 DEF TypeOK
  <2> QED BY <2>3, <2>4, <2>5
<1>5. Given'
  BY <1>2, <1>3, <1>4 DEF Given
<1>6. LossesKept
  BY <1>2, <1>3, <1>4 DEF LossesKept, LostAt, Queued
<1> QED BY <1>5, <1>6

(* The event enters the queue.                                             *)
LEMMA EnqueuePlaces ==
  ASSUME IInv, Given, NEW s \in Session, Enqueue(s)
  PROVE  Given' /\ LossesKept
<1> DEFINE e == event[s]
<1>1. /\ pc[s] = "enqueue" /\ pc' = [pc EXCEPT ![s] = "unlock_queue"]
      /\ line' = Append(line, e)
      /\ UNCHANGED <<event, is_done, fi_retval, given, ev, owes>>
  BY DEF Enqueue, Link
<1>2. ~ is_done[e] /\ e \in Event
  BY <1>1 DEF Progress, TypeOK
<1>3. Given'
  BY <1>1, <1>2 DEF Given, TypeOK
<1>4. Queued' = Queued \cup {e}
  <2> DEFINE n == Len(line)
  <2>1. /\ n \in Nat /\ DOMAIN line = 1..n /\ DOMAIN line' = 1..(n + 1)
        /\ \A i \in 1..n : line'[i] = line[i]
        /\ line'[n + 1] = e
    BY <1>1, <1>2, AppendFacts DEF TypeOK
  <2>2. /\ n + 1 \in DOMAIN line' /\ \A i \in DOMAIN line : i \in DOMAIN line'
        /\ \A i \in DOMAIN line' : i = n + 1 \/ i \in DOMAIN line
    BY <2>1
  <2> QED BY <2>1, <2>2 DEF Queued
<1>5. ASSUME NEW t \in Session
      PROVE  LostAt(t)' <=> LostAt(t)
  <2>1. CASE t = s
    BY <1>1, <1>4, <2>1 DEF LostAt
  <2>2. CASE t # s
    <3>1. pc'[t] = pc[t]
      BY <1>1, <2>2 DEF TypeOK
    <3>2. event[t] # e
      BY <1>1, <2>2 DEF TypeOK, Ownership
    <3> QED BY <1>1, <1>4, <3>1, <3>2 DEF LostAt
  <2> QED BY <2>1, <2>2
<1> QED BY <1>3, <1>5 DEF LossesKept

(* The event of a thread that has left the wait loop is freed.             *)
LEMMA DeletePlaces ==
  ASSUME IInv, Given, NEW s \in Session, Delete(s)
  PROVE  Given' /\ LossesKept
<1>1. /\ pc[s] = "delete" /\ pc' = [pc EXCEPT ![s] = "idle"]
      /\ event' = [event EXCEPT ![s] = Null]
      /\ given' = [given EXCEPT ![s] = TempFail]
      /\ UNCHANGED <<is_done, fi_retval, line, ev, owes>>
  BY DEF Delete, FrameLeft
<1>2. \A t \in Session : (pc'[t] \in InLoop <=> pc[t] \in InLoop)
                         /\ (pc[t] \in InLoop => t # s)
  BY <1>1 DEF TypeOK
<1>3. \A t \in Session : pc[t] \in InLoop =>
        event'[t] = event[t] /\ given'[t] = given[t]
  BY <1>1, <1>2 DEF TypeOK
<1>4. Given'
  BY <1>1, <1>2, <1>3 DEF Given
<1>5. LossesKept
  BY <1>1, <1>2, <1>3 DEF LossesKept, LostAt, Queued
<1> QED BY <1>4, <1>5

(* The event is answered, and stops waiting.                               *)
LEMMA TakeResultPlaces ==
  ASSUME IInv, Given, NEW s \in Session, TakeResult(s)
  PROVE  Given' /\ LossesKept
<1>1. /\ pc[s] = "check" /\ pc' = [pc EXCEPT ![s] = "delete"]
      /\ is_done[event[s]]
      /\ UNCHANGED <<event, is_done, fi_retval, line, ev, owes, given>>
  BY DEF TakeResult, IsDone
<1>2. /\ \A t \in Session \ {s} : pc'[t] = pc[t]
      /\ pc'[s] = "delete"
  BY <1>1 DEF TypeOK
<1>3. Given'
  BY <1>1, <1>2 DEF Given
<1>4. LossesKept
  BY <1>1, <1>2 DEF LossesKept, LostAt, Queued
<1> QED BY <1>3, <1>4

(* The oldest event passes from the queue to trigger_event.                *)
LEMMA DequeuePlaces ==
  ASSUME IInv, Given, Dequeue
  PROVE  Given' /\ LossesKept
<1>1. /\ ev' = first /\ first # Null /\ line' = Tail(line) /\ ev = Null
      /\ UNCHANGED <<pc, event, is_done, fi_retval, given, owes>>
  BY DEF Dequeue, TypeOK
<1>2. Given'
  BY <1>1 DEF Given
<1>3. Queued = Queued' \cup {ev'}
  <2> DEFINE n == Len(line)
  <2>1. line # <<>> /\ line \in Seq(Event) /\ first = line[1]
    BY <1>1 DEF QueueRepresentsLine, TypeOK
  <2>2. /\ n \in Nat \ {0} /\ DOMAIN line = 1..n /\ DOMAIN line' = 1..(n - 1)
        /\ \A i \in 1..(n - 1) : line'[i] = line[i + 1]
    BY <1>1, <2>1, TailFacts
  <2>3. ASSUME NEW i \in 1..n
        PROVE  line[i] \in Queued' \cup {ev'}
    <3>1. CASE i = 1
      BY <1>1, <2>1, <3>1
    <3>2. CASE i # 1
      <4>1. i - 1 \in DOMAIN line' /\ line'[i - 1] = line[i]
        BY <2>2, <3>2
      <4> QED BY <4>1 DEF Queued
    <3> QED BY <3>1, <3>2
  <2>4. ev' \in Queued
    BY <1>1, <2>1, <2>2 DEF Queued
  <2>5. ASSUME NEW i \in DOMAIN line'
        PROVE  line'[i] \in Queued
    <3>1. i + 1 \in DOMAIN line /\ line'[i] = line[i + 1]
      BY <2>2
    <3> QED BY <3>1 DEF Queued
  <2> QED BY <2>2, <2>3, <2>4, <2>5 DEF Queued
<1>4. LossesKept
  <2>1. \A t \in Session : pc[t] \in InLoop => event[t] # Null
    BY DEF TypeOK
  <2> QED BY <1>1, <1>3, <2>1 DEF LossesKept, LostAt
<1> QED BY <1>2, <1>4

(* The event passes from trigger_event to the script.                      *)
LEMMA FirePlaces ==
  ASSUME IInv, Given, Fire
  PROVE  Given' /\ LossesKept
<1>1. /\ ev # Null /\ ev' = Null
      /\ owes' = owes \cup {fi_envelope[ev]}
      /\ UNCHANGED <<pc, event, is_done, fi_retval, given, line>>
  BY DEF Fire, TypeOK
<1>2. Given'
  BY <1>1 DEF Given
<1>3. \A t \in Session : event[t] = ev <=> t = fi_envelope[ev]
  BY <1>1 DEF Ownership, Unlinked
<1>4. \A t \in Session : pc[t] \in InLoop => event[t] # Null
  BY DEF TypeOK
<1>5. LossesKept
  BY <1>1, <1>3, <1>4 DEF LossesKept, LostAt, Queued
<1> QED BY <1>2, <1>5

(* What Done records belongs to the callback it was called for.            *)
LEMMA DoneGiven ==
  ASSUME IInv, Given, NEW s \in Session, NEW v \in Verdict, Done(s, v)
  PROVE  /\ Given'
         /\ \A t \in Session \ {s} : LostAt(t)' <=> LostAt(t)
<1> DEFINE e == event[s]
<1>1. /\ s \in owes /\ owes' = owes \ {s}
      /\ given' = [given EXCEPT ![s] = v]
      /\ fi_retval' = Recorded(current_event[s], v)
      /\ pc' = Signalled(current_event[s]) \/ pc' = pc
      /\ \E b \in BOOLEAN :
           is_done' = [is_done EXCEPT ![current_event[s]] = b]
      /\ UNCHANGED <<event, line, ev>>
  BY Zenon DEF Done
<1>2. current_event[s] = e /\ e \in Event
  BY <1>1 DEF HandOff, TypeOK
<1>3. fi_retval'[e] = v /\ given'[s] = v
  BY <1>1, <1>2 DEF Recorded, TypeOK
<1>4. \A t \in Session : pc'[t] \in InLoop <=> pc[t] \in InLoop
  BY <1>1 DEF Signalled
<1>5. ASSUME NEW t \in Session \ {s}, pc[t] \in InLoop
      PROVE  /\ is_done'[event[t]] = is_done[event[t]]
             /\ fi_retval'[event[t]] = fi_retval[event[t]]
             /\ given'[t] = given[t]
             /\ t \in owes' <=> t \in owes
  <2>1. event[t] \in Event /\ event[t] # e
    BY <1>2, <1>5 DEF TypeOK, Ownership
  <2> QED BY <1>1, <1>2, <2>1 DEF Recorded, TypeOK
<1>6. Given'
  <2> SUFFICES ASSUME NEW t \in Session,
                      pc'[t] \in InLoop, is_done'[event'[t]]
               PROVE  given'[t] = fi_retval'[event'[t]]
    BY DEF Given
  <2>1. event'[t] = event[t] /\ pc[t] \in InLoop
    BY <1>1, <1>4
  <2>2. CASE t = s
    BY <1>3, <2>1, <2>2
  <2>3. CASE t # s
    BY <1>5, <2>1, <2>3 DEF Given
  <2> QED BY <2>2, <2>3
<1>7. ASSUME NEW t \in Session \ {s}
      PROVE  LostAt(t)' <=> LostAt(t)
  <2>1. event' = event /\ Queued' = Queued /\ ev' = ev
    BY <1>1 DEF Queued
  <2>2. CASE pc[t] \in InLoop
    BY <1>4, <1>5, <2>1, <2>2 DEF LostAt
  <2>3. CASE pc[t] \notin InLoop
    BY <1>4, <2>3 DEF LostAt
  <2> QED BY <2>2, <2>3
<1> QED BY <1>6, <1>7

(* The event passes from the script to its thread, with the verdict.       *)
LEMMA DonePlaces ==
  ASSUME IInv, Given, NEW s \in Session, NEW v \in Verdict, Done(s, v),
         is_done'[event[s]]
  PROVE  Given' /\ LossesKept
<1>1. s \in owes /\ event' = event
  BY Zenon DEF Done
<1>2. ~ LostAt(s) /\ ~ LostAt(s)'
  BY <1>1 DEF LostAt
<1> QED BY <1>2, DoneGiven DEF LossesKept

(* A thread's step in which it neither queues nor frees its event.         *)
LEMMA ThreadPlaces ==
  ASSUME IInv, Given, NEW s \in Session, NEW from, NEW to,
         GoTo(s, from, to), to \in InLoop <=> from \in InLoop,
         UNCHANGED <<event, is_done, fi_retval, given, line, ev, owes>>
  PROVE  Given' /\ LossesKept
<1>1. \A t \in Session : pc'[t] \in InLoop <=> pc[t] \in InLoop
  BY DEF TypeOK
<1> QED BY <1>1, PlacesKept

(* No step of a libmilter thread loses a callback.                         *)
LEMMA ThreadStepPlaces ==
  ASSUME IInv, Given, NEW s \in Session, ThreadStep(s)
  PROVE  Given' /\ LossesKept
<1>1. CASE LockQueueFails(s) \/ EnqueueFails(s)
  <2>1. /\ pc[s] \notin InLoop
        /\ pc' = [pc EXCEPT ![s] = "delete"]
        /\ UNCHANGED <<event, is_done, fi_retval, given, line, ev, owes>>
    BY <1>1 DEF LockQueueFails, EnqueueFails
  <2>2. \A t \in Session : pc'[t] \in InLoop <=> pc[t] \in InLoop
    BY <2>1 DEF TypeOK
  <2> QED BY <2>1, <2>2, PlacesKept
<1>2. CASE UnlockQueue(s) \/ SetMilterContext(s)
  BY <1>2, ThreadPlaces DEF UnlockQueue, SetMilterContext
<1>3. CASE LockQueue(s)
  <2>1. /\ GoTo(s, "lock_queue", "enqueue")
        /\ UNCHANGED <<event, is_done, fi_retval, given, line, ev, owes>>
    BY <1>3 DEF LockQueue
  <2>2. "enqueue" \notin InLoop /\ "lock_queue" \notin InLoop
    OBVIOUS
  <2> QED BY <2>1, <2>2, ThreadPlaces
<1>4. CASE AsyncSend(s) \/ Wait(s) \/ SpuriousWakeup(s)
  BY <1>4, ThreadPlaces DEF AsyncSend, Wait, SpuriousWakeup
<1>5. CASE Relock(s) \/ Retry(s)
  BY <1>5, ThreadPlaces DEF Relock, Retry
<1> QED BY <1>1, <1>2, <1>3, <1>4, <1>5, ConstructPlaces, EnqueuePlaces,
           TakeResultPlaces, DeletePlaces DEF ThreadStep

(* No step of the node thread loses a callback, but for two error paths.   *)
LEMMA NodeStepPlaces ==
  ASSUME IInv, Given, NodeStep, ~ LockEventFails,
         \A s \in Session, v \in Verdict : Done(s, v) => is_done'[event[s]]
  PROVE  Given' /\ LossesKept
<1>1. CASE TriggerEvent \/ TriggerLockQueue \/ TriggerLockQueueFails
  BY <1>1, PlacesKept
  DEF TriggerEvent, TriggerLockQueue, TriggerLockQueueFails
<1>2. CASE DequeueNothing \/ LockEvent \/ ScriptReturns
  BY <1>2, PlacesKept DEF DequeueNothing, LockEvent, ScriptReturns
<1>3. CASE DoneUnlock \/ DoneReturn
  BY <1>3, PlacesKept DEF DoneUnlock, DoneReturn
<1> QED BY <1>1, <1>2, <1>3, DequeuePlaces, FirePlaces, DonePlaces DEF NodeStep

(* Without those failures Done completes the event it was called for.      *)
LEMMA DoneSucceeds ==
  ASSUME IInv, ~ MayFail("signal"),
         NEW s \in Session, NEW v \in Verdict, Done(s, v)
  PROVE  is_done'[event[s]]
<1>1. s \in owes /\ is_done' = [is_done EXCEPT ![current_event[s]] = TRUE]
  BY Zenon DEF Done
<1>2. current_event[s] = event[s] /\ event[s] \in Event
  BY <1>1 DEF HandOff, TypeOK
<1> QED BY <1>1, <1>2 DEF TypeOK

(* Every event stays accounted for, and its verdict the script's.          *)
LEMMA NextPlaces ==
  ASSUME IInv, Given, [Next]_vars,
         ~ MayFail("signal"), ~ MayFail("trigger event")
  PROVE  Given' /\ LossesKept
<1>1. CASE NodeStep
  <2>1. ~ LockEventFails
    BY DEF LockEventFails
  <2> QED BY <1>1, <2>1, NodeStepPlaces, DoneSucceeds
<1>2. CASE UNCHANGED vars
  BY <1>2, PlacesKept DEF vars
<1> QED BY <1>1, <1>2, ThreadStepPlaces DEF Next

(* In the initial state no callback is under way.                          *)
LEMMA InitPlaces == Init => Given /\ Placed
  BY DEF Init, Given, Placed, LostAt

(* If it is somewhere, an event is nowhere else.                           *)
LEMMA PlacedOnce ==
  ASSUME IInv, Placed
  PROVE  Accounted
<1>1. \A i, j \in DOMAIN line : line[i] = line[j] => i = j
  BY DEF QueueContents
<1>2. ASSUME NEW s \in Session,
             pc[s] \notin {"idle", "lock_queue", "enqueue", "delete"}
      PROVE  \E p \in {"queue", "node", "script", "answered"} : Places(s) = {p}
  <2> DEFINE e == event[s]
  <2>1. pc[s] \in InLoop /\ e \in Event /\ fi_envelope[e] = s
    BY <1>2 DEF TypeOK, Ownership
  <2>2. e \in Queued => ~ is_done[e] /\ s \notin owes /\ e # ev
    BY <2>1 DEF Queued, QueueContents
  <2>3. e = ev => ~ is_done[e] /\ s \notin owes
    BY <2>1 DEF Unlinked, TypeOK
  <2>4. s \in owes => ~ is_done[e]
    BY DEF HandOff
  <2>5. e \in Queued \/ e = ev \/ s \in owes \/ is_done[e]
    BY <2>1 DEF Placed, LostAt
  <2>6. CASE e \in Queued
    <3>1. Places(s) = {"queue"}
      BY <2>2, <2>6 DEF Places
    <3> QED BY <3>1
  <2>7. CASE e = ev
    <3>1. Places(s) = {"node"}
      BY <2>2, <2>3, <2>7 DEF Places
    <3> QED BY <3>1
  <2>8. CASE s \in owes
    <3>1. Places(s) = {"script"}
      BY <2>2, <2>3, <2>4, <2>8 DEF Places
    <3> QED BY <3>1
  <2>9. CASE is_done[e]
    <3>1. Places(s) = {"answered"}
      BY <2>2, <2>3, <2>4, <2>9 DEF Places
    <3> QED BY <3>1
  <2> QED BY <2>5, <2>6, <2>7, <2>8, <2>9
<1> QED BY <1>1, <1>2 DEF Accounted

(* The strengthened invariant.                                             *)
LEMMA PlacesInvariance ==
  ASSUME ~ MayFail("signal"), ~ MayFail("trigger event")
  PROVE  Spec => [](IInv /\ Given /\ Placed)
<1>1. Init => IInv /\ Given /\ Placed
  BY InitInv, InitPlaces
<1>2. IInv /\ Given /\ Placed /\ [Next]_vars => (IInv /\ Given /\ Placed)'
  <2> SUFFICES ASSUME IInv, Given, Placed, [Next]_vars
               PROVE  IInv' /\ Given' /\ Placed'
    OBVIOUS
  <2> QED BY NextInv, NextPlaces DEF Placed, LossesKept
<1> QED BY <1>1, <1>2, PTL DEF Spec

(* The event of every thread inside generate_event is in exactly one place *)
(* at any time, if trigger_event can lock the events and done() signal     *)
(* them: no callback is dropped or served twice.                           *)
THEOREM AllAccounted ==
  ASSUME ~ MayFail("signal"), ~ MayFail("trigger event")
  PROVE  Spec => []Accounted
<1>1. IInv /\ Given /\ Placed => Accounted
  BY PlacedOnce
<1> QED BY <1>1, PlacesInvariance, PTL

-----------------------------------------------------------------------------
(* The refinement.                                                         *)

(* The mapping takes the initial state to the initial state.               *)
LEMMA InitService == Init => Service!ServiceInit
<1> SUFFICES ASSUME Init PROVE Service!ServiceInit
  OBVIOUS
<1>1. IInv
  BY InitInv
<1>2. stageBar = [s \in Session |-> "idle"]
  BY <1>1, BarsAt DEF Init, StageAt, Outside
<1>3. verdictBar = [s \in Session |-> TempFail]
  BY <1>1, BarsAt DEF Init, VerdictAt, StageAt, Outside
<1>4. queueBar = <<>>
  <2>1. queueBar \in Seq(Session) /\ Len(queueBar) = 0
    BY <1>1, QueueBarType DEF Init
  <2> HIDE DEF queueBar
  <2> QED BY <2>1, EmptySeq
<1> QED BY <1>2, <1>3, <1>4 DEF Service!ServiceInit, stageBar, verdictBar, queueBar

(* A step of a libmilter thread is one of the service's, or not seen.      *)
LEMMA ThreadServes ==
  ASSUME IInv, IInv', Given, NEW s \in Session, ThreadStep(s)
  PROVE  Service!ServiceNext \/ UNCHANGED barVars
<1>1. CASE LockQueue(s)
  BY <1>1, ThreadQuiet DEF LockQueue, Outside
<1>2. CASE LockQueueFails(s) \/ EnqueueFails(s)
  BY <1>2, FailureRefuses DEF Service!ServiceNext
<1>3. CASE UnlockQueue(s) \/ SetMilterContext(s) \/ AsyncSend(s)
  BY <1>3, ThreadQuiet DEF UnlockQueue, SetMilterContext, AsyncSend
<1>4. CASE Wait(s) \/ SpuriousWakeup(s) \/ Relock(s) \/ Retry(s)
  BY <1>4, ThreadQuiet DEF Wait, SpuriousWakeup, Relock, Retry
<1>5. CASE Enqueue(s)
  BY <1>5, EnqueueSubmits DEF Service!ServiceNext
<1>6. CASE Delete(s)
  BY <1>6, DeleteReturns DEF Service!ServiceNext
<1> QED BY <1>1, <1>2, <1>3, <1>4, <1>5, <1>6, ConstructQuiet, TakeResultQuiet
       DEF ThreadStep

(* So is one of the node thread, but for the two error paths.              *)
LEMMA NodeServes ==
  ASSUME IInv, IInv', NodeStep, ~ LockEventFails,
         \A s \in Session, v \in Verdict : Done(s, v) => is_done'[event[s]]
  PROVE  Service!ServiceNext \/ UNCHANGED barVars
<1>1. CASE TriggerEvent \/ TriggerLockQueue \/ TriggerLockQueueFails
  BY <1>1, NodeQuiet
  DEF TriggerEvent, TriggerLockQueue, TriggerLockQueueFails
<1>2. CASE DequeueNothing \/ LockEvent \/ ScriptReturns
  BY <1>2, NodeQuiet DEF DequeueNothing, LockEvent, ScriptReturns
<1>3. CASE DoneUnlock \/ DoneReturn
  BY <1>3, NodeQuiet DEF DoneUnlock, DoneReturn
<1>4. CASE Fire
  BY <1>4, FireDelivers DEF Service!ServiceNext
<1>5. CASE \E s \in Session, v \in Verdict : Done(s, v)
  BY <1>5, DoneAnswers DEF Service!ServiceNext
<1> QED BY <1>1, <1>2, <1>3, <1>4, <1>5, DequeueQuiet DEF NodeStep

(* Every step is one of the service's, or one it does not see.             *)
LEMMA StepService ==
  ASSUME IInv, IInv', Given, [Next]_vars,
         ~ MayFail("signal"), ~ MayFail("trigger event")
  PROVE  Service!ServiceNext \/ UNCHANGED barVars
<1>1. CASE NodeStep
  <2>1. ~ LockEventFails
    BY DEF LockEventFails
  <2> QED BY <1>1, <2>1, NodeServes, DoneSucceeds
<1>2. CASE UNCHANGED vars
  BY <1>2, NodeQuiet DEF vars
<1> QED BY <1>1, <1>2, ThreadServes DEF Next

(* Callbacks reach the script in the order they were queued, at most once, *)
(* and libmilter gets the verdict that the script gave for that very       *)
(* callback, if trigger_event can lock the events and done() signal them.  *)
THEOREM BridgeImplements ==
  ASSUME ~ MayFail("signal"), ~ MayFail("trigger event")
  PROVE  Spec => ImplementsService
<1>1. Init => Service!ServiceInit
  BY InitService
<1>2. (IInv /\ Given /\ Placed) /\ (IInv /\ Given /\ Placed)' /\ [Next]_vars
        => [Service!ServiceNext]_barVars
  BY StepService
<1>3. [Service!ServiceNext]_barVars => [Service!ServiceNext]_(Service!serviceVars)
  BY DEF barVars, stageBar, queueBar, verdictBar, Service!serviceVars
<1> QED BY <1>1, <1>2, <1>3, PlacesInvariance, PTL
    DEF Spec, ImplementsService, Service!ServiceSpec

=============================================================================
