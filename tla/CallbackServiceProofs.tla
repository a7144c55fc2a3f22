------------------------ MODULE CallbackServiceProofs ------------------------
(***************************************************************************)
(* Proofs about CallbackService, for any sessions and verdicts: each of    *)
(* its actions keeps the queue in agreement with the stages.               *)
(***************************************************************************)
EXTENDS CallbackService, QueueFacts

(* Visible everywhere: pure abbreviations. *)
USE DEF Stage, serviceVars

(* A callback joins the queue: it alone becomes queued.                    *)
LEMMA SubmitQueue ==
  ASSUME ServiceTypeOK, QueuedOnce, NEW s \in Session, Submit(s)
  PROVE  /\ ServiceTypeOK' /\ QueuedOnce'
         /\ stage[s] = "idle"
         /\ stage' = [stage EXCEPT ![s] = "queued"]
<1>1. /\ stage[s] = "idle" /\ UNCHANGED verdict
      /\ stage' = [stage EXCEPT ![s] = "queued"]
      /\ queue' = Append(queue, s)
  BY DEF Submit
<1>2. ServiceTypeOK'
  BY <1>1, AppendFacts DEF ServiceTypeOK
<1> DEFINE n == Len(queue)
<1>3. /\ n \in Nat /\ DOMAIN queue = 1..n /\ DOMAIN queue' = 1..(n + 1)
      /\ \A i \in 1..n : queue'[i] = queue[i]
      /\ queue'[n + 1] = s
  BY <1>1, AppendFacts DEF ServiceTypeOK
<1>4. \A i \in 1..n : queue[i] # s
  BY <1>1, <1>3 DEF QueuedOnce
<1>5. \A i, j \in DOMAIN queue' : queue'[i] = queue'[j] => i = j
  BY <1>3, <1>4 DEF QueuedOnce
<1>6. ASSUME NEW t \in Session
      PROVE  stage'[t] = "queued" <=> \E i \in DOMAIN queue' : queue'[i] = t
  <2>1. (\E i \in DOMAIN queue' : queue'[i] = t)
          <=> t = s \/ \E i \in DOMAIN queue : queue[i] = t
    BY <1>3
  <2> QED BY <1>1, <2>1 DEF QueuedOnce, ServiceTypeOK
<1> QED BY <1>1, <1>2, <1>5, <1>6 DEF QueuedOnce

(* The oldest callback gets its turn: it alone stops being queued.         *)
LEMMA DeliverQueue ==
  ASSUME ServiceTypeOK, QueuedOnce, NEW s \in Session, Deliver(s)
  PROVE  /\ ServiceTypeOK' /\ QueuedOnce'
         /\ stage[s] = "queued"
         /\ stage' = [stage EXCEPT ![s] = "delivered"]
<1>1. /\ queue # <<>> /\ s = Head(queue) /\ UNCHANGED verdict
      /\ stage' = [stage EXCEPT ![s] = "delivered"]
      /\ queue' = Tail(queue)
  BY DEF Deliver
<1>2. ServiceTypeOK'
  BY <1>1, TailFacts DEF ServiceTypeOK
<1> DEFINE n == Len(queue)
<1>3. /\ n \in Nat \ {0} /\ DOMAIN queue = 1..n
      /\ DOMAIN queue' = 1..(n - 1)
      /\ \A i \in 1..(n - 1) : queue'[i] = queue[i + 1]
      /\ queue[1] = s
  BY <1>1, TailFacts DEF ServiceTypeOK
<1>4. \A i \in 2..n : queue[i] # s
  BY <1>3 DEF QueuedOnce
<1>5. ASSUME NEW i \in DOMAIN queue', NEW j \in DOMAIN queue',
             queue'[i] = queue'[j]
      PROVE  i = j
  <2>1. i \in 1..(n - 1) /\ j \in 1..(n - 1)
    BY <1>3
  <2>2. i + 1 \in DOMAIN queue /\ j + 1 \in DOMAIN queue
    BY <1>3, <2>1
  <2>3. queue[i + 1] = queue[j + 1]
    BY <1>3, <1>5, <2>1
  <2>4. i + 1 = j + 1
    BY <2>2, <2>3 DEF QueuedOnce
  <2> QED BY <2>1, <2>4
<1>6. ASSUME NEW t \in Session
      PROVE  stage'[t] = "queued" <=> \E i \in DOMAIN queue' : queue'[i] = t
  <2>1. CASE t = s
    BY <1>1, <1>3, <1>4, <2>1 DEF ServiceTypeOK
  <2>2. CASE t # s
    <3>1. (\E i \in DOMAIN queue' : queue'[i] = t)
            => \E i \in DOMAIN queue : queue[i] = t
      BY <1>3
    <3>2. ASSUME NEW i \in DOMAIN queue, queue[i] = t
          PROVE  \E j \in DOMAIN queue' : queue'[j] = t
      <4>1. i \in 2..n
        BY <1>3, <2>2, <3>2
      <4>2. i - 1 \in DOMAIN queue' /\ queue'[i - 1] = t
        BY <1>3, <3>2, <4>1
      <4> QED BY <4>2
    <3> QED BY <1>1, <2>2, <3>1, <3>2 DEF QueuedOnce, ServiceTypeOK
  <2> QED BY <2>1, <2>2
<1>7. stage[s] = "queued"
  BY <1>3 DEF QueuedOnce
<1> QED BY <1>1, <1>2, <1>5, <1>6, <1>7 DEF QueuedOnce

(* A callback outside the queue moves on, or does not get into it.         *)
LEMMA OtherQueue ==
  ASSUME ServiceTypeOK, QueuedOnce, TempFail \in Verdict, NEW s \in Session,
         \/ Refuse(s)
         \/ \E v \in Verdict : Answer(s, v)
         \/ Return(s)
  PROVE  ServiceTypeOK' /\ QueuedOnce'
<1>1. ServiceTypeOK'
  BY DEF Refuse, Answer, Return, ServiceTypeOK
<1>2. /\ queue' = queue
      /\ \A t \in Session : stage'[t] = "queued" <=> stage[t] = "queued"
  BY DEF Refuse, Answer, Return, ServiceTypeOK
<1> QED BY <1>1, <1>2 DEF QueuedOnce

(* At the start nobody is queued.                                          *)
LEMMA ServiceInitInv ==
  ASSUME TempFail \in Verdict, ServiceInit
  PROVE  ServiceTypeOK /\ QueuedOnce
<1>1. <<>> \in Seq(Session)
  BY EmptySeq
<1> QED BY <1>1, EmptyDomain DEF ServiceInit, ServiceTypeOK, QueuedOnce

(* Every step of the service keeps its queue and its stages in agreement.  *)
LEMMA ServiceNextInv ==
  ASSUME TempFail \in Verdict, ServiceTypeOK, QueuedOnce,
         [ServiceNext]_serviceVars
  PROVE  ServiceTypeOK' /\ QueuedOnce'
<1>1. CASE UNCHANGED serviceVars
  BY <1>1 DEF ServiceTypeOK, QueuedOnce
<1>2. CASE ServiceNext
  BY <1>2, SubmitQueue, DeliverQueue, OtherQueue DEF ServiceNext
<1> QED BY <1>1, <1>2

(* Whoever implements the service queues every waiting callback exactly    *)
(* once.                                                                   *)
THEOREM ServiceOnce ==
  ASSUME TempFail \in Verdict
  PROVE  ServiceSpec => [](ServiceTypeOK /\ QueuedOnce)
  BY ServiceInitInv, ServiceNextInv, PTL DEF ServiceSpec

=============================================================================
