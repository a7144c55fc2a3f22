--------------------------- MODULE CallbackService ---------------------------
(***************************************************************************)
(* What the multiplexer of node-milter promises to its two sides, with no  *)
(* lock, pointer or wakeup in sight.  A libmilter thread hands over one    *)
(* callback at a time and sleeps; the script of the node thread is given   *)
(* the callbacks one by one in the order they were queued, at most once    *)
(* each, and the thread resumes with exactly the verdict the script gave,  *)
(* or with TempFail when the callback could not even be queued.            *)
(***************************************************************************)
EXTENDS Sequences

CONSTANTS Session,   (* the libmilter threads, one per mail session        *)
          Verdict,   (* the SMFIS_ codes                                   *)
          TempFail   (* SMFIS_TEMPFAIL                                     *)

VARIABLES stage,     (* what the callback of each session is waiting for   *)
          queue,     (* the sessions whose callback is queued, oldest first *)
          verdict    (* the last verdict of each session                   *)

serviceVars == <<stage, queue, verdict>>

Stage == {"idle", "queued", "delivered", "answered"}

ServiceTypeOK ==
  /\ stage \in [Session -> Stage]
  /\ queue \in Seq(Session)
  /\ verdict \in [Session -> Verdict]

ServiceInit ==
  /\ stage = [s \in Session |-> "idle"]
  /\ queue = <<>>
  /\ verdict = [s \in Session |-> TempFail]

(* generate_event queues the callback of s. *)
Submit(s) ==
  /\ stage[s] = "idle"
  /\ stage' = [stage EXCEPT ![s] = "queued"]
  /\ queue' = Append(queue, s)
  /\ UNCHANGED verdict

(* generate_event could not queue it and answers for the script. *)
Refuse(s) ==
  /\ stage[s] = "idle"
  /\ stage' = [stage EXCEPT ![s] = "answered"]
  /\ verdict' = [verdict EXCEPT ![s] = TempFail]
  /\ UNCHANGED queue

(* trigger_event runs the script's callback for the oldest entry. *)
Deliver(s) ==
  /\ queue # <<>>
  /\ s = Head(queue)
  /\ stage' = [stage EXCEPT ![s] = "delivered"]
  /\ queue' = Tail(queue)
  /\ UNCHANGED verdict

(* The script calls done(v) on the envelope of s, at once or later. *)
Answer(s, v) ==
  /\ stage[s] = "delivered"
  /\ stage' = [stage EXCEPT ![s] = "answered"]
  /\ verdict' = [verdict EXCEPT ![s] = v]
  /\ UNCHANGED queue

(* generate_event returns the verdict to libmilter. *)
Return(s) ==
  /\ stage[s] = "answered"
  /\ stage' = [stage EXCEPT ![s] = "idle"]
  /\ UNCHANGED <<queue, verdict>>

ServiceNext ==
  \E s \in Session :
    \/ Submit(s)
    \/ Refuse(s)
    \/ Deliver(s)
    \/ \E v \in Verdict : Answer(s, v)
    \/ Return(s)

ServiceSpec == ServiceInit /\ [][ServiceNext]_serviceVars

(* Exactly the callbacks that wait for their turn are queued, once each.   *)
QueuedOnce ==
  /\ \A i, j \in DOMAIN queue : queue[i] = queue[j] => i = j
  /\ \A s \in Session :
       stage[s] = "queued" <=> \E i \in DOMAIN queue : queue[i] = s

=============================================================================
