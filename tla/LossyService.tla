---------------------------- MODULE LossyService ----------------------------
(***************************************************************************)
(* CallbackService for an implementation some of whose calls may fail.  A  *)
(* callback that is lost is lost at one of two moments - when it is its    *)
(* turn to be delivered, or when it is answered - and its thread then      *)
(* sleeps for ever; every other callback is served as promised.            *)
(***************************************************************************)
EXTENDS CallbackService

CONSTANT Losable   (* the stages in which a callback may be lost           *)

LossyStage == Stage \cup {"lost"}

Loses(s, from) ==
  /\ from \in Losable
  /\ stage[s] = from
  /\ stage' = [stage EXCEPT ![s] = "lost"]
  /\ UNCHANGED verdict

(* trigger_event unlinks the oldest event and cannot lock it. *)
LoseQueued(s) ==
  /\ queue # <<>>
  /\ s = Head(queue)
  /\ queue' = Tail(queue)
  /\ Loses(s, "queued")

(* MilterEvent::Done cannot signal the thread: the verdict stays behind.   *)
LoseDelivered(s) ==
  /\ Loses(s, "delivered")
  /\ UNCHANGED queue

LossyNext ==
  \/ ServiceNext
  \/ \E s \in Session : LoseQueued(s) \/ LoseDelivered(s)

LossySpec == ServiceInit /\ [][LossyNext]_serviceVars

=============================================================================
