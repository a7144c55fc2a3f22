----------------------------- MODULE BridgeLocks -----------------------------
(***************************************************************************)
(* What the two kinds of mutex of the bridge - lck_queue, and the pt_lock  *)
(* of every event - are there for: nobody waits in a circle, nobody        *)
(* touches memory that another thread is touching, and an event is at rest *)
(* when it is deleted.                                                     *)
(***************************************************************************)
EXTENDS EventBridge

(* Process p is at a pthread_mutex_lock (or at the end of a condition      *)
(* wait) on a mutex that q holds.                                          *)
Waits(p, q) ==
  \/ p = Node /\ npc = "lock_queue" /\ lck_queue = q
  \/ p = Node /\ npc = "lock_event" /\ pt_lock[ev] = q
  \/ p \in Session /\ pc[p] = "lock_queue" /\ lck_queue = q
  \/ p \in Session /\ pc[p] \in {"enqueue", "relock"} /\ pt_lock[event[p]] = q

(* Mutexes are never waited for in a circle, on any error path either: a   *)
(* libmilter thread that holds a mutex another one waits for, be it the    *)
(* node thread blocked in trigger_event with lck_queue held, waits for     *)
(* none itself, and the node thread never waits for itself.                *)
NoCircularWait ==
  /\ ~ Waits(Node, Node)
  /\ \A p \in Session \cup {Node}, q \in Session, r \in Session \cup {Node} :
       Waits(p, q) => ~ Waits(q, r)

(* The memory that the next step of a process may read or write: the list  *)
(* heads, and of an event its link or its other fields.  The script may    *)
(* answer a callback it owes at any moment, and MilterEvent::Done then     *)
(* writes into the event.  The read of is_done with which it ends is left  *)
(* out: see DoneReturnsTrue.                                               *)
ThreadTouches(s) ==
  CASE pc[s] = "enqueue"                -> {<<Null, "list">>, <<event[s], "link">>,
                                            <<last, "link">>}
    [] pc[s] \in {"set_context", "check"} -> {<<event[s], "fields">>}
    [] pc[s] = "delete"                 -> {event[s]} \X {"link", "fields"}
    [] OTHER                            -> {}

NodeTouches ==
  (IF npc = "dequeue" THEN {<<Null, "list">>, <<first, "link">>} ELSE {})
  \cup (IF npc = "fire" THEN {<<ev, "fields">>} ELSE {})
  \cup (IF done_pc = "unlock" THEN {<<done_ev, "fields">>} ELSE {})
  \cup {<<current_event[s], "fields">> : s \in owes}

(* No two threads are ever about to touch the same memory: the locks that  *)
(* generate_event, trigger_event and done() take and give up in different  *)
(* functions protect the list and every event without a gap.               *)
NoDataRace ==
  /\ \A s \in Session : ThreadTouches(s) \cap NodeTouches = {}
  /\ \A s, t \in Session : s # t => ThreadTouches(s) \cap ThreadTouches(t) = {}

(* An event's mutex and condition variable are destroyed only when the     *)
(* mutex is free and nobody is about to take or to give up either of them. *)
DestroyedAtRest ==
  \A s \in Session : pc[s] = "delete" =>
    /\ pt_lock[event[s]] = Null
    /\ event[s] \notin Queued
    /\ event[s] # ev
    /\ done_pc = "unlock" => event[s] # done_ev

=============================================================================
