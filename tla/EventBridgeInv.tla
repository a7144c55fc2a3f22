--------------------------- MODULE EventBridgeInv ---------------------------
(***************************************************************************)
(* The inductive invariant of EventBridge: what each lock protects, who    *)
(* holds it at which step, and where the event of each thread can be.      *)
(***************************************************************************)
EXTENDS EventBridge

(* The steps of generate_event between linking the event and seeing it     *)
(* done, and those among them that hold the event's mutex.                 *)
InLoop    == {"unlock_queue", "set_context", "send", "wait", "waiting",
              "relock", "check"}
Holding   == {"unlock_queue", "set_context", "send", "wait", "check"}
Asleep    == {"waiting", "relock"}

(* A live event belongs to the one frame that constructed it.              *)
Ownership ==
  /\ \A s \in Session : event[s] # Null =>
       event[s] \in heap /\ fi_envelope[event[s]] = s
  /\ \A e \in heap : fi_envelope[e] \in Session /\ event[fi_envelope[e]] = e

(* lck_queue is held exactly during the critical sections of the queue.    *)
QueueLock ==
  /\ \A s \in Session : lck_queue = s <=> pc[s] \in {"enqueue", "unlock_queue"}
  /\ lck_queue = Node <=> npc \in {"dequeue", "lock_event"}

(* The node thread holds the mutex of e: it is about to fire it, the       *)
(* script owes its answer, or Done has signalled it.                       *)
NodeHolds(e) ==
  \/ npc = "fire" /\ ev = e
  \/ \E s \in owes : current_event[s] = e
  \/ done_pc = "unlock" /\ done_ev = e

EventLock ==
  \A e \in heap :
    /\ \A s \in Session :
         pt_lock[e] = s <=> event[s] = e /\ pc[s] \in Holding
    /\ pt_lock[e] = Node <=> NodeHolds(e)

(* Queued events are distinct, and their threads are in the wait loop.     *)
QueueContents ==
  /\ \A i, j \in DOMAIN line : line[i] = line[j] => i = j
  /\ \A i \in DOMAIN line :
       /\ line[i] \in heap
       /\ ~ is_done[line[i]]
       /\ pc[fi_envelope[line[i]]] \in InLoop
       /\ fi_envelope[line[i]] \notin owes
       /\ line[i] # ev
       /\ done_pc = "unlock" => line[i] # done_ev

(* An event unlinked by trigger_event and not fired yet.                   *)
Unlinked ==
  ev # Null =>
    /\ ev \in heap
    /\ ~ is_done[ev]
    /\ pc[fi_envelope[ev]] \in InLoop
    /\ npc = "fire" => pc[fi_envelope[ev]] \in Asleep
    /\ fi_envelope[ev] \notin owes

(* MilterEvent::Done runs on top of the event loop or of a callback, not   *)
(* in the middle of trigger_event.                                         *)
Frames == done_pc # "none" => npc \in {"loop", "script"}

(* An event that MilterEvent::Done has signalled and not unlocked.         *)
Completing ==
  done_pc = "unlock" =>
    /\ done_ev \in heap
    /\ fi_envelope[done_ev] \notin owes
    /\ pc[fi_envelope[done_ev]] \in Asleep

(* Its context is set before an event's mutex is given up, only a thread   *)
(* that was woken can have a completed event, and an event not queued yet  *)
(* is as its constructor left it.                                          *)
Progress ==
  \A s \in Session :
    /\ pc[s] \in {"send", "wait", "waiting", "relock", "check"} =>
         smfi_context[event[s]] = s
    /\ pc[s] \in InLoop \ {"relock", "check"} => ~ is_done[event[s]]
    /\ pc[s] \in {"lock_queue", "enqueue"} =>
         /\ ~ is_done[event[s]]
         /\ ev_next[event[s]] = Null
         /\ pt_lock[event[s]] = Null

IInv ==
  /\ TypeOK
  /\ QueueRepresentsLine
  /\ Ownership
  /\ QueueLock
  /\ EventLock
  /\ QueueContents
  /\ Unlinked
  /\ HandOff
  /\ ContextKnown
  /\ Frames
  /\ Completing
  /\ Progress

=============================================================================
