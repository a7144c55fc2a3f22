----------------------------- MODULE EventBridge -----------------------------
(***************************************************************************)
(* The bridge between the libmilter threads and the node.js event loop:    *)
(* generate_event and the fi_* callbacks around it on one side,            *)
(* trigger_event, MilterEvent::Fire and Envelope::Done on the other.       *)
(*                                                                         *)
(* Every libmilter thread s runs one callback at a time: it constructs a   *)
(* MilterEvent, appends it to the linked list under lck_queue, raises the  *)
(* libuv async handle and sleeps on the event's condition variable.  The   *)
(* node thread wakes, unlinks ONE event per wakeup, takes the event's      *)
(* mutex and keeps it until the script calls done() on the envelope.       *)
(*                                                                         *)
(* Events are addresses: a freed address may be handed out again, to any   *)
(* thread, as the allocator does.                                          *)
(***************************************************************************)
EXTENDS Naturals, Sequences

CONSTANTS Session,   (* libmilter threads; also their SMFICTX and envelope  *)
          Event,     (* addresses at which a MilterEvent can be allocated   *)
          Verdict,   (* SMFIS_ codes a script passes to done()              *)
          TempFail,  (* SMFIS_TEMPFAIL                                      *)
          Node,      (* the node.js thread                                  *)
          Null,      (* NULL; as owner of a mutex: nobody                   *)
          Failing    (* the pthread calls that may return an error          *)

(* The pthread calls whose error path does more than print a message.      *)
PthreadCall ==
  {"generate queue", "generate event", "trigger queue", "trigger event",
   "signal"}

ASSUME BridgeAssumption ==
  /\ TempFail \in Verdict
  /\ Node \notin Session
  /\ Null \notin Session \cup Event \cup {Node}
  /\ Failing \subseteq PthreadCall

MayFail(call) == call \in Failing

VARIABLES
  (* one frame of generate_event (and its fi_* caller) per thread          *)
  pc,               (* the next step of thread s                           *)
  event,            (* its MilterEvent, or Null between callbacks          *)
  retval,           (* the last value it returned to libmilter             *)
  (* the MilterEvent objects                                               *)
  heap,             (* addresses that hold a live event                    *)
  fi_envelope,      (* the session the event belongs to                    *)
  smfi_context,     (* set after the event is queued; Null: uninitialised  *)
  ev_next, is_done, fi_retval, pt_lock,
  (* struct bindings                                                       *)
  first, last, lck_queue,
  pending,          (* the async handle was raised and not served yet      *)
  (* the node thread                                                       *)
  npc,              (* the next step of trigger_event, or the event loop   *)
  ev,               (* trigger_event's local ev                            *)
  done_pc, done_ev, (* a running MilterEvent::Done and its `this'          *)
  current_event,    (* Envelope::current_event of the session              *)
  envelope_context, (* Envelope::smfi_context of the session               *)
  owes,             (* sessions whose callback ran and awaits done()       *)
  (* history                                                               *)
  line,             (* the queued events in the order they were queued     *)
  given             (* the script's verdict on the callback being made     *)

threadVars   == <<pc, event, retval>>
objectVars   == <<heap, fi_envelope>>
fieldVars    == <<smfi_context, ev_next, is_done, fi_retval>>
listVars     == <<first, last, line>>
nodeVars     == <<npc, ev>>
doneVars     == <<done_pc, done_ev>>
scriptVars   == <<current_event, envelope_context, owes, given>>
vars == <<threadVars, objectVars, fieldVars, pt_lock, listVars, lck_queue,
          pending, nodeVars, doneVars, scriptVars>>

ThreadPc == {"idle", "lock_queue", "enqueue", "unlock_queue", "set_context",
             "send", "wait", "waiting", "relock", "check", "delete"}
NodePc   == {"loop", "lock_queue", "dequeue", "lock_event", "fire", "script"}
DonePc   == {"none", "unlock", "return"}

Init ==
  /\ pc = [s \in Session |-> "idle"]
  /\ event = [s \in Session |-> Null]
  /\ retval = [s \in Session |-> TempFail]
  /\ heap = {}
  /\ fi_envelope = [e \in Event |-> Null]
  /\ smfi_context = [e \in Event |-> Null]
  /\ ev_next = [e \in Event |-> Null]
  /\ is_done = [e \in Event |-> FALSE]
  /\ fi_retval = [e \in Event |-> TempFail]
  /\ pt_lock = [e \in Event |-> Null]
  /\ first = Null /\ last = Null /\ line = <<>>
  /\ lck_queue = Null
  /\ pending = FALSE
  /\ npc = "loop" /\ ev = Null
  /\ done_pc = "none" /\ done_ev = Null
  /\ current_event = [s \in Session |-> Null]
  /\ envelope_context = [s \in Session |-> Null]
  /\ owes = {}
  /\ given = [s \in Session |-> TempFail]

GoTo(s, from, to) ==
  /\ pc[s] = from
  /\ pc' = [pc EXCEPT ![s] = to]

-----------------------------------------------------------------------------
(* The libmilter side.                                                     *)

(* libmilter calls fi_*: new MilterX(env, ...) and its constructor, which  *)
(* leaves smfi_context uninitialised.                                      *)
Construct(s) ==
  /\ GoTo(s, "idle", "lock_queue")
  /\ \E e \in Event \ heap :
       /\ event' = [event EXCEPT ![s] = e]
       /\ heap' = heap \cup {e}
       /\ fi_envelope' = [fi_envelope EXCEPT ![e] = s]
       /\ smfi_context' = [smfi_context EXCEPT ![e] = Null]
       /\ ev_next' = [ev_next EXCEPT ![e] = Null]
       /\ is_done' = [is_done EXCEPT ![e] = FALSE]
       /\ fi_retval' = [fi_retval EXCEPT ![e] = TempFail]
       /\ pt_lock' = [pt_lock EXCEPT ![e] = Null]
  /\ UNCHANGED <<retval, listVars, lck_queue, pending, nodeVars, doneVars,
                 scriptVars>>

LockQueue(s) ==
  /\ GoTo(s, "lock_queue", "enqueue")
  /\ lck_queue = Null
  /\ lck_queue' = s
  /\ UNCHANGED <<event, retval, objectVars, fieldVars, pt_lock, listVars,
                 pending, nodeVars, doneVars, scriptVars>>

(* `return SMFIS_TEMPFAIL' of generate_event. *)
ReturnTempFail(s) == retval' = [retval EXCEPT ![s] = TempFail]

LockQueueFails(s) ==
  /\ MayFail("generate queue")
  /\ GoTo(s, "lock_queue", "delete")
  /\ ReturnTempFail(s)
  /\ UNCHANGED <<event, objectVars, fieldVars, pt_lock, listVars, lck_queue,
                 pending, nodeVars, doneVars, scriptVars>>

(* Faulty: the newest event goes to the head of the list. *)
LinkAtHead(e) ==
  /\ first' = e
  /\ ev_next' = [ev_next EXCEPT ![e] = first]
  /\ last' = IF last = Null THEN e ELSE last
  /\ line' = Append(line, e)

(* The tail of the list, last->Append(event) unless it is empty. *)
Link(e) ==
  /\ \/ /\ last = Null
        /\ first' = e
        /\ UNCHANGED ev_next
     \/ /\ last # Null
        /\ ev_next' = [ev_next EXCEPT ![last] = e]
        /\ UNCHANGED first
  /\ last' = e
  /\ line' = Append(line, e)

(* Faulty: the event goes into the queue without its lock. *)
LeftUnlocked(s) == pt_lock

Locked(s) == [pt_lock EXCEPT ![event[s]] = s]

(* Locks the event and links it, with both locks held. *)
Enqueue(s) ==
  LET e == event[s]
  IN  /\ GoTo(s, "enqueue", "unlock_queue")
      /\ pt_lock[e] = Null
      /\ pt_lock' = Locked(s)
      /\ Link(e)
      /\ UNCHANGED <<event, retval, objectVars, smfi_context, is_done,
                     fi_retval, lck_queue, pending, nodeVars, doneVars,
                     scriptVars>>

(* Faulty: the event is linked before its lock is known to be held. *)
EnqueueFailsLinked(s) ==
  /\ MayFail("generate event")
  /\ GoTo(s, "enqueue", "delete")
  /\ lck_queue' = Null
  /\ Link(event[s])
  /\ ReturnTempFail(s)
  /\ UNCHANGED <<event, objectVars, smfi_context, is_done, fi_retval, pt_lock,
                 pending, nodeVars, doneVars, scriptVars>>

EnqueueFails(s) ==
  /\ MayFail("generate event")
  /\ GoTo(s, "enqueue", "delete")
  /\ lck_queue' = Null
  /\ ReturnTempFail(s)
  /\ UNCHANGED <<event, objectVars, fieldVars, pt_lock, listVars, pending,
                 nodeVars, doneVars, scriptVars>>

UnlockQueue(s) ==
  /\ GoTo(s, "unlock_queue", "set_context")
  /\ lck_queue' = Null
  /\ UNCHANGED <<event, retval, objectVars, fieldVars, pt_lock, listVars,
                 pending, nodeVars, doneVars, scriptVars>>

(* Only now, with the event already visible to the node thread, does it    *)
(* learn its libmilter context.                                            *)
SetMilterContext(s) ==
  /\ GoTo(s, "set_context", "send")
  /\ smfi_context' = [smfi_context EXCEPT ![event[s]] = s]
  /\ UNCHANGED <<event, retval, objectVars, ev_next, is_done, fi_retval,
                 pt_lock, listVars, lck_queue, pending, nodeVars, doneVars,
                 scriptVars>>

(* Faulty: only the event that found the list empty wakes the loop. *)
RaisedByFirst(s) == pending \/ first = event[s]

(* uv_async_send: raising a raised handle has no further effect. *)
Raised(s) == TRUE

AsyncSend(s) ==
  /\ GoTo(s, "send", "wait")
  /\ pending' = Raised(s)
  /\ UNCHANGED <<event, retval, objectVars, fieldVars, pt_lock, listVars,
                 lck_queue, nodeVars, doneVars, scriptVars>>

(* pthread_cond_wait gives the event's mutex up and sleeps.                *)
Wait(s) ==
  /\ GoTo(s, "wait", "waiting")
  /\ pt_lock' = [pt_lock EXCEPT ![event[s]] = Null]
  /\ UNCHANGED <<event, retval, objectVars, fieldVars, listVars, lck_queue,
                 pending, nodeVars, doneVars, scriptVars>>

(* POSIX lets a condition wait return without a signal. *)
SpuriousWakeup(s) ==
  /\ GoTo(s, "waiting", "relock")
  /\ UNCHANGED <<event, retval, objectVars, fieldVars, pt_lock, listVars,
                 lck_queue, pending, nodeVars, doneVars, scriptVars>>

(* pthread_cond_wait takes the mutex back before it returns. *)
Relock(s) ==
  /\ GoTo(s, "relock", "check")
  /\ pt_lock[event[s]] = Null
  /\ pt_lock' = [pt_lock EXCEPT ![event[s]] = s]
  /\ UNCHANGED <<event, retval, objectVars, fieldVars, listVars, lck_queue,
                 pending, nodeVars, doneVars, scriptVars>>

(* Faulty: any return of the condition wait counts as completion. *)
WokenUp(s) == TRUE

IsDone(s) == is_done[event[s]]

(* IsDone() was false: signal the node loop again and wait again. *)
Retry(s) ==
  /\ GoTo(s, "check", "send")
  /\ ~ IsDone(s)
  /\ UNCHANGED <<event, retval, objectVars, fieldVars, pt_lock, listVars,
                 lck_queue, pending, nodeVars, doneVars, scriptVars>>

(* IsDone(): take the result and unlock the event for the last time. *)
TakeResult(s) ==
  /\ GoTo(s, "check", "delete")
  /\ IsDone(s)
  /\ retval' = [retval EXCEPT ![s] = fi_retval[event[s]]]
  /\ pt_lock' = [pt_lock EXCEPT ![event[s]] = Null]
  /\ UNCHANGED <<event, objectVars, fieldVars, listVars, lck_queue, pending,
                 nodeVars, doneVars, scriptVars>>

(* Faulty: the frame is left with its event pointer. *)
FrameKept(s) == event

FrameLeft(s) == [event EXCEPT ![s] = Null]

(* fi_*: delete event, and return retval to libmilter. *)
Delete(s) ==
  /\ GoTo(s, "delete", "idle")
  /\ heap' = heap \ {event[s]}
  /\ event' = FrameLeft(s)
  /\ given' = [given EXCEPT ![s] = TempFail]
  /\ UNCHANGED <<retval, fi_envelope, fieldVars, pt_lock, listVars,
                 lck_queue, pending, nodeVars, doneVars, current_event,
                 envelope_context, owes>>

-----------------------------------------------------------------------------
(* The node.js side.  The thread is in the event loop, in a step of        *)
(* trigger_event, or in the script; a running MilterEvent::Done is a frame *)
(* on top of the loop (timers, setImmediate) or of the callback.           *)

(* The event loop serves the raised handle: it lowers it, then calls back. *)
TriggerEvent ==
  /\ npc = "loop" /\ done_pc = "none"
  /\ pending
  /\ pending' = FALSE
  /\ npc' = "lock_queue"
  /\ UNCHANGED <<threadVars, objectVars, fieldVars, pt_lock, listVars,
                 lck_queue, ev, doneVars, scriptVars>>

TriggerLockQueue ==
  /\ npc = "lock_queue"
  /\ lck_queue = Null
  /\ lck_queue' = Node
  /\ npc' = "dequeue"
  /\ UNCHANGED <<threadVars, objectVars, fieldVars, pt_lock, listVars,
                 pending, ev, doneVars, scriptVars>>

TriggerLockQueueFails ==
  /\ MayFail("trigger queue")
  /\ npc = "lock_queue"
  /\ npc' = "loop"
  /\ UNCHANGED <<threadVars, objectVars, fieldVars, pt_lock, listVars,
                 lck_queue, pending, ev, doneVars, scriptVars>>

FirstAfter(e) == ev_next[e]

(* Faulty: `last' survives the removal of the only event. *)
LastKept(e) == last

LastAfter(e) == IF ev_next[e] = Null THEN Null ELSE last

(* Unlinks one event, whatever the length of the list. *)
Dequeue ==
  /\ npc = "dequeue"
  /\ first # Null
  /\ ev' = first
  /\ first' = FirstAfter(first)
  /\ last' = LastAfter(first)
  /\ ev_next' = [ev_next EXCEPT ![first] = Null]
  /\ line' = Tail(line)
  /\ npc' = "lock_event"
  /\ UNCHANGED <<threadVars, objectVars, smfi_context, is_done, fi_retval,
                 pt_lock, lck_queue, pending, doneVars, scriptVars>>

(* The list is empty: `spurious wakeup'. *)
DequeueNothing ==
  /\ npc = "dequeue"
  /\ first = Null
  /\ lck_queue' = Null
  /\ npc' = "loop"
  /\ UNCHANGED <<threadVars, objectVars, fieldVars, pt_lock, listVars,
                 pending, ev, doneVars, scriptVars>>

(* Blocks, lck_queue held, until the libmilter thread sleeps; then unlocks *)
(* the queue.                                                              *)
LockEvent ==
  /\ npc = "lock_event"
  /\ pt_lock[ev] = Null
  /\ pt_lock' = [pt_lock EXCEPT ![ev] = Node]
  /\ lck_queue' = Null
  /\ npc' = "fire"
  /\ UNCHANGED <<threadVars, objectVars, fieldVars, listVars, pending, ev,
                 doneVars, scriptVars>>

(* Faulty: the failed lock is ignored and the event fires without it. *)
LockEventIgnored ==
  /\ MayFail("trigger event")
  /\ npc = "lock_event"
  /\ lck_queue' = Null
  /\ npc' = "fire"
  /\ UNCHANGED <<threadVars, objectVars, fieldVars, pt_lock, listVars,
                 pending, ev, doneVars, scriptVars>>

(* Faulty: the error path returns with the queue still locked. *)
LockEventFailsLocked ==
  /\ MayFail("trigger event")
  /\ npc = "lock_event"
  /\ ev' = Null
  /\ npc' = "loop"
  /\ UNCHANGED <<threadVars, objectVars, fieldVars, pt_lock, listVars,
                 lck_queue, pending, doneVars, scriptVars>>

(* The event is already unlinked and nobody puts it back. *)
LockEventFails ==
  /\ MayFail("trigger event")
  /\ npc = "lock_event"
  /\ lck_queue' = Null
  /\ ev' = Null
  /\ npc' = "loop"
  /\ UNCHANGED <<threadVars, objectVars, fieldVars, pt_lock, listVars,
                 pending, doneVars, scriptVars>>

(* MilterEvent::Fire: points the envelope at this event, calls the script. *)
Fire ==
  LET s == fi_envelope[ev]
  IN  /\ npc = "fire"
      /\ current_event' = [current_event EXCEPT ![s] = ev]
      /\ envelope_context' = [envelope_context EXCEPT ![s] = smfi_context[ev]]
      /\ owes' = owes \cup {s}
      /\ ev' = Null
      /\ npc' = "script"
      /\ UNCHANGED <<threadVars, objectVars, fieldVars, pt_lock, listVars,
                     lck_queue, pending, doneVars, given>>

(* The script's callback returns, with or without having called done(). *)
ScriptReturns ==
  /\ npc = "script" /\ done_pc = "none"
  /\ npc' = "loop"
  /\ UNCHANGED <<threadVars, objectVars, fieldVars, pt_lock, listVars,
                 lck_queue, pending, ev, doneVars, scriptVars>>

(* Faulty: the thread that waits on the event is not woken. *)
Unsignalled(e) == pc

(* pthread_cond_signal on the event. *)
Signalled(e) ==
  [s \in Session |->
     IF event[s] = e /\ pc[s] = "waiting" THEN "relock" ELSE pc[s]]

(* Faulty: the event keeps the verdict its constructor gave it. *)
Unrecorded(e, v) == fi_retval

Recorded(e, v) == [fi_retval EXCEPT ![e] = v]

(* The script calls done(v) on the envelope of s, from a callback or from  *)
(* a later tick of the loop, once for each callback it was given:          *)
(* MilterEvent::Done up to and including the signal, its mutex held.       *)
Done(s, v) ==
  LET e == current_event[s]
  IN  /\ npc \in {"loop", "script"} /\ done_pc = "none"
      /\ s \in owes
      /\ owes' = owes \ {s}
      /\ given' = [given EXCEPT ![s] = v]
      /\ fi_retval' = Recorded(e, v)
      /\ \/ /\ pc' = Signalled(e)
            /\ is_done' = [is_done EXCEPT ![e] = TRUE]
         \/ /\ MayFail("signal")
            /\ is_done' = [is_done EXCEPT ![e] = FALSE]
            /\ UNCHANGED pc
      /\ done_pc' = "unlock"
      /\ done_ev' = e
      /\ UNCHANGED <<event, retval, objectVars, smfi_context, ev_next,
                     pt_lock, listVars, lck_queue, pending, nodeVars,
                     current_event, envelope_context>>

(* Faulty: the event is signalled and never unlocked. *)
NotYielded(e) == pt_lock

Yielded(e) == [pt_lock EXCEPT ![e] = Null]

DoneUnlock ==
  /\ done_pc = "unlock"
  /\ pt_lock' = Yielded(done_ev)
  /\ done_pc' = "return"
  /\ UNCHANGED <<threadVars, objectVars, fieldVars, listVars, lck_queue,
                 pending, nodeVars, done_ev, scriptVars>>

(* `return this->is_done', the event no longer locked. *)
DoneReturn ==
  /\ done_pc = "return"
  /\ done_pc' = "none"
  /\ done_ev' = Null
  /\ UNCHANGED <<threadVars, objectVars, fieldVars, pt_lock, listVars,
                 lck_queue, pending, nodeVars, scriptVars>>

-----------------------------------------------------------------------------
ThreadStep(s) ==
  \/ Construct(s)        \/ LockQueue(s)    \/ LockQueueFails(s)
  \/ Enqueue(s)          \/ EnqueueFails(s) \/ UnlockQueue(s)
  \/ SetMilterContext(s) \/ AsyncSend(s)    \/ Wait(s)
  \/ SpuriousWakeup(s)   \/ Relock(s)       \/ Retry(s)
  \/ TakeResult(s)       \/ Delete(s)

NodeStep ==
  \/ TriggerEvent \/ TriggerLockQueue \/ TriggerLockQueueFails
  \/ Dequeue      \/ DequeueNothing
  \/ LockEvent    \/ LockEventFails
  \/ Fire         \/ ScriptReturns
  \/ \E s \in Session, v \in Verdict : Done(s, v)
  \/ DoneUnlock   \/ DoneReturn

Next == (\E s \in Session : ThreadStep(s)) \/ NodeStep

Spec == Init /\ [][Next]_vars

(* The scheduler runs every runnable thread (WF) and a contended mutex is  *)
(* not refused for ever (SF: the queue lock, and the event lock, which     *)
(* spurious wakeups may keep taking).  The event loop serves the raised    *)
(* handle between other work (SF).  Nothing makes libmilter start a        *)
(* callback, a wait end without a signal, or the script answer: a callback *)
(* that throws before done() is one that never does.                       *)
ThreadFairness(s) ==
  /\ SF_vars(LockQueue(s))
  /\ WF_vars(Enqueue(s))
  /\ WF_vars(UnlockQueue(s))
  /\ WF_vars(SetMilterContext(s))
  /\ WF_vars(AsyncSend(s))
  /\ WF_vars(Wait(s))
  /\ WF_vars(Relock(s))
  /\ WF_vars(Retry(s))
  /\ WF_vars(TakeResult(s))
  /\ WF_vars(Delete(s))

NodeFairness ==
  /\ SF_vars(TriggerEvent)
  /\ SF_vars(TriggerLockQueue)
  /\ WF_vars(Dequeue)
  /\ WF_vars(DequeueNothing)
  /\ SF_vars(LockEvent)
  /\ WF_vars(Fire)
  /\ WF_vars(ScriptReturns)
  /\ WF_vars(DoneUnlock)
  /\ WF_vars(DoneReturn)

FairSpec == Spec /\ NodeFairness /\ \A s \in Session : ThreadFairness(s)

(* A script that answers every callback, between other work.               *)
AnsweringSpec ==
  FairSpec /\ \A s \in Session : SF_vars(\E v \in Verdict : Done(s, v))

-----------------------------------------------------------------------------
(* Types, and which locals are set at which step.                          *)
TypeOK ==
  /\ pc \in [Session -> ThreadPc]
  /\ event \in [Session -> Event \cup {Null}]
  /\ retval \in [Session -> Verdict]
  /\ heap \in SUBSET Event
  /\ fi_envelope \in [Event -> Session \cup {Null}]
  /\ smfi_context \in [Event -> Session \cup {Null}]
  /\ ev_next \in [Event -> Event \cup {Null}]
  /\ is_done \in [Event -> BOOLEAN]
  /\ fi_retval \in [Event -> Verdict]
  /\ pt_lock \in [Event -> Session \cup {Node, Null}]
  /\ first \in Event \cup {Null}
  /\ last \in Event \cup {Null}
  /\ line \in Seq(Event)
  /\ lck_queue \in Session \cup {Node, Null}
  /\ pending \in BOOLEAN
  /\ npc \in NodePc
  /\ ev \in Event \cup {Null}
  /\ done_pc \in DonePc
  /\ done_ev \in Event \cup {Null}
  /\ current_event \in [Session -> Event \cup {Null}]
  /\ envelope_context \in [Session -> Session \cup {Null}]
  /\ owes \in SUBSET Session
  /\ given \in [Session -> Verdict]
  /\ \A s \in Session : event[s] = Null <=> pc[s] = "idle"
  /\ ev = Null <=> npc \notin {"lock_event", "fire"}
  /\ done_ev = Null <=> done_pc = "none"

Queued == {line[i] : i \in DOMAIN line}

(* Whenever nobody is between the two locks of the queue, first, last and  *)
(* the ev_next links of the live events spell out exactly the events that  *)
(* were appended and not yet unlinked, in that order, and the last link is *)
(* NULL, so the assertion in MilterEvent::Append holds.                    *)
QueueRepresentsLine ==
  /\ first = IF line = <<>> THEN Null ELSE line[1]
  /\ last = IF line = <<>> THEN Null ELSE line[Len(line)]
  /\ \A i \in DOMAIN line :
       ev_next[line[i]] = IF i = Len(line) THEN Null ELSE line[i + 1]

(* While the script has a callback to answer, the envelope it was given    *)
(* points at the very event its thread sleeps on, and the node thread owns *)
(* that event's mutex: nobody else can complete, read or free it.          *)
HandOff ==
  \A s \in owes :
    /\ current_event[s] = event[s]
    /\ pc[s] \in {"waiting", "relock"}
    /\ pt_lock[event[s]] = Node
    /\ ~ is_done[event[s]]

(* The node thread learns a callback's libmilter context from a field that *)
(* is written after the event is queued; it never reads it unwritten, or   *)
(* another session's.                                                      *)
ContextKnown == \A s \in owes : envelope_context[s] = s

(* No queue link, no local of trigger_event, no envelope the script may    *)
(* complete and no Done up to its unlock refers to a freed event.          *)
LiveEvents ==
  /\ Queued \subseteq heap
  /\ ev # Null => ev \in heap
  /\ \A s \in owes : current_event[s] \in heap
  /\ done_pc = "unlock" => done_ev \in heap

(* The event of every thread inside generate_event is in exactly one       *)
(* place - queued, unlinked by trigger_event, with the script, or answered *)
(* - so that no callback is dropped or served twice.                       *)
Places(s) ==
  {p \in {"queue", "node", "script", "answered"} :
     \/ p = "queue"    /\ event[s] \in Queued
     \/ p = "node"     /\ event[s] = ev
     \/ p = "script"   /\ s \in owes
     \/ p = "answered" /\ is_done[event[s]]}

Accounted ==
  /\ \A i, j \in DOMAIN line : line[i] = line[j] => i = j
  /\ \A s \in Session :
       pc[s] \notin {"idle", "lock_queue", "enqueue", "delete"} =>
         \E p \in {"queue", "node", "script", "answered"} : Places(s) = {p}

(* A wakeup of the node loop is under way: the handle is raised, or        *)
(* trigger_event has not looked into the queue yet, or a thread has queued *)
(* its event and is about to raise the handle.                             *)
Wakeup ==
  \/ pending
  \/ npc \in {"lock_queue", "dequeue"}
  \/ \E s \in Session : pc[s] \in {"unlock_queue", "set_context", "send"}

(* uv_async_send coalesces and trigger_event unlinks one event per call,   *)
(* so queued events may be left behind with no wakeup under way; but never *)
(* those of all sessions at once: while any session is not queued, its     *)
(* next callback brings the next wakeup.                                   *)
NeverAllAsleep == Wakeup \/ \E s \in Session : event[s] \notin Queued

-----------------------------------------------------------------------------
(* The bridge implements CallbackService.                                  *)
SessionOf(e) == fi_envelope[e]

StageOf(s) ==
  CASE pc[s] \in {"idle", "lock_queue", "enqueue"}      -> "idle"
    [] s \in owes                                      -> "delivered"
    [] pc[s] = "delete" \/ (pc[s] \notin {"idle", "lock_queue", "enqueue"}
                            /\ is_done[event[s]])      -> "answered"
    [] OTHER                                           -> "queued"

stageBar == [s \in Session |-> StageOf(s)]

(* An event unlinked but not fired yet is still at the head of the line.   *)
queueBar ==
  LET unfired == IF ev = Null THEN <<>> ELSE <<ev>>
  IN  [i \in 1..(Len(unfired) + Len(line)) |-> SessionOf((unfired \o line)[i])]

verdictBar ==
  [s \in Session |->
     IF StageOf(s) = "answered" /\ pc[s] # "delete" THEN given[s] ELSE retval[s]]

Service == INSTANCE CallbackService
  WITH stage <- stageBar, queue <- queueBar, verdict <- verdictBar

(* Callbacks reach the script in the order they were queued, at most once, *)
(* and libmilter gets the verdict the script gave for that very callback.  *)
ImplementsService == Service!ServiceSpec

(* The thread waits for an event that is in no place any more.             *)
Lost(s) ==
  /\ pc[s] \notin {"idle", "lock_queue", "enqueue", "delete"}
  /\ Places(s) = {}

Lossy == INSTANCE LossyService
  WITH stage   <- [s \in Session |-> IF Lost(s) THEN "lost" ELSE StageOf(s)],
       queue   <- queueBar,
       verdict <- verdictBar,
       Losable <- {st \in {"queued", "delivered"} :
                     \/ st = "queued"    /\ MayFail("trigger event")
                     \/ st = "delivered" /\ MayFail("signal")}

(* Whichever calls fail, the only callbacks that go astray are the oldest  *)
(* one when trigger_event cannot lock its event, and the one being         *)
(* answered when done() cannot signal it; all others are still served in   *)
(* order, at most once, and with their own verdicts.                       *)
ImplementsLossyService == Lossy!LossySpec

(* An answered callback returns to libmilter, even if the script owes      *)
(* another session's answer for ever.                                      *)
AnsweredReturns ==
  \A s \in Session :
    event[s] # Null /\ is_done[event[s]] ~> pc[s] = "idle"

(* With no other session at work no wakeup can be coalesced away: if the   *)
(* script answers, every callback comes back.                              *)
AloneReturns ==
  \A s \in Session :
    /\ [](\A t \in Session \ {s} : pc[t] = "idle")
    /\ s \in owes ~> s \notin owes
    => (pc[s] = "lock_queue" ~> pc[s] = "idle")

(* trigger_event: `all queued events reach node.js from this point'.       *)
EveryEventFires ==
  \A s \in Session : pc[s] = "unlock_queue" ~> s \in owes

(* A queued callback is fired at the latest as a result of the wakeups     *)
(* that other sessions cause, if those keep coming, even if the script     *)
(* never answers anybody.                                                  *)
RescuedByTraffic ==
  \A s \in Session :
    []<>(\E t \in Session \ {s} : pc[t] = "send")
      => (pc[s] = "unlock_queue" ~> s \in owes)

(* MilterEvent::Done `returns true if libmilter thread is signaled': the   *)
(* field it returns is still that of the live, completed event.            *)
DoneReturnsTrue ==
  done_pc = "return" => done_ev \in heap /\ is_done[done_ev]

=============================================================================
