---------------------------- MODULE MilterDaemon ----------------------------
(***************************************************************************)
(* The life of the daemon around the multiplexer: start, the worker that   *)
(* sits in smfi_main, stop, and milter_cleanup, which takes the async      *)
(* handle and the script's functions away while libmilter's threads may    *)
(* still be in the middle of their sessions; and starting it again.        *)
(*                                                                         *)
(* The callbacks of the sessions are those of CallbackService.  What the   *)
(* service leaves out is the wakeup: a queued event is served only if the  *)
(* handle is raised while it is open.                                      *)
(***************************************************************************)
EXTENDS CallbackService, Naturals

CONSTANTS Null,       (* an empty Persistent handle                        *)
          Arguments,  (* the argument lists the script passes to start     *)
          Made,       (* the callbacks that libmilter makes                *)
          MaxStarts   (* bound: how often the script calls start           *)

Callback ==
  {"negotiate", "connect", "unknown", "helo", "envfrom", "envrcpt", "data",
   "header", "eoh", "body", "eom", "abort", "close"}

ArgumentType == {"string", "number", "function", "other"}

(* A Persistent function: its type, and the start that stored it. *)
Function == [type : ArgumentType \cup {"undefined"}, start : Nat]

ASSUME DaemonAssumption ==
  /\ TempFail \in Verdict
  /\ Arguments \subseteq Seq(ArgumentType)
  /\ Made \subseteq Callback
  /\ MaxStarts \in Nat
  /\ Null \notin Function

VARIABLES
  starts,     (* how often start got past its argument checks              *)
  current,    (* history: the last start that brought a daemon up          *)
  fcall,      (* the Persistent functions: which start gave which value    *)
  handle,     (* the async handle app.trigger                              *)
  pending,    (* the handle was raised and not served yet                  *)
  heard,      (* history: the handle was raised since it was opened        *)
  worker,     (* the work request: milter_worker, then milter_cleanup      *)
  stopping,   (* smfi_stop was called                                      *)
  node,       (* the node thread: in the loop or the script's code, in     *)
              (* trigger_event, or dead and the process with it            *)
  connected,  (* sessions that libmilter has a thread for                  *)
  kind,       (* the callback each session is making, or made last         *)
  raising     (* queued sessions on their way to uv_async_send             *)

startVars   == <<starts, current, fcall>>
handleVars  == <<handle, pending, heard>>
workerVars  == <<worker, stopping>>
sessionVars == <<connected, kind, raising>>
daemonVars  == <<serviceVars, startVars, handleVars, workerVars, node,
                 sessionVars>>

NoFunctions == [c \in Callback |-> Null]

(* The process has not died. *)
Alive == node # "dead"

DaemonInit ==
  /\ ServiceInit
  /\ starts = 0 /\ current = 0
  /\ fcall = NoFunctions
  /\ handle = "none"
  /\ pending = FALSE /\ heard = FALSE
  /\ worker = "none"
  /\ stopping = FALSE
  /\ node = "loop"
  /\ connected = {}
  /\ kind = [s \in Session |-> "close"]
  /\ raising = {}

-----------------------------------------------------------------------------
(* The script.                                                             *)

(* args[i] of a call, counted from zero; V8 pads a short call.             *)
Argument(args, i) == IF i < Len(args) THEN args[i + 1] ELSE "undefined"

(* Where start expects the function for each callback. *)
Place(c) ==
  CASE c = "negotiate" -> 2  [] c = "connect" -> 3  [] c = "unknown" -> 4
    [] c = "helo"      -> 5  [] c = "envfrom" -> 6  [] c = "envrcpt" -> 7
    [] c = "data"      -> 8  [] c = "header"  -> 9  [] c = "eoh"     -> 10
    [] c = "body"      -> 11 [] c = "eom"     -> 12 [] c = "abort"   -> 13
    [] c = "close"     -> 14

(* Faulty: the loop over the functions ends with the argument count. *)
LastUnchecked(args) ==
  /\ Len(args) >= 14
  /\ Argument(args, 0) = "string" /\ Argument(args, 1) = "number"
  /\ \A i \in 2..13 : Argument(args, i) = "function"

(* The checks of start, which throw and change nothing if they fail.  One  *)
(* argument too few passes the first and is caught by the last.            *)
Checked(args) ==
  /\ Len(args) >= 14
  /\ Argument(args, 0) = "string" /\ Argument(args, 1) = "number"
  /\ \A i \in 2..14 : Argument(args, i) = "function"

Installed(args, n) ==
  [c \in Callback |-> [type |-> Argument(args, Place(c)), start |-> n]]

(* No daemon is running and libuv is done with the handle.  Nothing tells  *)
(* the script: the `end' callback of milter_cleanup is not written.        *)
Down == worker = "none" /\ handle \in {"none", "closed"}

(* Faulty: a new daemon begins with an empty queue. *)
EmptyQueue == <<>>

(* start sets up the handle and the request, and leaves first and last to  *)
(* what the last daemon left there.                                        *)
InheritedQueue == queue

(* start: both libmilter calls succeed.  Over a daemon that still runs,    *)
(* uv_async_init and uv_queue_work would reuse a handle and a request that *)
(* are in use: that has no outcome to model.  Whether smfi_main heeds a    *)
(* stop of an earlier daemon is libmilter's affair.                        *)
Start(args) ==
  /\ starts < MaxStarts /\ Down /\ node = "loop"
  /\ Checked(args)
  /\ starts' = starts + 1
  /\ current' = starts + 1
  /\ fcall' = Installed(args, starts + 1)
  /\ queue' = InheritedQueue
  /\ handle' = "open"
  /\ pending' = FALSE /\ heard' = FALSE
  /\ worker' = "queued"
  /\ stopping' \in {FALSE, stopping}
  /\ UNCHANGED <<stage, verdict, node, sessionVars>>

(* Faulty: the failing start leaves the functions installed. *)
FailedStart(args) == Installed(args, starts + 1)

FunctionsAfterFailure(args) == NoFunctions

(* start: smfi_register or smfi_setconn fails, the functions go again -    *)
(* those of a daemon that is running, too.                                 *)
StartFails(args) ==
  /\ starts < MaxStarts /\ node = "loop"
  /\ Checked(args)
  /\ starts' = starts + 1
  /\ fcall' = FunctionsAfterFailure(args)
  /\ UNCHANGED <<serviceVars, current, handleVars, workerVars, node,
                 sessionVars>>

Stop ==
  /\ node = "loop" /\ ~ stopping
  /\ stopping' = TRUE
  /\ UNCHANGED <<serviceVars, startVars, handleVars, worker, node, sessionVars>>

(* The script answers a callback, from that callback or later. *)
ScriptAnswers(s, v) ==
  /\ node = "loop"
  /\ Answer(s, v)
  /\ UNCHANGED <<startVars, handleVars, workerVars, node, sessionVars>>

-----------------------------------------------------------------------------
(* The worker and the event loop.                                          *)

WorkerIs(from, to) ==
  /\ Alive
  /\ worker = from
  /\ worker' = to
  /\ UNCHANGED <<serviceVars, starts, current, pending, heard, stopping, node,
                 sessionVars>>

(* A thread of libuv's pool runs milter_worker, which calls smfi_main. *)
WorkerStarts == WorkerIs("queued", "main") /\ UNCHANGED <<fcall, handle>>

(* smfi_main returns because of a stop; open sessions go on. *)
MainStops ==
  WorkerIs("main", "returned") /\ stopping /\ UNCHANGED <<fcall, handle>>

(* smfi_main returns by itself, with an error. *)
MainFails ==
  WorkerIs("main", "returned") /\ ~ stopping /\ UNCHANGED <<fcall, handle>>

(* Faulty: the cleanup waits for the sessions to end. *)
CleanupReady == connected = {}

(* Nothing but the end of the worker is waited for. *)
CleanupAllowed == worker = "returned"

(* Faulty: the handle stays open while the functions go. *)
HandleAfterCleanup == "open"

(* uv_close. *)
HandleClosing == "closing"

(* milter_cleanup: close the handle first, then reset the functions. *)
Cleanup ==
  /\ WorkerIs("returned", "none")
  /\ CleanupAllowed /\ node = "loop"
  /\ handle' = HandleClosing
  /\ fcall' = NoFunctions

(* libuv finishes the close at the end of the loop iteration. *)
CloseHandle ==
  /\ handle = "closing" /\ node = "loop"
  /\ handle' = "closed"
  /\ UNCHANGED <<serviceVars, startVars, pending, heard, workerVars, node,
                 sessionVars>>

(* The loop lowers the raised handle and calls trigger_event.  A handle    *)
(* that is closing or closed is never served.                              *)
TriggerEvent ==
  /\ pending /\ handle = "open" /\ node = "loop"
  /\ pending' = FALSE
  /\ node' = "trigger_event"
  /\ UNCHANGED <<serviceVars, startVars, handle, heard, workerVars, sessionVars>>

(* The function that FireWrapper of the session's event passes to DoFCall. *)
Called(s) == fcall[kind[s]]

(* Faulty: the event is fired without its lock. *)
NotAwaited(s) == TRUE

(* The lock of the event is free once its thread sleeps, after the raise.  *)
Asleep(s) == s \notin raising

(* trigger_event is over. *)
Returns ==
  /\ node' = "loop"
  /\ UNCHANGED <<startVars, handleVars, workerVars, sessionVars>>

(* trigger_event takes the oldest event, waits until its thread sleeps     *)
(* and calls the script.                                                   *)
FireFirst(s) ==
  /\ node = "trigger_event"
  /\ Deliver(s)
  /\ Asleep(s)
  /\ Called(s) # Null
  /\ Returns

(* DoFCall makes a call on an empty handle. *)
FireDies(s) ==
  /\ node = "trigger_event"
  /\ queue # <<>> /\ s = Head(queue)
  /\ Asleep(s)
  /\ Called(s) = Null
  /\ node' = "dead"
  /\ UNCHANGED <<serviceVars, startVars, handleVars, workerVars, sessionVars>>

(* The queue is empty: `spurious wakeup'. *)
FireNothing ==
  /\ node = "trigger_event"
  /\ queue = <<>>
  /\ Returns
  /\ UNCHANGED serviceVars

-----------------------------------------------------------------------------
(* The threads of libmilter.                                               *)

(* A thread queues the event of its next callback. *)
Queues(s, c) ==
  /\ Alive
  /\ Submit(s)
  /\ kind' = [kind EXCEPT ![s] = c]
  /\ raising' = raising \cup {s}
  /\ UNCHANGED <<startVars, handleVars, workerVars, node>>

(* smfi_main accepts a connection: fi_negotiate queues its event. *)
NewSession(s) ==
  /\ s \notin connected
  /\ worker = "main" /\ ~ stopping
  /\ Queues(s, "negotiate")
  /\ connected' = connected \cup {s}

(* A later callback of a session, whether or not the daemon still runs. *)
NextCallback(s, c) ==
  /\ s \in connected
  /\ c # "negotiate"
  /\ Queues(s, c)
  /\ UNCHANGED connected

(* Faulty: only the event that found the queue empty wakes the loop. *)
WakesIfFirst == handle = "open" /\ Len(queue) = 1

(* Raising a handle that is not open has no effect. *)
Wakes == handle = "open"

(* uv_async_send. *)
AsyncSend(s) ==
  /\ Alive
  /\ s \in raising
  /\ raising' = raising \ {s}
  /\ pending' = (pending \/ Wakes)
  /\ heard' = (heard \/ handle = "open")
  /\ UNCHANGED <<serviceVars, startVars, handle, workerVars, node, connected,
                 kind>>

(* The condition wait returns by itself: generate_event sends again. *)
SpuriousWakeup(s) ==
  /\ Alive
  /\ stage[s] = "queued" /\ s \notin raising
  /\ raising' = raising \cup {s}
  /\ UNCHANGED <<serviceVars, startVars, handleVars, workerVars, node,
                 connected, kind>>

(* generate_event returns; after close the session is over. *)
CallbackReturns(s) ==
  /\ Alive
  /\ Return(s)
  /\ connected' = IF kind[s] = "close" THEN connected \ {s} ELSE connected
  /\ UNCHANGED <<startVars, handleVars, workerVars, node, kind, raising>>

DaemonNext ==
  \/ \E args \in Arguments : Start(args) \/ StartFails(args)
  \/ Stop
  \/ WorkerStarts \/ MainStops \/ MainFails \/ Cleanup \/ CloseHandle
  \/ TriggerEvent \/ FireNothing
  \/ \E s \in Session :
       \/ \E v \in Verdict : ScriptAnswers(s, v)
       \/ FireFirst(s) \/ FireDies(s)
       \/ NewSession(s)
       \/ \E c \in Made : NextCallback(s, c)
       \/ AsyncSend(s)
       \/ SpuriousWakeup(s)
       \/ CallbackReturns(s)

DaemonSpec == DaemonInit /\ [][DaemonNext]_daemonVars

(* The pool runs the worker, smfi_main heeds a stop, and the loop gets to  *)
(* everything it has to do (SF: among other work; the lock of the event,   *)
(* which spurious wakeups may keep taking).  Nothing makes the script      *)
(* answer or a session end.                                                *)
DaemonFairness ==
  /\ WF_daemonVars(WorkerStarts)
  /\ WF_daemonVars(MainStops)
  /\ SF_daemonVars(Cleanup)
  /\ SF_daemonVars(CloseHandle)
  /\ SF_daemonVars(TriggerEvent)
  /\ WF_daemonVars(FireNothing)
  /\ \A s \in Session :
       /\ SF_daemonVars(FireFirst(s) \/ FireDies(s))
       /\ WF_daemonVars(AsyncSend(s))

FairDaemonSpec == DaemonSpec /\ DaemonFairness

-----------------------------------------------------------------------------
(* Types; and a thread raises the handle only for an event that is queued. *)
DaemonTypeOK ==
  /\ ServiceTypeOK
  /\ starts \in Nat /\ current \in 0..starts
  /\ fcall \in [Callback -> Function \cup {Null}]
  /\ handle \in {"none", "open", "closing", "closed"}
  /\ worker \in {"none", "queued", "main", "returned"}
  /\ pending \in BOOLEAN /\ heard \in BOOLEAN /\ stopping \in BOOLEAN
  /\ node \in {"loop", "trigger_event", "dead"}
  /\ connected \in SUBSET Session
  /\ kind \in [Session -> Callback]
  /\ raising \subseteq {s \in connected : stage[s] = "queued"}

(* DoFCall never calls a foreign value: when an event reaches the script,  *)
(* through however many stops, failed starts and restarts it waited in the *)
(* queue, the value called is a function, and the one that the daemon now  *)
(* running was given for that callback at its start.                       *)
RightFunction ==
  [][\A s \in Session :
       stage[s] = "queued" /\ stage'[s] = "delivered" =>
         Called(s) = [type |-> "function", start |-> current]]_daemonVars

(* The node thread dies on an empty function handle in one way only: a     *)
(* start that failed has emptied the handles of the daemon that is up.  A  *)
(* cleanup, which empties them too, never does, whatever is still queued.  *)
OnlyFailedStartKills == ~ Alive => starts > current

(* trigger_event: `launch the appropriate node.js callback for the given   *)
(* event'.  There always is one to launch.                                 *)
CallbackLaunched == Alive

(* Between daemons no Persistent handle keeps the script's functions.      *)
FunctionsReleased == worker = "none" => fcall = NoFunctions

(* Once the handle of a daemon has been raised, the events of all sessions *)
(* are never left in the queue together with no wakeup under way, even if  *)
(* some of them were stranded there by the daemons before it: raises that  *)
(* coalesce and events it inherited never add up to silence.               *)
NeverAllStranded ==
  handle = "open" /\ heard /\ Alive
    /\ (\A s \in Session : stage[s] = "queued" /\ s \notin raising)
  => pending \/ node = "trigger_event"

(* stop ends the daemon even if the script never answers another callback  *)
(* and no session ends - unless the process dies first.                    *)
StopCompletes == stopping ~> Down \/ ~ Alive

(* A callback that a stop left in the queue is delivered by a later daemon *)
(* that stays up, if other sessions keep raising the handle.               *)
StrandedAreRescued ==
  \A s \in Session :
    /\ <>[](handle = "open" /\ Alive)
    /\ []<>(\E t \in Session \ {s} : t \in raising)
    => (stage[s] = "queued" ~> stage[s] = "delivered")

(* trigger_event: `all queued events reach node.js from this point'.       *)
QueuedReachesNode ==
  \A s \in Session : stage[s] = "queued" ~> stage[s] = "delivered"

=============================================================================
