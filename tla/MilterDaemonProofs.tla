------------------------- MODULE MilterDaemonProofs -------------------------
(***************************************************************************)
(* Proofs about MilterDaemon, for any number of sessions, starts and       *)
(* argument lists.                                                         *)
(***************************************************************************)
EXTENDS MilterDaemon, CallbackServiceProofs

(* Visible everywhere: the assumptions, and pure abbreviations. *)
USE DaemonAssumption
  DEF DaemonAssumption, Stage, serviceVars, startVars, handleVars, workerVars,
      sessionVars, WorkerIs, Alive, Returns

(* While events can be delivered, a daemon is up, and every Persistent     *)
(* handle holds a function of the start that brought it up - or, after a   *)
(* later start that failed, none does.                                     *)
FunctionsInstalled ==
  /\ handle = "open" <=> worker # "none"
  /\ node = "trigger_event" => handle = "open"
  /\ handle = "open" =>
       \/ /\ current = starts
          /\ \A c \in Callback :
               fcall[c] = [type |-> "function", start |-> current]
       \/ current < starts /\ fcall = NoFunctions

(* A session inside a callback is one that libmilter has a thread for.     *)
ThreadsConnected == \A s \in Session : stage[s] # "idle" => s \in connected

DaemonInv ==
  /\ DaemonTypeOK
  /\ QueuedOnce
  /\ FunctionsReleased
  /\ FunctionsInstalled
  /\ OnlyFailedStartKills
  /\ ThreadsConnected

USE DEF DaemonInv

-----------------------------------------------------------------------------
(* Every callback has a place among the arguments that start checks.       *)
LEMMA PlaceFacts == \A c \in Callback : Place(c) \in 2..14
  BY DEF Place, Callback

(* What start installs from checked arguments are functions.               *)
LEMMA InstalledFacts ==
  ASSUME NEW args, Checked(args), NEW n \in Nat
  PROVE  /\ Installed(args, n) \in [Callback -> Function \cup {Null}]
         /\ \A c \in Callback :
              Installed(args, n)[c] = [type |-> "function", start |-> n]
<1>1. \A c \in Callback : Argument(args, Place(c)) = "function"
  BY PlaceFacts DEF Checked
<1>2. \A c \in Callback :
        Installed(args, n)[c] = [type |-> "function", start |-> n]
  BY <1>1 DEF Installed
<1>3. [type |-> "function", start |-> n] \in Function
  BY DEF Function, ArgumentType
<1> QED BY <1>2, <1>3 DEF Installed

(* Null is no function.                                                    *)
LEMMA NullNoFunction ==
  \A n \in Nat : Null # [type |-> "function", start |-> n]
  BY DEF Function, ArgumentType

(* Reset handles are typed, too.                                           *)
LEMMA NoFunctionsType == NoFunctions \in [Callback -> Function \cup {Null}]
  BY DEF NoFunctions

(* Before the first start there is nothing.                                *)
LEMMA DaemonInitInv == DaemonInit => DaemonInv
<1> SUFFICES ASSUME DaemonInit PROVE DaemonInv
  OBVIOUS
<1>1. <<>> \in Seq(Session) /\ "close" \in Callback
  BY EmptySeq DEF Callback
<1>2. DaemonTypeOK
  <2>1. starts \in Nat /\ current \in 0..starts
    BY DEF DaemonInit
  <2>2. ServiceTypeOK
    BY <1>1 DEF DaemonInit, ServiceInit, ServiceTypeOK
  <2> QED BY <1>1, <2>1, <2>2, NoFunctionsType DEF DaemonInit, DaemonTypeOK
<1>3. ThreadsConnected
  BY DEF DaemonInit, ServiceInit, ThreadsConnected
<1>4. FunctionsReleased /\ FunctionsInstalled /\ OnlyFailedStartKills
  BY DEF DaemonInit, FunctionsReleased, FunctionsInstalled,
         OnlyFailedStartKills
<1>5. QueuedOnce
  BY EmptyDomain DEF DaemonInit, ServiceInit, QueuedOnce
<1> QED BY <1>2, <1>3, <1>4, <1>5

-----------------------------------------------------------------------------
(* A start that succeeds gives every callback its function.                *)
LEMMA StartStep ==
  ASSUME DaemonInv, NEW args \in Arguments, Start(args)
  PROVE  DaemonInv'
<1>0. /\ starts' = starts + 1 /\ current' = starts + 1
      /\ fcall' = Installed(args, starts + 1)
      /\ Checked(args)
      /\ handle' = "open" /\ worker' = "queued"
      /\ pending' = FALSE /\ heard' = FALSE
      /\ stopping' \in {FALSE, stopping}
      /\ node = "loop"
      /\ UNCHANGED <<stage, queue, verdict, node, connected, kind, raising>>
  BY Zenon DEF Start, InheritedQueue
<1>1. /\ starts' \in Nat /\ current' = starts' /\ current' \in 0..starts'
      /\ fcall' = Installed(args, starts')
      /\ UNCHANGED <<serviceVars, node, sessionVars>>
  BY <1>0 DEF DaemonTypeOK
<1>2. /\ fcall' \in [Callback -> Function \cup {Null}]
      /\ \A c \in Callback :
           fcall'[c] = [type |-> "function", start |-> current']
  BY <1>0, <1>1, InstalledFacts
<1>3. DaemonTypeOK'
  BY <1>0, <1>1, <1>2 DEF DaemonTypeOK, ServiceTypeOK
<1>4. /\ FunctionsReleased' /\ FunctionsInstalled' /\ ThreadsConnected'
      /\ OnlyFailedStartKills'
  BY <1>0, <1>1, <1>2
  DEF FunctionsReleased, FunctionsInstalled, ThreadsConnected,
      OnlyFailedStartKills
<1>5. QueuedOnce'
  BY <1>1 DEF QueuedOnce
<1> QED BY <1>3, <1>4, <1>5

(* A start that fails resets the functions, whether they are its own or    *)
(* those of the daemon that is up.                                         *)
LEMMA StartFailsStep ==
  ASSUME DaemonInv, NEW args \in Arguments, StartFails(args)
  PROVE  DaemonInv'
<1>1. /\ starts' = starts + 1 /\ starts' \in Nat
      /\ current \in 0..starts' /\ current < starts'
      /\ fcall' = NoFunctions
      /\ node = "loop"
      /\ UNCHANGED <<serviceVars, current, handleVars, workerVars, node,
                     sessionVars>>
  BY DEF StartFails, FunctionsAfterFailure, DaemonTypeOK
<1>2. DaemonTypeOK'
  BY <1>1, NoFunctionsType DEF DaemonTypeOK, ServiceTypeOK
<1>3. /\ FunctionsReleased' /\ FunctionsInstalled' /\ ThreadsConnected'
      /\ OnlyFailedStartKills'
  BY <1>1
  DEF FunctionsReleased, FunctionsInstalled, ThreadsConnected, NoFunctions,
      OnlyFailedStartKills
<1>4. QueuedOnce'
  BY <1>1 DEF QueuedOnce
<1> QED BY <1>2, <1>3, <1>4

(* The worker ends and takes handle and functions with it.                 *)
LEMMA CleanupStep ==
  ASSUME DaemonInv, Cleanup
  PROVE  DaemonInv'
<1>1. /\ worker' = "none" /\ handle' = "closing" /\ fcall' = NoFunctions
      /\ node = "loop"
      /\ UNCHANGED <<serviceVars, starts, current, pending, heard, stopping,
                     node, sessionVars>>
  BY DEF Cleanup, HandleClosing
<1>2. DaemonTypeOK'
  BY <1>1, NoFunctionsType DEF DaemonTypeOK, ServiceTypeOK
<1>3. /\ FunctionsReleased' /\ FunctionsInstalled' /\ ThreadsConnected'
      /\ OnlyFailedStartKills'
  BY <1>1
  DEF FunctionsReleased, FunctionsInstalled, ThreadsConnected, NoFunctions,
      OnlyFailedStartKills
<1>4. QueuedOnce'
  BY <1>1 DEF QueuedOnce
<1> QED BY <1>2, <1>3, <1>4

(* The other steps of the script, the worker and the loop outside          *)
(* trigger_event's delivery leave sessions and functions alone.            *)
LEMMA NodeStepInv ==
  ASSUME DaemonInv,
         \/ Stop \/ WorkerStarts \/ MainStops \/ MainFails \/ CloseHandle
         \/ TriggerEvent \/ FireNothing
  PROVE  DaemonInv'
<1>1. /\ UNCHANGED <<serviceVars, startVars, heard, sessionVars>>
      /\ pending' \in BOOLEAN /\ stopping' \in BOOLEAN
      /\ node' \in {"loop", "trigger_event", "dead"}
      /\ node' = "dead" => node = "dead"
  BY DEF Stop, WorkerStarts, MainStops, MainFails, CloseHandle, TriggerEvent,
         FireNothing, DaemonTypeOK
<1>2. /\ worker' \in {"none", "queued", "main", "returned"}
      /\ handle' \in {"none", "open", "closing", "closed"}
      /\ worker' = "none" <=> worker = "none"
      /\ handle' = "open" <=> handle = "open"
      /\ node' = "trigger_event" => handle' = "open"
  BY DEF Stop, WorkerStarts, MainStops, MainFails, CloseHandle, TriggerEvent,
         FireNothing, DaemonTypeOK, FunctionsInstalled
<1>3. DaemonTypeOK'
  BY <1>1, <1>2 DEF DaemonTypeOK, ServiceTypeOK
<1>4. /\ FunctionsReleased' /\ FunctionsInstalled' /\ ThreadsConnected'
      /\ OnlyFailedStartKills'
  BY <1>1, <1>2
  DEF FunctionsReleased, FunctionsInstalled, ThreadsConnected, NoFunctions,
      OnlyFailedStartKills
<1>5. QueuedOnce'
  BY <1>1 DEF QueuedOnce
<1> QED BY <1>3, <1>4, <1>5

(* trigger_event finds no function to call: only a failed start, while the *)
(* daemon was up, can have taken it.                                       *)
LEMMA FireDiesStep ==
  ASSUME DaemonInv, NEW s \in Session, FireDies(s)
  PROVE  DaemonInv'
<1>1. /\ node = "trigger_event" /\ fcall[kind[s]] = Null /\ node' = "dead"
      /\ UNCHANGED <<serviceVars, startVars, handleVars, workerVars,
                     sessionVars>>
  BY DEF FireDies, Called
<1>2. /\ kind[s] \in Callback
      /\ fcall[kind[s]] # [type |-> "function", start |-> current]
  BY <1>1, NullNoFunction DEF DaemonTypeOK
<1>3. current < starts /\ starts \in Nat /\ current \in 0..starts
  BY <1>1, <1>2 DEF FunctionsInstalled, DaemonTypeOK
<1>4. DaemonTypeOK'
  BY <1>1 DEF DaemonTypeOK, ServiceTypeOK
<1>5. /\ FunctionsReleased' /\ FunctionsInstalled' /\ ThreadsConnected'
      /\ OnlyFailedStartKills'
  BY <1>1, <1>3
  DEF FunctionsReleased, FunctionsInstalled, ThreadsConnected, NoFunctions,
      OnlyFailedStartKills
<1>6. QueuedOnce'
  BY <1>1 DEF QueuedOnce
<1> QED BY <1>4, <1>5, <1>6

(* What is left of the invariant when node's side stays as it is.          *)
LEMMA NodeKept ==
  ASSUME DaemonInv, UNCHANGED <<startVars, handle, workerVars>>,
         pending' \in BOOLEAN, heard' \in BOOLEAN,
         node' = node \/ node' = "loop",
         ServiceTypeOK', QueuedOnce',
         kind' \in [Session -> Callback], connected' \in SUBSET Session,
         raising' \subseteq {s \in connected' : stage'[s] = "queued"},
         ThreadsConnected'
  PROVE  DaemonInv'
<1>1. DaemonTypeOK'
  BY DEF DaemonTypeOK
<1>2. FunctionsReleased' /\ FunctionsInstalled' /\ OnlyFailedStartKills'
  BY DEF FunctionsReleased, FunctionsInstalled, NoFunctions,
         OnlyFailedStartKills
<1> QED BY <1>1, <1>2

(* A callback begins: its session is connected and raises the handle.      *)
LEMMA SubmitStep ==
  ASSUME DaemonInv, NEW s \in Session, NEW c \in Callback, Submit(s),
         kind' = [kind EXCEPT ![s] = c], raising' = raising \cup {s},
         connected' = connected \cup {s},
         UNCHANGED <<startVars, handleVars, workerVars, node>>
  PROVE  DaemonInv'
<1>1. /\ ServiceTypeOK' /\ QueuedOnce'
      /\ stage' = [stage EXCEPT ![s] = "queued"]
  BY SubmitQueue DEF DaemonTypeOK
<1>2. /\ kind' \in [Session -> Callback] /\ connected' \in SUBSET Session
      /\ raising' \subseteq {t \in connected' : stage'[t] = "queued"}
      /\ ThreadsConnected'
  BY <1>1 DEF DaemonTypeOK, ServiceTypeOK, ThreadsConnected
<1> QED BY <1>1, <1>2, NodeKept DEF DaemonTypeOK

(* A callback leaves the queue, is answered or returns.                    *)
LEMMA MovesOnStep ==
  ASSUME DaemonInv, NEW s \in Session, s \notin raising,
         NEW st \in Stage, stage' = [stage EXCEPT ![s] = st],
         ServiceTypeOK', QueuedOnce',
         \/ connected' = connected
         \/ st = "idle" /\ connected' = connected \ {s},
         stage[s] # "idle",
         node' = node \/ node' = "loop",
         UNCHANGED <<startVars, handleVars, workerVars, kind, raising>>
  PROVE  DaemonInv'
<1>1. /\ kind' \in [Session -> Callback] /\ connected' \in SUBSET Session
      /\ raising' \subseteq {t \in connected' : stage'[t] = "queued"}
      /\ ThreadsConnected'
  BY DEF DaemonTypeOK, ServiceTypeOK, ThreadsConnected
<1> QED BY <1>1, NodeKept DEF DaemonTypeOK

(* A delivered callback is one that was queued, by a connected session.    *)
LEMMA SessionStepInv ==
  ASSUME DaemonInv, NEW s \in Session,
         \/ \E v \in Verdict : ScriptAnswers(s, v)
         \/ NewSession(s)
         \/ \E c \in Made : NextCallback(s, c)
         \/ AsyncSend(s)
         \/ SpuriousWakeup(s)
         \/ CallbackReturns(s)
  PROVE  DaemonInv'
<1>1. ASSUME NEW v \in Verdict, ScriptAnswers(s, v)
      PROVE  DaemonInv'
  <2>1. /\ stage[s] = "delivered"
        /\ stage' = [stage EXCEPT ![s] = "answered"]
        /\ ServiceTypeOK' /\ QueuedOnce'
        /\ UNCHANGED <<startVars, handleVars, workerVars, node, sessionVars>>
    <3>1. Answer(s, v) /\ UNCHANGED <<startVars, handleVars, workerVars, node,
                                      sessionVars>>
      BY <1>1 DEF ScriptAnswers
    <3> QED BY <3>1, OtherQueue DEF Answer, DaemonTypeOK
  <2>2. s \notin raising
    BY <2>1 DEF DaemonTypeOK
  <2> QED BY <2>1, <2>2, MovesOnStep DEF DaemonTypeOK
<1>2. ASSUME NewSession(s)
      PROVE  DaemonInv'
  <2>1. "negotiate" \in Callback
    BY DEF Callback
  <2> QED BY <1>2, <2>1, SubmitStep DEF NewSession, Queues
<1>3. ASSUME NEW c \in Made, NextCallback(s, c)
      PROVE  DaemonInv'
  <2>1. c \in Callback /\ connected' = connected \cup {s}
    BY <1>3 DEF NextCallback, Queues, DaemonTypeOK
  <2> QED BY <1>3, <2>1, SubmitStep DEF NextCallback, Queues
<1>4. CASE AsyncSend(s)
  <2>1. /\ raising' \subseteq raising
        /\ pending' \in BOOLEAN /\ heard' \in BOOLEAN
        /\ UNCHANGED <<serviceVars, startVars, handle, workerVars, node,
                       connected, kind>>
    BY <1>4 DEF AsyncSend, DaemonTypeOK
  <2>2. ServiceTypeOK' /\ QueuedOnce' /\ ThreadsConnected'
    BY <2>1 DEF DaemonTypeOK, ServiceTypeOK, QueuedOnce, ThreadsConnected
  <2>3. raising' \subseteq {t \in connected' : stage'[t] = "queued"}
    BY <2>1 DEF DaemonTypeOK
  <2> QED BY <2>1, <2>2, <2>3, NodeKept DEF DaemonTypeOK
<1>5. CASE SpuriousWakeup(s)
  <2>1. /\ raising' = raising \cup {s} /\ stage[s] = "queued"
        /\ UNCHANGED <<serviceVars, startVars, handleVars, workerVars, node,
                       connected, kind>>
    BY <1>5 DEF SpuriousWakeup
  <2>2. ServiceTypeOK' /\ QueuedOnce' /\ ThreadsConnected'
    BY <2>1 DEF DaemonTypeOK, ServiceTypeOK, QueuedOnce, ThreadsConnected
  <2>3. raising' \subseteq {t \in connected' : stage'[t] = "queued"}
    BY <2>1 DEF DaemonTypeOK, ThreadsConnected
  <2> QED BY <2>1, <2>2, <2>3, NodeKept DEF DaemonTypeOK
<1>6. CASE CallbackReturns(s)
  <2>1. /\ stage[s] = "answered"
        /\ stage' = [stage EXCEPT ![s] = "idle"]
        /\ ServiceTypeOK' /\ QueuedOnce'
        /\ UNCHANGED <<startVars, handleVars, workerVars, node, kind,
                         raising>>
        /\ connected' = connected \/ connected' = connected \ {s}
    <3>1. /\ Return(s)
          /\ UNCHANGED <<startVars, handleVars, workerVars, node, kind,
                         raising>>
          /\ connected' = connected \/ connected' = connected \ {s}
      BY <1>6 DEF CallbackReturns
    <3> QED BY <3>1, OtherQueue DEF Return, DaemonTypeOK
  <2>2. s \notin raising
    BY <2>1 DEF DaemonTypeOK
  <2> QED BY <2>1, <2>2, MovesOnStep DEF DaemonTypeOK
<1> QED BY <1>1, <1>2, <1>3, <1>4, <1>5, <1>6

(* A delivered event was queued, its thread sleeps, and the handle was     *)
(* open to serve it.                                                       *)
LEMMA FireFirstStep ==
  ASSUME DaemonInv, NEW s \in Session, FireFirst(s)
  PROVE  DaemonInv' /\ handle = "open" /\ fcall # NoFunctions
<1>1. /\ node = "trigger_event" /\ handle = "open"
      /\ Deliver(s)
      /\ s \notin raising
      /\ node' = "loop"
      /\ UNCHANGED <<startVars, handleVars, workerVars, sessionVars>>
  BY DEF FireFirst, Asleep, FunctionsInstalled
<1>2. /\ ServiceTypeOK' /\ QueuedOnce'
      /\ stage[s] = "queued"
      /\ stage' = [stage EXCEPT ![s] = "delivered"]
  BY <1>1, DeliverQueue DEF DaemonTypeOK
<1>3. fcall # NoFunctions
  BY DEF FireFirst, Called, NoFunctions, DaemonTypeOK
<1> QED BY <1>1, <1>2, <1>3, MovesOnStep DEF DaemonTypeOK

(* Every step of the daemon and its sessions preserves the invariant.      *)
LEMMA DaemonNextInv == DaemonInv /\ [DaemonNext]_daemonVars => DaemonInv'
<1> SUFFICES ASSUME DaemonInv, [DaemonNext]_daemonVars PROVE DaemonInv'
  OBVIOUS
<1>1. CASE UNCHANGED daemonVars
  BY <1>1
  DEF daemonVars, DaemonTypeOK, ServiceTypeOK, QueuedOnce, FunctionsReleased,
      FunctionsInstalled, ThreadsConnected, NoFunctions, OnlyFailedStartKills
<1>2. CASE DaemonNext
  BY <1>2, StartStep, StartFailsStep, CleanupStep, NodeStepInv, FireDiesStep,
     SessionStepInv, FireFirstStep
  DEF DaemonNext
<1> QED BY <1>1, <1>2

(* Handles, functions and queue agree in every reachable state.            *)
THEOREM DaemonInvariance == DaemonSpec => []DaemonInv
  BY DaemonInitInv, DaemonNextInv, PTL DEF DaemonSpec

(* The types of the daemon's variables.                                    *)
THEOREM DaemonTypes == DaemonSpec => []DaemonTypeOK
<1>1. DaemonInv => DaemonTypeOK
  OBVIOUS
<1> QED BY <1>1, DaemonInvariance, PTL

(* A daemon that is gone, or never came up, keeps no function alive.       *)
THEOREM NoFunctionKept == DaemonSpec => []FunctionsReleased
<1>1. DaemonInv => FunctionsReleased
  OBVIOUS
<1> QED BY <1>1, DaemonInvariance, PTL

(* However many starts fail and whatever waits in the queue when a daemon  *)
(* goes or comes: the node thread dies for want of a function only in the  *)
(* one case that the property names.                                       *)
THEOREM DiesOnlyOfFailedStart == DaemonSpec => []OnlyFailedStartKills
<1>1. DaemonInv => OnlyFailedStartKills
  OBVIOUS
<1> QED BY <1>1, DaemonInvariance, PTL

-----------------------------------------------------------------------------
(* The wakeups: raises coalesce, and not all sessions are asleep in the    *)
(* queue without one.                                                      *)

(* What the induction needs besides: only a session raises the handle.     *)
Heard == heard => Session # {}

WakeupInv == NeverAllStranded /\ Heard

(* Nobody sleeps at the start.                                             *)
LEMMA WakeupInit == DaemonInit => WakeupInv
  BY DEF DaemonInit, WakeupInv, NeverAllStranded, Heard

(* trigger_event finds the queue empty: then no session is in it.          *)
LEMMA NothingQueued ==
  ASSUME DaemonInv, queue = <<>>
  PROVE  \A s \in Session : stage[s] # "queued"
  BY EmptyDomain DEF QueuedOnce

(* A step of the script, the worker or the loop: a new daemon has not been *)
(* heard of, trigger_event begins on a wakeup and ends on an empty queue.  *)
LEMMA WakeupNodeStep ==
  ASSUME DaemonInv, WakeupInv,
         \/ \E args \in Arguments : Start(args) \/ StartFails(args)
         \/ Stop \/ WorkerStarts \/ MainStops \/ MainFails \/ Cleanup
         \/ CloseHandle \/ TriggerEvent \/ FireNothing
         \/ \E s \in Session : FireDies(s)
  PROVE  WakeupInv'
<1>1. ASSUME NEW args \in Arguments, Start(args)
      PROVE  WakeupInv'
  <2>1. heard' = FALSE
    BY <1>1 DEF Start
  <2> QED BY <2>1 DEF WakeupInv, NeverAllStranded, Heard
<1>2. ASSUME NEW args \in Arguments, StartFails(args)
      PROVE  WakeupInv'
  BY <1>2 DEF StartFails, WakeupInv, NeverAllStranded, Heard
<1>3. CASE Stop \/ WorkerStarts \/ MainStops \/ MainFails
  BY <1>3
  DEF Stop, WorkerStarts, MainStops, MainFails, WakeupInv, NeverAllStranded,
      Heard
<1>4. CASE Cleanup \/ CloseHandle \/ TriggerEvent
           \/ \E s \in Session : FireDies(s)
  BY <1>4
  DEF Cleanup, HandleClosing, CloseHandle, TriggerEvent, FireDies, WakeupInv,
      NeverAllStranded, Heard
<1>5. CASE FireNothing
  <2>1. queue = <<>> /\ UNCHANGED <<stage, heard>>
    BY <1>5 DEF FireNothing
  <2>2. \A s \in Session : stage'[s] # "queued"
    BY <2>1, NothingQueued
  <2> QED BY <2>1, <2>2 DEF WakeupInv, NeverAllStranded, Heard
<1> QED BY <1>1, <1>2, <1>3, <1>4, <1>5

(* A step of a session's callback: only a raise takes a session's word     *)
(* back, and leaves a wakeup for it.                                       *)
LEMMA WakeupSessionStep ==
  ASSUME DaemonInv, WakeupInv, NEW s \in Session,
         \/ \E v \in Verdict : ScriptAnswers(s, v)
         \/ FireFirst(s)
         \/ NewSession(s)
         \/ \E c \in Made : NextCallback(s, c)
         \/ AsyncSend(s)
         \/ SpuriousWakeup(s)
         \/ CallbackReturns(s)
  PROVE  WakeupInv'
<1>1. CASE \/ \E v \in Verdict : ScriptAnswers(s, v)
           \/ FireFirst(s)
           \/ CallbackReturns(s)
  <2>1. heard' = heard
    BY <1>1 DEF ScriptAnswers, FireFirst, CallbackReturns
  <2>2. stage'[s] # "queued"
    BY <1>1
    DEF ScriptAnswers, FireFirst, CallbackReturns, Answer, Deliver, Return,
        DaemonTypeOK, ServiceTypeOK
  <2> QED BY <2>1, <2>2 DEF WakeupInv, NeverAllStranded, Heard
<1>2. CASE \/ NewSession(s)
           \/ \E c \in Made : NextCallback(s, c)
           \/ SpuriousWakeup(s)
  <2>1. heard' = heard /\ s \in raising'
    BY <1>2 DEF NewSession, NextCallback, Queues, SpuriousWakeup
  <2> QED BY <2>1 DEF WakeupInv, NeverAllStranded, Heard
<1>3. CASE AsyncSend(s)
  BY <1>3 DEF AsyncSend, Wakes, WakeupInv, NeverAllStranded, Heard
<1> QED BY <1>1, <1>2, <1>3

(* Whatever a stop has stranded and however raises coalesce, a daemon that *)
(* has heard one raise never has all sessions asleep and no wakeup on its  *)
(* way.                                                                    *)
THEOREM SomeoneIsServed == DaemonSpec => []NeverAllStranded
<1>1. DaemonInv /\ WakeupInv /\ [DaemonNext]_daemonVars => WakeupInv'
  <2> SUFFICES ASSUME DaemonInv, WakeupInv, [DaemonNext]_daemonVars
               PROVE  WakeupInv'
    OBVIOUS
  <2>1. CASE UNCHANGED daemonVars
    BY <2>1 DEF daemonVars, WakeupInv, NeverAllStranded, Heard
  <2>2. CASE DaemonNext
    BY <2>2, WakeupNodeStep, WakeupSessionStep DEF DaemonNext
  <2> QED BY <2>1, <2>2
<1>2. WakeupInv => NeverAllStranded
  BY DEF WakeupInv
<1> QED BY <1>1, <1>2, WakeupInit, DaemonInvariance, PTL DEF DaemonSpec

-----------------------------------------------------------------------------
(* Only trigger_event hands a queued callback to the script.               *)
LEMMA OnlyFireDelivers ==
  ASSUME DaemonInv, DaemonNext, NEW s \in Session,
         stage[s] = "queued", stage'[s] = "delivered"
  PROVE  \E t \in Session : FireFirst(t)
<1>1. ASSUME NEW t \in Session,
             \/ \E v \in Verdict : ScriptAnswers(t, v)
             \/ NewSession(t)
             \/ \E c \in Made : NextCallback(t, c)
             \/ AsyncSend(t)
             \/ SpuriousWakeup(t)
             \/ CallbackReturns(t)
      PROVE  FALSE
  <2>1. \/ \E v \in Verdict : Answer(t, v)
        \/ Submit(t) \/ Return(t) \/ stage' = stage
    BY <1>1
    DEF ScriptAnswers, NewSession, NextCallback, Queues, AsyncSend,
        SpuriousWakeup, CallbackReturns
  <2> QED
    BY <2>1 DEF Answer, Submit, Return, DaemonTypeOK, ServiceTypeOK
<1>2. ASSUME \/ \E args \in Arguments : Start(args) \/ StartFails(args)
             \/ Stop \/ WorkerStarts \/ MainStops \/ MainFails \/ Cleanup
             \/ CloseHandle \/ TriggerEvent \/ FireNothing
             \/ \E t \in Session : FireDies(t)
      PROVE  FALSE
  <2>1. stage' = stage
    BY <1>2
    DEF Start, StartFails, Stop, WorkerStarts, MainStops, MainFails, Cleanup,
        CloseHandle, TriggerEvent, FireNothing, FireDies
  <2> QED BY <2>1
<1> QED BY <1>1, <1>2 DEF DaemonNext

(* Whatever it waited through in the queue, a callback that reaches the    *)
(* script is made on the function that the daemon which is up was given    *)
(* for it when it started: neither a function of an earlier daemon nor one *)
(* of a later start that failed.                                           *)
THEOREM FunctionsRight == DaemonSpec => RightFunction
<1> DEFINE Right ==
      \A s \in Session :
        stage[s] = "queued" /\ stage'[s] = "delivered" =>
          Called(s) = [type |-> "function", start |-> current]
<1>1. DaemonInv /\ [DaemonNext]_daemonVars => [Right]_daemonVars
  <2> SUFFICES ASSUME DaemonInv, DaemonNext PROVE Right
    BY DEF daemonVars
  <2> TAKE s \in Session
  <2> HAVE stage[s] = "queued" /\ stage'[s] = "delivered"
  <2>1. handle = "open" /\ fcall # NoFunctions
    BY OnlyFireDelivers, FireFirstStep
  <2>2. kind[s] \in Callback
    BY DEF DaemonTypeOK
  <2> QED BY <2>1, <2>2 DEF Called, FunctionsInstalled
<1> QED BY <1>1, DaemonInvariance, PTL DEF DaemonSpec, RightFunction

(* The daemon's comings and goings are no steps of the service: a start, a *)
(* stop, a cleanup or a wakeup neither queues, drops, reorders nor answers *)
(* a callback.                                                             *)
LEMMA DaemonStepServes ==
  ASSUME [DaemonNext]_daemonVars
  PROVE  [ServiceNext]_serviceVars
<1>1. CASE UNCHANGED daemonVars
  BY <1>1 DEF daemonVars
<1>2. ASSUME NEW args \in Arguments, Start(args) \/ StartFails(args)
      PROVE  UNCHANGED serviceVars
  BY <1>2 DEF Start, InheritedQueue, StartFails
<1>3. CASE Stop \/ WorkerStarts \/ MainStops \/ MainFails \/ Cleanup
           \/ CloseHandle \/ TriggerEvent \/ FireNothing
  BY <1>3
  DEF Stop, WorkerStarts, MainStops, MainFails, Cleanup, CloseHandle,
      TriggerEvent, FireNothing
<1>4. ASSUME NEW s \in Session,
             \/ \E v \in Verdict : ScriptAnswers(s, v)
             \/ FireFirst(s)
             \/ NewSession(s)
             \/ \E c \in Made : NextCallback(s, c)
             \/ CallbackReturns(s)
      PROVE  ServiceNext
  BY <1>4
  DEF ServiceNext, ScriptAnswers, FireFirst, NewSession, NextCallback, Queues,
      CallbackReturns
<1>5. ASSUME NEW s \in Session,
             AsyncSend(s) \/ SpuriousWakeup(s) \/ FireDies(s)
      PROVE  UNCHANGED serviceVars
  BY <1>5 DEF AsyncSend, SpuriousWakeup, FireDies
<1> QED BY <1>1, <1>2, <1>3, <1>4, <1>5 DEF DaemonNext

(* Over any number of daemons, sessions are served by one CallbackService: *)
(* in the order they were queued, at most once, with their own verdicts.   *)
THEOREM DaemonServes == DaemonSpec => ServiceSpec
<1>1. DaemonInit => ServiceInit
  BY DEF DaemonInit
<1> QED BY <1>1, DaemonStepServes, PTL DEF DaemonSpec, ServiceSpec

=============================================================================
