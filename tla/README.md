# A TLA+ model of node-milter

node-milter lets a node.js script act as a mail filter ("milter"). libmilter
is a threaded C library that calls back on a thread of its own for every mail
session; node.js runs the script on one thread. The addon is the multiplexer
between them, and nearly everything that can go wrong in it is a matter of who
runs when. This directory models that multiplexer, checks it with TLC on small
instances and proves its safety with TLAPS for every instance.

## 1. The system

| Part | State | Operations | Talks to |
|---|---|---|---|
| Callbacks `fi_*` and `generate_event` (milter.cc 101-420) | the frame of one libmilter thread: the event, the return value | construct an event, queue it, raise the async handle, sleep, take the verdict, delete the event | queue, event, async handle |
| Queue (`struct bindings`, milter.h) | `first`, `last`, the `ev_next` links, `lck_queue` | append (libmilter threads), unlink (node thread) | shared by all threads |
| `MilterEvent` (events.h, events.cc) | `is_done`, `fi_retval`, `ev_next`, `smfi_context`, `fi_envelope`, a mutex and a condition | Lock, Unlock, Wait, Append, Detatch, Fire, Done | handed from a libmilter thread to the node thread and back |
| `trigger_event` (milter.cc 41-92) | the local `ev` | lock the queue, unlink one event, lock it, fire it | called by libuv after `uv_async_send` |
| `Envelope` (envelope.h, envelope.cc) | `current_event`, `smfi_context` | `done`, `negotiate`, `setreply`, `getsymval`, the end-of-message modifiers | called by the script, at any time |
| Session (`envelope_t`, milter.h 61-74) | the back pointer `local`, the Persistent handle of the Envelope | created by `fi_negotiate`, deleted by `fi_close` | libmilter private data |
| Daemon (milter.cc 426-579, 650-656) | `app`: queue, async handle, work request, thirteen Persistent callbacks | `start`, `milter_worker`, `milter_cleanup`, `stop` | libuv thread pool |
| Settings (milter.cc 584-645, 661-674) | none | `setbacklog`, `setdbg`, `settimeout`, `version` | libmilter |
| Initialisation (milter.cc 680-730), `lib/milter.js` | none | export functions and constants | |

What is hard here:

- *Hand-off.* An event is locked by its libmilter thread when it enters the
  queue and unlocked only by that thread's condition wait; the node thread
  unlinks it, blocks on its mutex with the queue lock held, and then keeps the
  mutex across the script's callback and for as long as the script likes to
  think about it (`setTimeout`, `setImmediate`), until `done()` unlocks it.
- *Wakeups.* `uv_async_send` coalesces, `trigger_event` unlinks one event per
  call, and condition waits may end by themselves.
- *Lifetime.* The thread deletes its event as soon as it sees it done. The
  queue, `trigger_event`, the envelope and a `Done` that has not returned all
  hold pointers to it, and the allocator reuses addresses.
- *Late context.* `generate_event` writes the libmilter context into the event
  after it has given up the queue lock.
- *Failing calls.* Every lock may fail, each failure with its own way out.
- *The script.* It may answer from the callback or ticks later, interleaved
  with the callbacks of other sessions, twice, or never.
- *Stopping.* `stop` ends `smfi_main`, and `milter_cleanup` closes the async
  handle and drops the script's functions, while the threads of open sessions go
  on; the queue and what is in it outlive the daemon, and the next `start`
  inherits them.

What makes each part correct: the list always spells the queued events in
order; an event is in one place at a time; whoever completes an event owns its
mutex and its thread is asleep; no live pointer to a deleted event; each
callback gets its own verdict; queued events are fired; the envelope methods
act on the session and stage they were called for; the daemon can stop and
start without stranding a thread.

## 2. Modules

| Module | Models |
|---|---|
| `CallbackService` | what the multiplexer promises: one callback per session, delivered in queueing order, at most once, answered with the script's verdict or refused with TEMPFAIL |
| `LossyService` | the same promise when calls may fail: at two moments a callback may be lost, and that costs no other callback anything |
| `EventBridge` | `generate_event`, `trigger_event`, `MilterEvent` and the answering half of `Envelope`, one action per locked or atomic step; ends with the properties and the refinement mappings to `CallbackService` and `LossyService` |
| `EventBridgeInv` | the inductive invariant `IInv` of `EventBridge` |
| `BridgeLocks` | what the two kinds of mutex are there for: who waits for whom, which memory each thread is about to touch, when an event is destroyed |
| `MilterSession` | extends `CallbackService` with what a session is made of: libmilter's order of callbacks, `envelope_t`, the Persistent handle, the Envelope object and its methods |
| `CarelessScript` | extends `EventBridge` with a script that calls `done()` again |
| `MilterDaemon` | extends `CallbackService` with the daemon: `start`, `milter_worker`, `milter_cleanup`, `stop`, the async handle, the installed functions |
| `MCEventBridge`, `MCMilterSession`, `MCMilterDaemon` | symmetry sets and argument lists for TLC |
| `QueueFacts` | lemmas about `Append` and `Tail`, which the proof modules use |
| `CallbackServiceProofs`, `EventBridgeProofs`, `BridgeLocksProofs`, `BridgeRefinementProofs`, `BridgeLossyProofs`, `MilterSessionProofs`, `MilterDaemonProofs` | the TLAPS proofs |

The parts meet in `CallbackService`: `EventBridge` implements it (checked and
proved), and the actions of `MilterSession` and `MilterDaemon` that move a callback
are its actions with something around them. With failing calls
`EventBridge` implements `LossyService` instead, of which `CallbackService` is the
case `Losable = {}`.

### EventBridge and the code

A session `s` stands for a libmilter thread, its `SMFICTX` and its
`envelope_t`: libmilter runs one callback of a session at a time, so the three
go together. `pc[s]` is the next step of the thread:

| `pc` | Code (milter.cc) | Leaving it |
|---|---|---|
| `idle` | in libmilter | `Construct`: `new MilterX(env, ...)` in `fi_*` |
| `lock_queue` | 106 | `LockQueue`, or `LockQueueFails` (109) |
| `enqueue` | 113-135 | `Enqueue`, or `EnqueueFails` (113-123) |
| `unlock_queue` | 138 | `UnlockQueue` |
| `set_context` | 145 | `SetMilterContext` |
| `send` | 153 | `AsyncSend` |
| `wait` | 156 | `Wait`: the mutex is released atomically with going to sleep |
| `waiting` | asleep | `Done`'s signal, or `SpuriousWakeup` |
| `relock` | in `pthread_cond_wait` | `Relock` |
| `check` | 161 | `TakeResult` (165-173), or `Retry` (162-153) |
| `delete` | `delete event` in `fi_*` | `Delete` |

The node thread has `npc` (the event loop, the five stages of `trigger_event`,
or the script's callback) and, on top of the loop or of the callback, the frame
of a running `MilterEvent::Done` (`done_pc`). `Done` up to the signal is one
action: everything it writes is protected by the event's mutex, which the node
thread holds. Its unlock and its last read are steps of their own, because the
libmilter thread runs between them.

Events are addresses in `Event`; `heap` holds the allocated ones, so a freed
address can come back as another session's event, as malloc does.
`smfi_context` is `Null` from construction (the constructor does not initialise
it) until `SetMilterContext`. `pending` is the state of the async handle.
`owes` holds the sessions whose callback was fired and not answered; the model's
script answers each callback once, when it likes, in any order.

`Failing` names the calls that may return an error. Failing unlocks are left
out: the code prints a message (in `MilterEvent::Done` it throws a JavaScript
exception into the script) and goes on as if they had succeeded.

`CarelessScript` adds `DoneAgain`: `done()` on an Envelope whose callback has been
answered. `current_event` still has the old address, so the call does to the
event that lives there what `MilterEvent::Done` does, without holding its mutex.
On an address that holds no event it would run on freed memory; that has no
outcome to model.

Every `(* Faulty: ... *)` operator is a wrong version of a definition
near it and is used nowhere in the model; it documents, for the property it
breaks, the mistake the property would catch.

### MilterSession and the code

`callback[s]` is the last callback libmilter made in session `s`; `After` gives
the callbacks it may make next (libmilter's order, which verdicts only shorten,
so any message may be aborted and any connection closed; it goes by the last
command alone, so after an unknown command in the middle of a message anything
may follow that follows one). `FiNegotiate`,
`FiCallback` and `FiReturn` are the `fi_*` functions up to and after their wait
in `generate_event`; `FireNegotiate` and `FireCallback` are `Prefire` and `Fire`;
`Done` is `Envelope::Done` with `Postfire`. `object[s]` is
`envelope_t::object`. `kind[o]` is the type of the event an Envelope's
`current_event` was last set to, and `o \in live` says that this event still
exists: the pointer itself is never reset. A method called on an Envelope whose
event is deleted reads freed memory, so its stage check may see any event type.
`modify` stands for `progress`, `addheader`, `quarantine` and `chgfrom`, which
have the same check. Methods that throw change nothing and are no steps.

When `fi_close` deletes the `envelope_t`, its Persistent handle goes away as it
is: if `Postfire` has not reset it, the Envelope stays in the V8 heap for good and
nothing refers to it any more. The model lets `Collect` use its identity again,
which no property can tell from an unbounded supply of objects.

A careful script (`Late = FALSE`) uses an Envelope only while it owes the answer
of that session's callback; with `Late = TRUE` it uses any Envelope it still
has, at any time. Either way it calls `done` once per callback.

### MilterDaemon and the code

| Action | Code (milter.cc) |
|---|---|
| `Start(args)`, `StartFails(args)` | `milter_start` (470-579): the checks, the thirteen `Reset`s, then both libmilter calls succeed, or one fails and the functions are reset |
| `Stop` | `milter_stop` (650-656) |
| `WorkerStarts`, `MainStops`, `MainFails` | `milter_worker` (426-433) on a thread of libuv's pool; `smfi_main` returns because of a stop, or with an error |
| `Cleanup`, `CloseHandle` | `milter_cleanup` (439-465), and libuv's end of `uv_close` |
| `TriggerEvent`, `FireFirst`, `FireNothing` | the loop serves the handle: `trigger_event` (41-92), which blocks until the event's thread sleeps, and `FireWrapper`'s choice of a function (`Called`) |
| `FireDies` | `DoFCall` (events.cc 157-164) on an empty function handle: the call has no function to run, and the process ends |
| `NewSession`, `NextCallback`, `AsyncSend`, `SpuriousWakeup`, `CallbackReturns` | `fi_*` and `generate_event`, coarser than in `EventBridge`: queue the event, later raise the handle, perhaps again |
| `ScriptAnswers` | `done()` |

`node` is where the node thread is: in the event loop or the script's code, in
`trigger_event`, or dead, after which no thread takes a step. `fcall[c]` remembers the type of the value that a `start` installed for callback
`c`, and which start it was; `current` is the start that brought the last daemon up, and
`heard` says that its handle has been raised since. Both are history. An argument list is a sequence of types; an argument
beyond the end of the list is `"undefined"`, as in V8. `raising` holds the sessions
whose thread has queued its event and is before `uv_async_send`; raising a
handle that is not open has no effect. `connected` sessions make callbacks
whatever becomes of the daemon, since `smfi_stop` does not end them; only new
ones need a running `smfi_main`. The order of the callbacks is `MilterSession`'s
subject and is left open here, but for negotiate first and nothing after close.

A `start` that fails may come at any time: it returns before it touches the
handle or the request, so all it does to a daemon that is running is to take its
functions away. A `start` that succeeds is a step only when no daemon runs and the
old handle is closed (`Down`). The code does not check this; `uv_async_init` on a
handle in use, and a second `smfi_main`, have no defined outcome. Nor does
anything tell the script when it is so, as the `end` callback planned at line 464
is not there. The refusals of `CallbackService` (a queue lock that fails) are left
to the bridge.

## 3. Properties and runs

| Run | Instance | Shows |
|---|---|---|
| `BridgeSafety` | 3 sessions, 3 addresses, 1 verdict, nothing fails, symmetry | `TypeOK`, `QueueRepresentsLine` (list and history agree), `HandOff` (the script owns what it must answer), `ContextKnown`, `LiveEvents`, `Accounted` (one place per event), `NeverAllAsleep` |
| `BridgeFaults` | 2 sessions, 2 addresses, 2 verdicts, all five calls may fail, symmetry | the inductive invariant and the two ownership properties survive every error path; `NoCircularWait`, `NoDataRace` and `DestroyedAtRest` (the locks do their work on each of them); `ImplementsLossyService` (a failure costs at most the callback it hits) |
| `BridgeRefinement` | 2 sessions, 2 addresses, 2 verdicts, the failures that refuse a callback | `ImplementsService` |
| `BridgeProgress` | 2 sessions, 2 addresses, fair; the script need not answer | `AnsweredReturns`, `RescuedByTraffic`, `AloneReturns` |
| `BridgeLostWakeup` | 2 sessions, fair, the script answers | refutes `EveryEventFires` |
| `BridgeDoneReturn` | 2 sessions | refutes `DoneReturnsTrue` |
| `BridgeDoneTwice` | 2 sessions, a script that answers twice | refutes `DoneNeedsContext` |
| `SessionCareful` | 2 sessions, 2 objects, careful script, five callbacks of a session and its close may be refused | `SessionTypeOK`, `EnvelopeOfSession`, `HandleFromConnectToClose`, `MethodsInStage`, `HandlesReleased` (a handle outlives its session only if close was refused) |
| `SessionLateModifier` | a careless script | refutes `ModifiersAtEndOfMessage` |
| `DaemonLife` | 2 sessions, 3 starts, fair | `DaemonTypeOK`, `FunctionsReleased`, `RightFunction` (an event meets a function of the running daemon), `OnlyFailedStartKills`, `NeverAllStranded` (coalesced raises and inherited events never silence a daemon), `StopCompletes`, `StrandedAreRescued` |
| `DaemonFailedStart` | 1 session, 2 starts | refutes `CallbackLaunched` |
| `DaemonStop` | 1 session, 1 start, fair | refutes `QueuedReachesNode` |

*Losses.* `Lost(s)` says that a thread is in its wait loop with its event in no place.
The mapping to `LossyService` calls that stage `"lost"`, and `Losable` is computed from
`Failing`: a queued callback may be lost only if `trigger_event`'s lock of an event
can fail, a delivered one only if the signal can. Which error paths lose a
callback is thus part of what is checked, not an assumption.

*Data races.* `ThreadTouches` and `NodeTouches` name the memory that the next
step of a thread reads or writes. An answer the script owes counts all the time,
since it may come at any moment. Two things are left out. The read of `is_done`
with which `MilterEvent::Done` ends does race; `BridgeDoneReturn` shows it. And an
event that is not in the queue yet is its own thread's alone while it is constructed.

*Bounds.* No counter of `EventBridge` or `MilterSession` is bounded: the state
space is finite because a session has one event at a time. Three sessions give a queue with a first, a middle and
a last element, and a thread in every phase of `generate_event` while another
is being served. As many addresses as sessions are the least that
never block an allocation, and make reuse immediate. Verdicts matter only where
they are compared (refinement), so the big safety run has one. Sessions
interact in `MilterSession` only through the service's queue and the objects;
two of each let one session end and start again with an object the other had,
while a script still holds an old one. Close is among the
refused callbacks of `SessionCareful`, negotiate is not: a refused negotiate leaves
the session without an object, the next event restores an empty handle, and
`ObjectWrap::Unwrap` aborts the process. `HandleFromConnectToClose` does not hold
there, which is why `HandleAtHand` below has a hypothesis.

`MilterDaemon` counts the starts that get past their checks up to `MaxStarts`;
three of them are a daemon, a failed start under it or after it and a later
daemon, or three daemons in a row. `Arguments` holds well-typed lists of 13 to 15 values, around the 14 that
`start` asks for and the 15 it uses, and every list of 15 with one wrong type.
`Made` has a callback that begins a session, one in the middle and the last; the
thirteen functions themselves are all there.

*Fairness.* `FairSpec` asks that every runnable thread runs (weak fairness of
its steps), that a contended mutex is not refused for ever (strong fairness of
the lock steps, as spurious wakeups can take the event's mutex again and
again), and that the event loop serves a raised handle (strong, as it does so
between other work). Nothing makes libmilter call back, makes a wait end
without a signal, or makes the script answer: a script whose callback throws
while an `uncaughtException` handler keeps the process alive, as test-async.js
has one, simply never does. `AloneReturns` has the answers as its hypothesis.
`AnsweringSpec`, which does assume that the script answers, is used only to show
that `EveryEventFires` fails even then.

`DaemonFairness` runs the pool's worker, lets `smfi_main` heed a stop, and lets the
loop get to the cleanup, the closing handle, the raised handle and the event's
mutex. `StrandedAreRescued` assumes as hypotheses that the later daemon stays up
and that other sessions keep raising the handle.

*Deadlock* is checked in every run but the three of the daemon: there the system may
stop for good, with the daemon down, the starts used up and every session over or
asleep in a stranded callback, or with the process dead.

### What the checks found

- **Lost wakeup** (milter.cc:61, 153). Two threads queue an event each and raise
  the handle before the loop serves it. libuv coalesces the two raises into one
  call of `trigger_event`, which unlinks one event. The other stays queued, its
  thread asleep, until something raises the handle again. The comment at
  milter.cc:38 says that all queued events reach node.js. `RescuedByTraffic`
  and `NeverAllAsleep` say how far the damage goes: the next callback of any
  other session brings a wakeup, but each wakeup serves one event, so a session
  can be one behind for as long as it lasts; while a session is alone
  (`AloneReturns`) it cannot happen.
- **Read after unlock** (events.cc:98). `MilterEvent::Done` returns a field of
  an event that its thread may have deleted. The caller ignores the value.
- **Stage checks after `done()`** (envelope.cc:399 and its like). `current_event`
  is never reset, so the NULL tests refuse nothing and the checks read a deleted
  event; a modifier may pass in any stage.
- **Answering twice** (envelope.cc:145). A second `done()` is meant to be refused
  (`called outside event context`, line 148), but `current_event` is never NULL
  again: the call completes whatever event the address holds, such as the
  session's next one while it is still queued, and unlocks a mutex that is not the
  node thread's.
- **Stopping strands callbacks** (milter.cc:448). The handle is closed while
  sessions are open; a callback queued then stays queued, its thread asleep,
  until another `start` (`StrandedAreRescued`), if there is one.
- **A failing start takes the running daemon's functions** (milter.cc:533-545,
  560-574). `start` stores its functions before it knows whether `smfi_register` and
  `smfi_setconn` succeed (the latter fails on an empty connection string), and
  empties them if not, without asking whose they are. If a daemon is up, its handle
  and its sessions go on, and the next event has `DoFCall` call an empty handle.
  `OnlyFailedStartKills` says that this is the only way there: no cleanup, stop or
  inherited event comes between a wakeup and its function.
- **Counting arguments** (milter.cc:503, 522). `start` asks for 14 arguments and
  uses 15; the loop reads the one too many as undefined and refuses it, so
  `RightFunction` holds.
- **A refused close** (milter.cc:416). `fi_close` deletes the `envelope_t` whether or
  not its event reached the script; if not, the Persistent handle is never reset
  and its Envelope stays in memory. `HandlesReleased` says that nothing else leaves
  one behind.
- **Documents.** `setreply` works in connect: the check at envelope.cc:272 is
  commented out, while README.md:123 excludes connect. The comment at
  events.h:145-148 has the envelope created by the connect event and live until
  close or abort; the code makes it at negotiate (events.cc:187) and only close
  releases it, an abort does not.

## 4. Proofs

All theorems are for any sets of sessions, addresses, objects, verdicts and
argument lists, and any choice of failing or refused calls, but for the
conditions stated. They assume only `BridgeAssumption`, `SessionAssumption` and
`DaemonAssumption`: the constants differ and TEMPFAIL is a verdict.

`EventBridgeProofs`:

| Theorem | States |
|---|---|
| `Invariance` | `Spec => []IInv` |
| `TypeCorrect`, `QueueCorrect`, `HandOffSafe`, `ContextAlwaysKnown` | the parts of `IInv` that the runs check |
| `NoFreedEvent` | `Spec => []LiveEvents` |
| `SomeoneAwake` | `Spec => []NeverAllAsleep`, if there is a session and `trigger_event`'s lock of the queue does not fail |

The properties are not inductive by themselves. `HandOff`, for instance, needs
that the event `Fire` hands over is one whose thread is asleep, which holds
because the thread keeps the mutex from before it is queued until its wait, and
the node thread fires only after taking it. `IInv` says all of that: who owns an
event (`Ownership`), who holds which lock at which step (`QueueLock`,
`EventLock`), what is true of queued, unlinked and answered events
(`QueueContents`, `Unlinked`, `Completing`), that `Done` and `trigger_event`
exclude each other (`Frames`), and what the thread has written by each step
(`Progress`). The proof has one lemma per action; TLC checks `IInv` with every
fault in `BridgeFaults`.

`NeverAllAsleep` is inductive together with `IInv`: a step that consumes a
wakeup is followed by a look into the queue, and a look takes an event out
unless the queue is empty, which leaves its session unqueued.

`BridgeLocksProofs`, for any failing calls:

| Theorem | States |
|---|---|
| `LocksOrdered` | `Spec => []NoCircularWait` |
| `RaceFree` | `Spec => []NoDataRace` |
| `DestroysAtRest` | `Spec => []DestroyedAtRest` |

All three follow from `IInv` alone, which is what makes `IInv` worth its length.
`generate_event` takes the queue lock and then its event's; `trigger_event` does the
same; the wait takes the event's lock alone. A thread that holds the queue finds its
own event's mutex free (`QueueHolderRuns`), and one that holds its event's mutex is
at a step that takes no lock (`EventHolderRuns`): so the node thread, blocked on an
event with the queue lock held, always waits for a thread that runs on to its wait.
For `RaceFree` two threads are apart because live events belong to one session each
(`EventsApart`), the list because only the holder of the queue lock is at a step that
touches it (`ListGuarded`), and the node thread because an event it may touch has its
thread asleep or at the end of its wait (`NodeFieldsAsleep`).

`BridgeRefinementProofs`, if neither `trigger_event`'s lock of the event nor
`done()`'s signal fails (each of these error paths loses the event; the other
three may fail):

| Theorem | States |
|---|---|
| `AllAccounted` | `Spec => []Accounted` |
| `BridgeImplements` | `Spec => ImplementsService`, the refinement |

`IInv` already says that an event is in at most one place. What is added is that
it is somewhere (`Placed`) and that an answered event carries the verdict the
script gave (`Given`). The refinement then has one lemma for each kind of step:
`Enqueue` is `Submit`, the two failures of `generate_event` are `Refuse`, `Fire` is
`Deliver`, `Done` is `Answer`, `Delete` is `Return`, and all others leave the mapped
state alone - `Dequeue` because the mapped queue still begins with the unlinked
event, `TakeResult` because of `Given`.

`BridgeLossyProofs`, for any failing calls:

| Theorem | States |
|---|---|
| `BridgeImplementsLossy` | `Spec => ImplementsLossyService` |

Here `Placed` need not hold. Two facts take its place: a callback once lost stays
lost (`LossesKept`), and none is lost by a step but `LockEventFails` and a `Done` whose
signal fails. Each of these is one of the two losses of `LossyService`, with the
failing call that `Losable` asks for, and all other steps are mapped as before.

`MilterSessionProofs`:

| Theorem | States |
|---|---|
| `RightEnvelope` | `SessionSpec => []EnvelopeOfSession`, for careful and careless scripts and any refused callbacks |
| `CarefulMethods` | `SessionSpec => []MethodsInStage` for careful scripts |
| `HandleAtHand` | `SessionSpec => []HandleFromConnectToClose`, if negotiate is not refused |
| `NothingLeaks` | `SessionSpec => HandlesReleased`, an action property, for any refused callbacks |
| `SessionTypes` | `SessionSpec => []SessionTypeOK` |

The invariant is that a handle holds an existing object made for its own
session; a new object is nobody else's and a held one is not collected. For
`HandleAtHand` it is strengthened by where in its life a session must have its
handle (`HandleLife`). For `NothingLeaks` it is strengthened by `CloseInHand`: a
held Envelope points at a close event only while the script owes that event's
answer, and the answer resets the handle.

`MilterDaemonProofs`:

| Theorem | States |
|---|---|
| `DaemonInvariance` | `DaemonSpec => []DaemonInv` |
| `DaemonTypes` | `DaemonSpec => []DaemonTypeOK` |
| `NoFunctionKept` | `DaemonSpec => []FunctionsReleased` |
| `FunctionsRight` | `DaemonSpec => RightFunction`, an action property |
| `DiesOnlyOfFailedStart` | `DaemonSpec => []OnlyFailedStartKills` |
| `SomeoneIsServed` | `DaemonSpec => []NeverAllStranded` |
| `DaemonServes` | `DaemonSpec => ServiceSpec` |

The invariant adds that the handle is open exactly while there is a worker, that
the node thread is in `trigger_event` only with the handle open, and that with the
handle open either every function is one of the start that brought the daemon up,
or a later start has failed and there is none (`FunctionsInstalled`). So the
cleanup, which closes the handle and empties the functions in one callback of the
loop, cannot come between a wakeup and the call it leads to, and an inherited event
meets only new functions. `NeverAllStranded` is inductive on top of it: the queue
holds exactly the waiting callbacks (`QueuedOnce`), so a `trigger_event` that finds
it empty leaves no session asleep in it, and one that does not takes a session out.

`CallbackServiceProofs` says what every step of the service does to its queue and
proves `ServiceOnce`: `ServiceSpec => [](ServiceTypeOK /\ QueuedOnce)`.
`MilterDaemonProofs` cites its lemmas.

Every invariant, action property and refinement that a passing run checks is
proved. Only model-checked are the properties under fairness (`AnsweredReturns`,
`RescuedByTraffic`, `AloneReturns`, `StopCompletes`, `StrandedAreRescued`): the
prover has no rule for `ENABLED`, so none for fairness.

## 5. Not modelled

`setbacklog`, `setdbg`, `settimeout`, `version`, initialisation and constants:
straight-line forwarding with no state. The conversion of arguments by
`FireWrapper` and by the envelope methods, and their argument checks; in
particular `inet_ntop` on an address that is not IPv4 (events.cc:225) and the
`free` of libmilter's macro value in `getsymval` (envelope.cc:239), which are wrong
in one call and need no behaviours to show it. `setsymlist` and `setmlreply` only
throw; six modifiers (`chgheader`, `insheader`, `replacebody`, `addrcpt`, `addrcpt_par`,
`delrcpt`) are empty functions. A `start` that succeeds while a daemon runs, and
calls on an Envelope whose event's address holds no event in `CarelessScript`:
undefined. Process exit: nothing is persisted.

## 6. Plan

Done, most important behaviour first: the hand-off (`EventBridge` over
`CallbackService`) with its invariant, refinement and proofs; the session; the
daemon. What could still be added:

1. `CarelessScript` over `MilterSession`, to say which sessions a second `done()`
   can reach, and what a script must do to be safe.
2. `MilterDaemon` over `EventBridge` instead of `CallbackService`: one model in
   which a failing lock in `trigger_event` meets a closing handle.
