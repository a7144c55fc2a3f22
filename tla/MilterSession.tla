---------------------------- MODULE MilterSession ----------------------------
(***************************************************************************)
(* A mail session on top of the multiplexer: the callbacks libmilter makes *)
(* in it, the envelope_t in its private data, the Envelope object the      *)
(* script is given, and the methods the script calls on that object.       *)
(*                                                                         *)
(* The multiplexer is CallbackService, which EventBridge implements: every *)
(* action that moves a callback is an action of the service together with  *)
(* what fi_*, Prefire, Fire, Postfire and Envelope do around it.           *)
(***************************************************************************)
EXTENDS CallbackService

CONSTANTS Object,    (* identities of Envelope objects in the V8 heap      *)
          Null,      (* an empty handle, no owner, no call                 *)
          Refusing,  (* callbacks whose event generate_event cannot queue  *)
          Late       (* TRUE: the script also uses envelopes it was given  *)
                     (* earlier, outside the callback it has to answer     *)

Callback ==
  {"negotiate", "connect", "unknown", "helo", "envfrom", "envrcpt", "data",
   "header", "eoh", "body", "eom", "abort", "close"}

ASSUME SessionAssumption ==
  /\ TempFail \in Verdict
  /\ Null \notin Session \cup Object \cup Callback
  /\ Refusing \subseteq Callback
  /\ Late \in BOOLEAN

Method == {"negotiate", "setreply", "modify", "getsymval"}

VARIABLES
  callback,  (* the last callback libmilter made in the session            *)
  private,   (* the context's private data is an envelope_t                *)
  object,    (* envelope_t::object, the Persistent handle                  *)
  made,      (* Envelope objects that exist                                *)
  owner,     (* the session whose context an Envelope has                  *)
  kind,      (* the type of the event its current_event was last set to    *)
  live,      (* Envelopes whose current_event is not deleted yet           *)
  call       (* history: the last method that reached libmilter            *)

envelopeVars == <<made, owner, kind>>
sessionVars  == <<serviceVars, callback, private, object, envelopeVars, live,
                  call>>

NoCall == [method |-> Null, callback |-> Null, asleep |-> FALSE]

SessionInit ==
  /\ ServiceInit
  /\ callback = [s \in Session |-> "close"]
  /\ private = [s \in Session |-> FALSE]
  /\ object = [s \in Session |-> Null]
  /\ made = {}
  /\ owner = [o \in Object |-> Null]
  /\ kind = [o \in Object |-> "close"]
  /\ live = {}
  /\ call = NoCall

-----------------------------------------------------------------------------
(* libmilter's order of callbacks.  A message ends with eom or abort, and  *)
(* a connection may carry many; a session is over after close.  libmilter  *)
(* looks at the last command only, and an unknown one may come in the      *)
(* middle of a message: what follows it is anything that may follow those. *)
After(c) ==
  CASE c = "close"                              -> {"negotiate"}
    [] c = "negotiate"                          -> {"connect", "close"}
    [] c \in {"connect", "helo", "eom", "abort"} ->
         {"helo", "unknown", "envfrom", "close"}
    [] c = "unknown" -> {"helo", "unknown", "envfrom", "envrcpt", "data",
                         "abort", "close"}
    [] c = "envfrom"                   -> {"unknown", "envrcpt", "abort"}
    [] c = "envrcpt"                   -> {"unknown", "envrcpt", "data", "abort"}
    [] c \in {"data", "header"}                 -> {"header", "eoh", "abort"}
    [] c \in {"eoh", "body"}                    -> {"body", "eom", "abort"}

(* generate_event queues the event, or returns SMFIS_TEMPFAIL at once.     *)
Generate(s, c) ==
  /\ callback' = [callback EXCEPT ![s] = c]
  /\ \/ Submit(s)
     \/ c \in Refusing /\ Refuse(s)

(* fi_negotiate: new envelope_t with an empty handle, smfi_setpriv. *)
FiNegotiate(s) ==
  /\ "negotiate" \in After(callback[s])
  /\ Generate(s, "negotiate")
  /\ private' = [private EXCEPT ![s] = TRUE]
  /\ UNCHANGED <<object, envelopeVars, live, call>>

(* The other fi_*: smfi_getpriv, then the same multiplexer. *)
FiCallback(s, c) ==
  /\ c \in After(callback[s]) \ {"negotiate"}
  /\ private[s]
  /\ Generate(s, c)
  /\ UNCHANGED <<private, object, envelopeVars, live, call>>

-----------------------------------------------------------------------------
(* Faulty: the envelope keeps pointing at the event it was made for. *)
EventKept(o, c) ==
  /\ kind' = [kind EXCEPT ![o] = "negotiate"]
  /\ live' = live \cup {o}

SetCurrentEvent(o, c) ==
  /\ kind' = [kind EXCEPT ![o] = c]
  /\ live' = live \cup {o}

(* MilterNegotiate::Prefire makes the object and the Persistent handle.    *)
FireNegotiate(s) ==
  /\ callback[s] = "negotiate"
  /\ Deliver(s)
  /\ \E o \in Object \ made :
       /\ made' = made \cup {o}
       /\ object' = [object EXCEPT ![s] = o]
       /\ owner' = [owner EXCEPT ![o] = s]
       /\ SetCurrentEvent(o, "negotiate")
  /\ UNCHANGED <<callback, private, call>>

(* MilterEvent::Prefire restores the object; an empty handle would abort   *)
(* the process in ObjectWrap::Unwrap.                                      *)
FireCallback(s) ==
  /\ callback[s] # "negotiate"
  /\ object[s] # Null
  /\ Deliver(s)
  /\ SetCurrentEvent(object[s], callback[s])
  /\ UNCHANGED <<callback, private, object, made, owner, call>>

(* Faulty: the close event leaves the handle as it is. *)
HandleKept(s) == object

(* Faulty: the abort event resets the handle as well. *)
HandleResetOnAbort(s) ==
  IF callback[s] \in {"abort", "close"}
  THEN [object EXCEPT ![s] = Null] ELSE object

(* Postfire: only the close event resets the handle. *)
Postfire(s) ==
  IF callback[s] = "close" THEN [object EXCEPT ![s] = Null] ELSE object

(* The script calls done() on the envelope it was given. *)
Done(s, v) ==
  /\ Answer(s, v)
  /\ object' = Postfire(s)
  /\ UNCHANGED <<callback, private, envelopeVars, live, call>>

(* generate_event returns to fi_*: delete event; fi_close also deletes the *)
(* envelope_t, with its handle as it is, and clears the private data.      *)
FiReturn(s) ==
  /\ Return(s)
  /\ live' = {o \in live : owner[o] # s}
  /\ IF callback[s] = "close"
     THEN /\ private' = [private EXCEPT ![s] = FALSE]
          /\ object' = [object EXCEPT ![s] = Null]
     ELSE UNCHANGED <<private, object>>
  /\ UNCHANGED <<callback, envelopeVars, call>>

(* Faulty: the Persistent handle does not keep its object alive. *)
CollectHeld(o) ==
  /\ o \in made
  /\ made' = made \ {o}
  /\ live' = live \ {o}
  /\ UNCHANGED <<serviceVars, callback, private, object, owner, kind, call>>

(* V8 collects an Envelope that no handle and no script refers to.  One     *)
(* whose handle went away unreset stays in memory, where nothing finds it  *)
(* any more: its identity may as well be used again.                       *)
Collect(o) ==
  /\ o \in made
  /\ \A s \in Session : object[s] # o
  /\ made' = made \ {o}
  /\ live' = live \ {o}
  /\ owner' = [owner EXCEPT ![o] = Null]
  /\ kind' = [kind EXCEPT ![o] = "close"]
  /\ UNCHANGED <<serviceVars, callback, private, object, call>>

-----------------------------------------------------------------------------
(* The methods of Envelope.                                                *)

(* Faulty: one of the modifiers does without its stage check. *)
UncheckedModifier(m, k) == m # "negotiate" \/ k = "negotiate"

(* The stage checks on current_event: IsNegotiate, IsEndMessage.  setreply *)
(* refuses negotiate only; getsymval looks at nothing.                     *)
StageAllows(m, k) ==
  CASE m = "negotiate" -> k = "negotiate"
    [] m = "setreply"  -> k # "negotiate"
    [] m = "modify"    -> k = "eom"
    [] m = "getsymval" -> TRUE

(* What the virtual calls on current_event may see: the event's type, or,  *)
(* once it is deleted, that of whatever lives at the address.              *)
SeenKind(o) == IF o \in live THEN {kind[o]} ELSE Callback

(* A call that the check lets through reaches libmilter, on the context of *)
(* the envelope's session (negotiate: the pointers of its callback); the   *)
(* others throw and change nothing.                                        *)
CallMethod(o, m) ==
  LET s == owner[o]
  IN  /\ o \in made
      /\ Late \/ (object[s] = o /\ stage[s] = "delivered")
      /\ \E k \in SeenKind(o) : StageAllows(m, k)
      /\ call' = [method |-> m, callback |-> callback[s],
                  asleep |-> stage[s] = "delivered"]
      /\ UNCHANGED <<serviceVars, callback, private, object, envelopeVars,
                     live>>

SessionNext ==
  \/ \E s \in Session :
       \/ FiNegotiate(s)
       \/ \E c \in Callback : FiCallback(s, c)
       \/ FireNegotiate(s)
       \/ FireCallback(s)
       \/ \E v \in Verdict : Done(s, v)
       \/ FiReturn(s)
  \/ \E o \in Object : Collect(o) \/ \E m \in Method : CallMethod(o, m)

SessionSpec == SessionInit /\ [][SessionNext]_sessionVars

-----------------------------------------------------------------------------
(* Types. *)
SessionTypeOK ==
  /\ ServiceTypeOK
  /\ callback \in [Session -> Callback]
  /\ private \in [Session -> BOOLEAN]
  /\ object \in [Session -> Object \cup {Null}]
  /\ made \in SUBSET Object
  /\ owner \in [Object -> Session \cup {Null}]
  /\ kind \in [Object -> Callback]
  /\ \A o \in made : owner[o] \in Session
  /\ live \in SUBSET made
  /\ call \in [method : Method \cup {Null}, callback : Callback \cup {Null},
               asleep : BOOLEAN]

(* The script is always given the Envelope made at the negotiate callback  *)
(* of this very session, whatever sessions before it used the context, and *)
(* that Envelope points at the event of the callback being made.           *)
EnvelopeOfSession ==
  \A s \in Session : stage[s] = "delivered" =>
    LET o == object[s]
    IN  /\ o \in live
        /\ owner[o] = s
        /\ kind[o] = callback[s]

(* milter.h on the handle of the Envelope: `it lives from connect to       *)
(* close'.  So Prefire of every later event finds an object to restore.    *)
HandleFromConnectToClose ==
  \A s \in Session :
    (/\ callback[s] # "negotiate"
     /\ callback[s] = "close" => stage[s] \in {"queued", "delivered"})
       => object[s] # Null

(* A session leaves a Persistent handle behind, which keeps its Envelope   *)
(* in the V8 heap for good, in one case only: its close event, refused by  *)
(* generate_event, never reached the script.  No message, abort or refused *)
(* callback before it costs the close event its reset of the handle.       *)
HandlesReleased ==
  [][\A s \in Session : private[s] /\ ~ private'[s] =>
       object[s] = Null \/ kind[object[s]] # "close"]_sessionVars

(* Where the README and envelope.h allow a method, but for setreply in the *)
(* connect callback, which the code lets through.                          *)
Permitted(m) ==
  CASE m = "negotiate" -> {"negotiate"}
    [] m = "setreply"  -> Callback \ {"negotiate"}
    [] m = "modify"    -> {"eom"}
    [] m = "getsymval" -> Callback

(* A method reaches libmilter only in a callback that permits it, and only *)
(* while the session's thread sleeps in that callback: the node thread and *)
(* libmilter never use the same context at once.                           *)
MethodsInStage ==
  call # NoCall => call.asleep /\ call.callback \in Permitted(call.method)

(* envelope.h: `these modifiers are allowed during EOM'. *)
ModifiersAtEndOfMessage == call.method = "modify" => call.callback = "eom"

=============================================================================
