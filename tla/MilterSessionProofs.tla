------------------------- MODULE MilterSessionProofs -------------------------
(***************************************************************************)
(* Proofs about MilterSession, for any number of sessions and objects,     *)
(* whatever callbacks cannot be queued.                                    *)
(***************************************************************************)
EXTENDS MilterSession, CallbackServiceProofs

(* Visible everywhere: Null is nothing else, and pure abbreviations. *)
USE SessionAssumption
  DEF SessionAssumption, Stage, serviceVars, envelopeVars

(* Every handle holds an existing Envelope of its own session. *)
HandlesOwned ==
  \A s \in Session : object[s] # Null =>
    object[s] \in made /\ owner[object[s]] = s

(* The inductive invariant of the session layer. *)
SessionInv == SessionTypeOK /\ HandlesOwned /\ EnvelopeOfSession

USE DEF SessionInv

(* Nothing exists before the first negotiate. *)
LEMMA SessionInitInv == SessionInit => SessionInv
<1> SUFFICES ASSUME SessionInit PROVE SessionInv
  OBVIOUS
<1>1. SessionTypeOK
  <2>1. <<>> \in Seq(Session)
    BY EmptySeq
  <2> QED BY <2>1 DEF SessionInit, ServiceInit, SessionTypeOK, ServiceTypeOK,
             NoCall, Callback
<1>2. HandlesOwned /\ EnvelopeOfSession
  BY DEF SessionInit, ServiceInit, HandlesOwned, EnvelopeOfSession
<1> QED BY <1>1, <1>2

(* A queue of sessions stays one when its head is taken or s is added. *)
LEMMA QueueTypes ==
  ASSUME NEW q \in Seq(Session)
  PROVE  /\ \A s \in Session : Append(q, s) \in Seq(Session)
         /\ q # <<>> => Tail(q) \in Seq(Session)
  BY AppendProperties, HeadTailProperties

(* libmilter makes a callback: no envelope is touched. *)
LEMMA FiCallbackStep ==
  ASSUME SessionInv, NEW s \in Session, NEW c \in Callback,
         FiNegotiate(s) \/ FiCallback(s, c)
  PROVE  SessionInv'
<1>1. /\ UNCHANGED <<object, made, owner, kind, live, call>>
      /\ private' \in [Session -> BOOLEAN]
      /\ \E d \in Callback : Generate(s, d)
  BY DEF FiNegotiate, FiCallback, SessionTypeOK, Callback
<1>2. callback' \in [Session -> Callback] /\ ServiceTypeOK'
  <2>1. callback' \in [Session -> Callback]
    BY <1>1 DEF Generate, SessionTypeOK
  <2>2. CASE Submit(s)
    BY <2>1, <2>2, QueueTypes DEF Submit, SessionTypeOK, ServiceTypeOK
  <2>3. CASE Refuse(s)
    BY <2>1, <2>3 DEF Refuse, SessionTypeOK, ServiceTypeOK
  <2> QED BY <1>1, <2>2, <2>3 DEF Generate
<1>3. SessionTypeOK'
  BY <1>1, <1>2 DEF SessionTypeOK
<1>4. HandlesOwned'
  BY <1>1 DEF HandlesOwned
<1>5. \A t \in Session : stage'[t] = "delivered" =>
        stage[t] = "delivered" /\ callback'[t] = callback[t]
  BY <1>1 DEF Generate, Submit, Refuse, SessionTypeOK, ServiceTypeOK
<1>6. EnvelopeOfSession'
  BY <1>1, <1>5 DEF EnvelopeOfSession
<1> QED BY <1>3, <1>4, <1>6

(* The negotiate event fires: its Envelope is nobody else's. *)
LEMMA FireNegotiateStep ==
  ASSUME SessionInv, NEW s \in Session, FireNegotiate(s)
  PROVE  SessionInv'
<1>1. PICK o \in Object \ made :
        /\ made' = made \cup {o}
        /\ object' = [object EXCEPT ![s] = o]
        /\ owner' = [owner EXCEPT ![o] = s]
        /\ kind' = [kind EXCEPT ![o] = "negotiate"]
        /\ live' = live \cup {o}
  BY DEF FireNegotiate, SetCurrentEvent
<1>2. /\ callback[s] = "negotiate"
      /\ stage' = [stage EXCEPT ![s] = "delivered"]
      /\ UNCHANGED <<callback, private, call>>
      /\ ServiceTypeOK'
  BY QueueTypes DEF FireNegotiate, Deliver, SessionTypeOK, ServiceTypeOK
<1>3. SessionTypeOK'
  BY <1>1, <1>2 DEF SessionTypeOK, Callback
<1>4. HandlesOwned'
  BY <1>1, <1>2 DEF SessionTypeOK, HandlesOwned
<1>5. EnvelopeOfSession'
  BY <1>1, <1>2
  DEF SessionTypeOK, ServiceTypeOK, HandlesOwned, EnvelopeOfSession
<1> QED BY <1>3, <1>4, <1>5

(* Another event fires: the session's own Envelope points at it. *)
LEMMA FireCallbackStep ==
  ASSUME SessionInv, NEW s \in Session, FireCallback(s)
  PROVE  SessionInv'
<1> DEFINE o == object[s]
<1>1. /\ o \in made /\ o \in Object /\ owner[o] = s
      /\ kind' = [kind EXCEPT ![o] = callback[s]]
      /\ live' = live \cup {o}
      /\ stage' = [stage EXCEPT ![s] = "delivered"]
      /\ UNCHANGED <<callback, private, object, made, owner, call>>
      /\ ServiceTypeOK'
  BY QueueTypes
  DEF FireCallback, SetCurrentEvent, Deliver, HandlesOwned, SessionTypeOK,
      ServiceTypeOK
<1>2. SessionTypeOK'
  BY <1>1 DEF SessionTypeOK
<1>3. HandlesOwned'
  BY <1>1 DEF HandlesOwned
<1>4. EnvelopeOfSession'
  BY <1>1
  DEF SessionTypeOK, ServiceTypeOK, HandlesOwned, EnvelopeOfSession
<1> QED BY <1>2, <1>3, <1>4

(* The script answers: at most its own session's handle is reset. *)
LEMMA SessionDoneStep ==
  ASSUME SessionInv, NEW s \in Session, NEW v \in Verdict, Done(s, v)
  PROVE  SessionInv'
<1>1. /\ \A t \in Session : object'[t] # Null => object'[t] = object[t]
      /\ \A t \in Session \ {s} : object'[t] = object[t]
      /\ object' \in [Session -> Object \cup {Null}]
  BY DEF Done, Postfire, SessionTypeOK
<1>2. /\ stage' = [stage EXCEPT ![s] = "answered"]
      /\ UNCHANGED <<callback, private, made, owner, kind, live, call>>
      /\ ServiceTypeOK'
  BY DEF Done, Answer, SessionTypeOK, ServiceTypeOK
<1>3. SessionTypeOK'
  BY <1>1, <1>2 DEF SessionTypeOK
<1>4. HandlesOwned'
  BY <1>1, <1>2 DEF HandlesOwned
<1>5. EnvelopeOfSession'
  BY <1>1, <1>2 DEF SessionTypeOK, ServiceTypeOK, EnvelopeOfSession
<1> QED BY <1>3, <1>4, <1>5

(* The event is deleted: only Envelopes of this session pointed at it. *)
LEMMA FiReturnStep ==
  ASSUME SessionInv, NEW s \in Session, FiReturn(s)
  PROVE  SessionInv'
<1>1. /\ \A t \in Session : object'[t] # Null => object'[t] = object[t]
      /\ \A t \in Session \ {s} : object'[t] = object[t]
      /\ object' \in [Session -> Object \cup {Null}]
      /\ private' \in [Session -> BOOLEAN]
  <2>1. CASE callback[s] = "close"
    <3>1. /\ private' = [private EXCEPT ![s] = FALSE]
          /\ object' = [object EXCEPT ![s] = Null]
      BY <2>1 DEF FiReturn
    <3> QED BY <3>1 DEF SessionTypeOK, HandlesOwned
  <2>2. CASE callback[s] # "close"
    <3>1. UNCHANGED <<private, object>>
      BY <2>2 DEF FiReturn
    <3> QED BY <3>1 DEF SessionTypeOK
  <2> QED BY <2>1, <2>2
<1>2. /\ stage' = [stage EXCEPT ![s] = "idle"]
      /\ live' = {o \in live : owner[o] # s}
      /\ UNCHANGED <<callback, made, owner, kind, call>>
      /\ ServiceTypeOK'
  BY DEF FiReturn, Return, SessionTypeOK, ServiceTypeOK
<1>3. SessionTypeOK'
  BY <1>1, <1>2 DEF SessionTypeOK
<1>4. HandlesOwned'
  BY <1>1, <1>2 DEF HandlesOwned
<1>5. EnvelopeOfSession'
  BY <1>1, <1>2 DEF SessionTypeOK, ServiceTypeOK, EnvelopeOfSession
<1> QED BY <1>3, <1>4, <1>5

(* Only an Envelope that no handle holds is collected. *)
LEMMA CollectStep ==
  ASSUME SessionInv, NEW o \in Object, Collect(o)
  PROVE  SessionInv'
<1>1. SessionTypeOK'
  BY DEF Collect, SessionTypeOK, ServiceTypeOK, Callback
<1>2. HandlesOwned'
  BY DEF Collect, SessionTypeOK, HandlesOwned
<1>3. EnvelopeOfSession'
  BY DEF Collect, SessionTypeOK, EnvelopeOfSession
<1> QED BY <1>1, <1>2, <1>3

(* A method call changes no envelope. *)
LEMMA CallMethodStep ==
  ASSUME SessionInv, NEW o \in Object, NEW m \in Method, CallMethod(o, m)
  PROVE  SessionInv'
<1>1. callback[owner[o]] \in Callback
  BY DEF CallMethod, SessionTypeOK
<1>2. SessionTypeOK'
  BY <1>1 DEF CallMethod, SessionTypeOK, ServiceTypeOK
<1>3. HandlesOwned' /\ EnvelopeOfSession'
  BY DEF CallMethod, HandlesOwned, EnvelopeOfSession
<1> QED BY <1>2, <1>3

(* Every step of the session layer preserves the invariant. *)
LEMMA SessionNextInv == SessionInv /\ [SessionNext]_sessionVars => SessionInv'
<1> SUFFICES ASSUME SessionInv, [SessionNext]_sessionVars PROVE SessionInv'
  OBVIOUS
<1>1. CASE SessionNext
  <2>1. "negotiate" \in Callback
    BY DEF Callback
  <2>2. ASSUME NEW s \in Session, FiNegotiate(s)
        PROVE  SessionInv'
    BY <2>1, <2>2, FiCallbackStep
  <2> QED
    BY <1>1, <2>2, FiCallbackStep, FireNegotiateStep, FireCallbackStep,
       SessionDoneStep, FiReturnStep, CollectStep, CallMethodStep
    DEF SessionNext
<1>2. CASE UNCHANGED sessionVars
  BY <1>2
  DEF sessionVars, SessionTypeOK, ServiceTypeOK, HandlesOwned,
      EnvelopeOfSession
<1> QED BY <1>1, <1>2

(* Handles, objects and events agree in every reachable state. *)
THEOREM SessionInvariance == SessionSpec => []SessionInv
  BY SessionInitInv, SessionNextInv, PTL DEF SessionSpec

(* Whatever the script does and whichever callbacks are refused, a         *)
(* callback is given the Envelope of its own session, pointing at the      *)
(* callback's own event.                                                   *)
THEOREM RightEnvelope == SessionSpec => []EnvelopeOfSession
<1>1. SessionInv => EnvelopeOfSession
  OBVIOUS
<1> QED BY <1>1, SessionInvariance, PTL

(* A call from a script that uses an Envelope only while it owes the       *)
(* answer passes the stage check only in a callback that permits it.       *)
LEMMA CareInStage ==
  ASSUME SessionInv, ~ Late, NEW o \in Object, NEW m \in Method,
         CallMethod(o, m)
  PROVE  MethodsInStage'
<1> DEFINE s == owner[o]
<1>1. s \in Session /\ object[s] = o /\ stage[s] = "delivered"
  BY DEF CallMethod, SessionTypeOK
<1>2. /\ kind[o] = callback[s] /\ callback[s] \in Callback
      /\ SeenKind(o) = {kind[o]}
  BY <1>1 DEF EnvelopeOfSession, SeenKind, SessionTypeOK
<1>3. StageAllows(m, callback[s])
  BY <1>2 DEF CallMethod
<1>4. callback[s] \in Permitted(m)
  BY <1>2, <1>3 DEF StageAllows, Permitted, Method
<1>5. call' = [method |-> m, callback |-> callback[s], asleep |-> TRUE]
  BY <1>1 DEF CallMethod
<1> QED BY <1>4, <1>5 DEF MethodsInStage

(* With a careful script the stage checks do what the documentation says   *)
(* of them, and no method touches a context libmilter is using.            *)
THEOREM CarefulMethods ==
  ASSUME ~ Late
  PROVE  SessionSpec => []MethodsInStage
<1>1. SessionInit => MethodsInStage
  BY DEF SessionInit, MethodsInStage
<1>2. SessionInv /\ MethodsInStage /\ [SessionNext]_sessionVars
        => MethodsInStage'
  <2> SUFFICES ASSUME SessionInv, MethodsInStage, [SessionNext]_sessionVars
               PROVE  MethodsInStage'
    OBVIOUS
  <2>1. ASSUME NEW o \in Object, NEW m \in Method, CallMethod(o, m)
        PROVE  MethodsInStage'
    BY <2>1, CareInStage
  <2>2. CASE UNCHANGED call
    BY <2>2 DEF MethodsInStage
  <2> QED
    BY <2>1, <2>2
    DEF SessionNext, FiNegotiate, FiCallback, FireNegotiate, FireCallback,
        Done, FiReturn, Collect, sessionVars
<1> QED BY <1>1, <1>2, SessionInvariance, PTL DEF SessionSpec

-----------------------------------------------------------------------------
(* The callbacks in which the handle must hold the Envelope: from the      *)
(* negotiate event's turn to that of the close event.                      *)
Holds(s) ==
  IF callback[s] = "close" THEN stage[s] \in {"queued", "delivered"}
  ELSE callback[s] = "negotiate" => stage[s] # "queued"

HandleLife == \A s \in Session : Holds(s) => object[s] # Null

(* libmilter's order: negotiate follows close, and nothing else does.      *)
LEMMA OrderOfCallbacks ==
  ASSUME NEW c \in Callback, NEW d \in After(c)
  PROVE  d = "negotiate" <=> c = "close"
  BY DEF After, Callback

(* A callback begins in a session that has its handle, or with negotiate.  *)
LEMMA GenerateKeepsLife ==
  ASSUME SessionInv, HandleLife, NEW s \in Session, NEW c,
         "negotiate" \notin Refusing, Generate(s, c), UNCHANGED object,
         c = "negotiate" <=> callback[s] = "close"
  PROVE  HandleLife'
<1>1. /\ callback' = [callback EXCEPT ![s] = c]
      /\ stage[s] = "idle"
  BY DEF Generate, Submit, Refuse
<1>2. PICK st \in {"queued", "answered"} :
        /\ stage' = [stage EXCEPT ![s] = st]
        /\ c = "negotiate" => st = "queued"
  BY DEF Generate, Submit, Refuse
<1>3. ASSUME NEW t \in Session, Holds(t)'
      PROVE  object'[t] # Null
  <2>1. CASE t = s
    BY <1>1, <1>2, <1>3, <2>1
    DEF HandleLife, Holds, SessionTypeOK, ServiceTypeOK
  <2>2. CASE t # s
    BY <1>1, <1>2, <1>3, <2>2
    DEF HandleLife, Holds, SessionTypeOK, ServiceTypeOK
  <2> QED BY <2>1, <2>2
<1> QED BY <1>3 DEF HandleLife

(* Only the answer to close and the end of the session take the handle.    *)
LEMMA HandleLifeStep ==
  ASSUME "negotiate" \notin Refusing,
         SessionInv, HandleLife, [SessionNext]_sessionVars
  PROVE  HandleLife'
<1> USE DEF HandleLife, Holds, SessionTypeOK, ServiceTypeOK
<1>1. ASSUME NEW s \in Session, FiNegotiate(s)
      PROVE  HandleLife'
  <2>1. callback[s] = "close"
    BY <1>1, OrderOfCallbacks DEF FiNegotiate
  <2> QED BY <1>1, <2>1, GenerateKeepsLife DEF FiNegotiate
<1>2. ASSUME NEW s \in Session, NEW c \in Callback, FiCallback(s, c)
      PROVE  HandleLife'
  <2>1. c # "negotiate" /\ callback[s] # "close"
    BY <1>2, OrderOfCallbacks DEF FiCallback
  <2> QED BY <1>2, <2>1, GenerateKeepsLife DEF FiCallback
<1>3. ASSUME NEW s \in Session, FireNegotiate(s)
      PROVE  HandleLife'
  <2>1. PICK o \in Object : object' = [object EXCEPT ![s] = o]
    BY <1>3 DEF FireNegotiate
  <2>2. /\ stage' = [stage EXCEPT ![s] = "delivered"]
        /\ UNCHANGED callback
    BY <1>3 DEF FireNegotiate, Deliver
  <2> QED BY <2>1, <2>2
<1>4. ASSUME NEW s \in Session, FireCallback(s)
      PROVE  HandleLife'
  <2>1. /\ object[s] # Null
        /\ stage' = [stage EXCEPT ![s] = "delivered"]
        /\ UNCHANGED <<callback, object>>
    BY <1>4 DEF FireCallback, Deliver
  <2> QED BY <2>1
<1>5. ASSUME NEW s \in Session, NEW v \in Verdict, Done(s, v)
      PROVE  HandleLife'
  <2>1. /\ stage[s] = "delivered"
        /\ stage' = [stage EXCEPT ![s] = "answered"]
        /\ object' = Postfire(s)
        /\ UNCHANGED callback
    BY <1>5 DEF Done, Answer
  <2>2. CASE callback[s] = "close"
    BY <2>1, <2>2 DEF Postfire
  <2>3. CASE callback[s] # "close"
    BY <2>1, <2>3 DEF Postfire
  <2> QED BY <2>2, <2>3
<1>6. ASSUME NEW s \in Session, FiReturn(s)
      PROVE  HandleLife'
  <2>1. /\ stage[s] = "answered"
        /\ stage' = [stage EXCEPT ![s] = "idle"]
        /\ UNCHANGED callback
    BY <1>6 DEF FiReturn, Return
  <2>2. CASE callback[s] = "close"
    <3>1. object' = [object EXCEPT ![s] = Null]
      BY <1>6, <2>2 DEF FiReturn
    <3> QED BY <2>1, <2>2, <3>1
  <2>3. CASE callback[s] # "close"
    <3>1. UNCHANGED object
      BY <1>6, <2>3 DEF FiReturn
    <3> QED BY <2>1, <2>3, <3>1
  <2> QED BY <2>2, <2>3
<1>7. ASSUME UNCHANGED <<stage, callback, object>>
      PROVE  HandleLife'
  BY <1>7
<1> QED
  BY <1>1, <1>2, <1>3, <1>4, <1>5, <1>6, <1>7
  DEF SessionNext, Collect, CallMethod, sessionVars

(* Every event after negotiate finds an Envelope to restore, provided only *)
(* that the negotiate event of its session could be queued.                *)
THEOREM HandleAtHand ==
  ASSUME "negotiate" \notin Refusing
  PROVE  SessionSpec => []HandleFromConnectToClose
<1>1. SessionInit => HandleLife
  BY DEF SessionInit, ServiceInit, HandleLife, Holds
<1>2. SessionInv /\ HandleLife /\ [SessionNext]_sessionVars => HandleLife'
  BY HandleLifeStep
<1>3. HandleLife => HandleFromConnectToClose
  BY DEF HandleLife, Holds, HandleFromConnectToClose
<1> QED BY <1>1, <1>2, <1>3, SessionInvariance, PTL DEF SessionSpec

-----------------------------------------------------------------------------
(* A handle whose Envelope points at a close event is in that event's      *)
(* callback: the answer resets it, and nothing brings it back.             *)
CloseInHand ==
  \A s \in Session :
    object[s] # Null /\ kind[object[s]] = "close" =>
      callback[s] = "close" /\ stage[s] = "delivered"

(* Only the turn of a close event points the session's Envelope at one.    *)
LEMMA CloseInHandStep ==
  ASSUME SessionInv, CloseInHand, [SessionNext]_sessionVars
  PROVE  CloseInHand'
<1> USE DEF CloseInHand, SessionTypeOK, ServiceTypeOK
<1>1. ASSUME NEW s \in Session, NEW c, Generate(s, c),
             UNCHANGED <<object, kind>>
      PROVE  CloseInHand'
  <2>1. stage[s] = "idle"
    BY <1>1 DEF Generate, Submit, Refuse
  <2>2. \A t \in Session \ {s} :
          stage'[t] = stage[t] /\ callback'[t] = callback[t]
    BY <1>1 DEF Generate, Submit, Refuse
  <2> QED BY <1>1, <2>1, <2>2
<1>2. ASSUME NEW s \in Session, FireNegotiate(s)
      PROVE  CloseInHand'
  <2>1. PICK o \in Object \ made :
          /\ object' = [object EXCEPT ![s] = o]
          /\ kind' = [kind EXCEPT ![o] = "negotiate"]
    BY <1>2 DEF FireNegotiate, SetCurrentEvent
  <2>2. \A t \in Session \ {s} :
          stage'[t] = stage[t] /\ callback'[t] = callback[t]
    BY <1>2 DEF FireNegotiate, Deliver
  <2> QED BY <2>1, <2>2 DEF HandlesOwned
<1>3. ASSUME NEW s \in Session, FireCallback(s)
      PROVE  CloseInHand'
  <2>1. /\ object[s] # Null
        /\ kind' = [kind EXCEPT ![object[s]] = callback[s]]
        /\ stage' = [stage EXCEPT ![s] = "delivered"]
        /\ UNCHANGED <<callback, object>>
    BY <1>3 DEF FireCallback, SetCurrentEvent, Deliver
  <2>2. \A t \in Session \ {s} : object[t] # Null => object[t] # object[s]
    BY <2>1 DEF HandlesOwned
  <2> QED BY <2>1, <2>2
<1>4. ASSUME NEW s \in Session, NEW v \in Verdict, Done(s, v)
      PROVE  CloseInHand'
  <2>1. /\ stage' = [stage EXCEPT ![s] = "answered"]
        /\ object' = Postfire(s)
        /\ UNCHANGED <<callback, kind>>
    BY <1>4 DEF Done, Answer
  <2> QED BY <2>1 DEF Postfire
<1>5. ASSUME NEW s \in Session, FiReturn(s)
      PROVE  CloseInHand'
  <2>1. /\ stage[s] = "answered"
        /\ stage' = [stage EXCEPT ![s] = "idle"]
        /\ UNCHANGED <<callback, kind>>
        /\ object' = object \/ object' = [object EXCEPT ![s] = Null]
    BY <1>5 DEF FiReturn, Return
  <2> QED BY <2>1
<1>6. ASSUME NEW o \in Object, Collect(o)
      PROVE  CloseInHand'
  BY <1>6 DEF Collect
<1>7. ASSUME UNCHANGED <<stage, callback, object, kind>>
      PROVE  CloseInHand'
  BY <1>7
<1> QED
  BY <1>1, <1>2, <1>3, <1>4, <1>5, <1>6, <1>7
  DEF SessionNext, FiNegotiate, FiCallback, CallMethod, sessionVars

(* Whichever callbacks are refused, a session whose close event reached    *)
(* the script leaves nothing behind in the V8 heap.                        *)
THEOREM NothingLeaks == SessionSpec => HandlesReleased
<1> DEFINE Released ==
      \A s \in Session : private[s] /\ ~ private'[s] =>
        object[s] = Null \/ kind[object[s]] # "close"
<1>1. SessionInit => CloseInHand
  BY DEF SessionInit, CloseInHand
<1>2. SessionInv /\ CloseInHand /\ [SessionNext]_sessionVars => CloseInHand'
  BY CloseInHandStep
<1>3. CloseInHand /\ SessionInv /\ [SessionNext]_sessionVars
        => [Released]_sessionVars
  <2> SUFFICES ASSUME CloseInHand, SessionInv, SessionNext,
                      NEW s \in Session, private[s], ~ private'[s]
               PROVE  object[s] = Null \/ kind[object[s]] # "close"
    BY DEF sessionVars
  <2>1. FiReturn(s)
    <3>1. ASSUME NEW t \in Session, FiReturn(t)
          PROVE  t = s
      BY <3>1 DEF FiReturn, SessionTypeOK
    <3>2. ASSUME NEW t \in Session, FiNegotiate(t)
          PROVE  FALSE
      BY <3>2 DEF FiNegotiate, SessionTypeOK
    <3>3. private' # private
      OBVIOUS
    <3> QED
      BY <3>1, <3>2, <3>3
      DEF SessionNext, FiCallback, FireNegotiate, FireCallback, Done, Collect,
          CallMethod
  <2>2. stage[s] = "answered"
    BY <2>1 DEF FiReturn, Return
  <2> QED BY <2>2 DEF CloseInHand
<1> QED BY <1>1, <1>2, <1>3, SessionInvariance, PTL
    DEF SessionSpec, HandlesReleased

(* Every variable of the session layer has its type.                       *)
THEOREM SessionTypes == SessionSpec => []SessionTypeOK
<1>1. SessionInv => SessionTypeOK
  OBVIOUS
<1> QED BY <1>1, SessionInvariance, PTL

=============================================================================
