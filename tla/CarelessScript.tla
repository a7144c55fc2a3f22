--------------------------- MODULE CarelessScript ---------------------------
(***************************************************************************)
(* EventBridge with a script that calls done() again on an envelope whose  *)
(* callback it has answered.  Envelope::current_event is never reset, so   *)
(* the call reaches whatever event lives at that address by then.          *)
(***************************************************************************)
EXTENDS EventBridge

(* done(v) with no callback of s to answer: MilterEvent::Done without the  *)
(* event's mutex.  (On an address that holds no event it would run on      *)
(* freed memory, and has no modelled outcome.)                             *)
DoneAgain(s, v) ==
  LET e == current_event[s]
  IN  /\ npc \in {"loop", "script"} /\ done_pc = "none"
      /\ s \notin owes
      /\ e \in heap
      /\ fi_retval' = Recorded(e, v)
      /\ pc' = Signalled(e)
      /\ is_done' = [is_done EXCEPT ![e] = TRUE]
      /\ done_pc' = "unlock"
      /\ done_ev' = e
      /\ UNCHANGED <<event, retval, objectVars, smfi_context, ev_next,
                     pt_lock, listVars, lck_queue, pending, nodeVars,
                     scriptVars>>

CarelessNext ==
  \/ Next
  \/ \E s \in Session, v \in Verdict : DoneAgain(s, v)

CarelessSpec == Init /\ [][CarelessNext]_vars

-----------------------------------------------------------------------------
(* A done() `called outside event context' is refused: no event is         *)
(* completed while it is still queued or not handed to the script yet.     *)
DoneNeedsContext ==
  \A e \in heap : is_done[e] => e \notin Queued \cup {ev}

=============================================================================
