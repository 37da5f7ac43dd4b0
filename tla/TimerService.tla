---------------------------- MODULE TimerService ----------------------------
(***************************************************************************)
(* What the scheduler promises its callers, without threads, ids or time:  *)
(* an event is scheduled once, then it either fires once or is cancelled,  *)
(* and never both; a shutdown forgets the pending ones.                    *)
(***************************************************************************)
CONSTANT Task

VARIABLES pending, fired, cancelled, lost

vars == <<pending, fired, cancelled, lost>>

Init == pending = {} /\ fired = {} /\ cancelled = {} /\ lost = {}

Schedule(t) ==
  /\ t \notin pending \union fired \union cancelled \union lost
  /\ pending' = pending \union {t}
  /\ UNCHANGED <<fired, cancelled, lost>>

Fire(t) ==
  /\ t \in pending
  /\ pending' = pending \ {t}
  /\ fired' = fired \union {t}
  /\ UNCHANGED <<cancelled, lost>>

Cancel(t) ==
  /\ t \in pending
  /\ pending' = pending \ {t}
  /\ cancelled' = cancelled \union {t}
  /\ UNCHANGED <<fired, lost>>

Forget ==
  /\ lost' = lost \union pending
  /\ pending' = {}
  /\ UNCHANGED <<fired, cancelled>>

Next == \/ \E t \in Task : Schedule(t) \/ Fire(t) \/ Cancel(t)
        \/ Forget

Spec == Init /\ [][Next]_vars
=============================================================================
