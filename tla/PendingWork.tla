---------------------------- MODULE PendingWork ----------------------------
(***************************************************************************)
(* What the work queue and its workers promise the event handlers: a key   *)
(* that is marked is pending until a worker starts on it; marks coalesce;  *)
(* at most one worker at a time works on a key; a mark that arrives while  *)
(* the key is worked on is not lost; a key whose processing failed is      *)
(* delayed and becomes pending again.  Once closed, nothing new is taken.  *)
(***************************************************************************)
CONSTANT Keys

VARIABLES pending, running, delayed, closed

vars == <<pending, running, delayed, closed>>

Init ==
    /\ pending = {}
    /\ running = {}
    /\ delayed = {}
    /\ closed = FALSE

Mark(k) ==
    /\ ~closed
    /\ pending' = pending \cup {k}
    /\ UNCHANGED <<running, delayed, closed>>

Start(k) ==
    /\ k \in pending \ running
    /\ pending' = pending \ {k}
    /\ running' = running \cup {k}
    /\ UNCHANGED <<delayed, closed>>

Finish(k) ==
    /\ k \in running
    /\ running' = running \ {k}
    /\ UNCHANGED <<pending, delayed, closed>>

Delay(k) ==
    /\ ~closed
    /\ k \in running
    /\ delayed' = delayed \cup {k}
    /\ UNCHANGED <<pending, running, closed>>

(* A delayed key becomes pending; it stays delayed when it was delayed     *)
(* more than once.                                                         *)
Expire(k) ==
    /\ ~closed
    /\ k \in delayed
    /\ delayed' \in {delayed, delayed \ {k}}
    /\ pending' = pending \cup {k}
    /\ UNCHANGED <<running, closed>>

Close ==
    /\ closed' = TRUE
    /\ UNCHANGED <<pending, running, delayed>>

Next ==
    \/ \E k \in Keys :
         Mark(k) \/ Start(k) \/ Finish(k) \/ Delay(k) \/ Expire(k)
    \/ Close

Spec == Init /\ [][Next]_vars
=============================================================================
