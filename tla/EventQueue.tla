----------------------------- MODULE EventQueue -----------------------------
(***************************************************************************)
(* What the dispatcher promises the rest of the server, without threads,   *)
(* slots, merging or wake-ups: a submitted event runs at most once (a      *)
(* cycle event once per cycle), the game logic never runs two things at a  *)
(* time unless all of them were submitted as parallel, a stopped event     *)
(* does not start again, and only expired and stopped events are dropped.  *)
(***************************************************************************)
CONSTANTS
  Exclusive,   \* events that run alone
  Parallel,    \* events that run beside each other
  Stoppable,   \* events stopEvent can stop
  Cycling,     \* events that are queued again when they have run
  Expiring     \* events that may be dropped for being late

VARIABLES queued, running, stopped

eqVars == <<queued, running, stopped>>

Init == queued = {} /\ running = {} /\ stopped = {}

Submit(x) ==
  /\ x \notin queued \cup running
  /\ queued' = queued \cup {x}
  /\ UNCHANGED <<running, stopped>>

Stop(x) ==
  /\ x \in Stoppable /\ x \in queued \cup running
  /\ stopped' = stopped \cup {x}
  /\ UNCHANGED <<queued, running>>

Start(x) ==
  /\ x \in queued \ stopped
  /\ IF x \in Exclusive THEN running = {} ELSE running \subseteq Parallel
  /\ queued' = queued \ {x}
  /\ running' = running \cup {x}
  /\ UNCHANGED stopped

Finish(x) ==
  /\ x \in running
  /\ running' = running \ {x}
  /\ IF x \in Cycling
     THEN queued' = queued \cup {x} /\ UNCHANGED stopped
     ELSE stopped' = stopped \ {x} /\ UNCHANGED queued

Drop(x) ==
  /\ x \in queued /\ x \in Expiring \cup stopped
  /\ queued' = queued \ {x}
  /\ stopped' = stopped \ {x}
  /\ UNCHANGED running

Next ==
  \E x \in Exclusive \cup Parallel :
    Submit(x) \/ Stop(x) \/ Start(x) \/ Finish(x) \/ Drop(x)

EventQueueSpec == Init /\ [][Next]_eqVars
=============================================================================
