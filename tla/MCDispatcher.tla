---------------------------- MODULE MCDispatcher ----------------------------
(***************************************************************************)
(* Small instances of Dispatcher for TLC.                                  *)
(***************************************************************************)
EXTENDS Dispatcher

CONSTANTS s1, s2, p1, p2, d1, c1

\* s2 is the event with an expiration; c1 comes due later than d1.
TaskDelay ==
  [x \in Tasks |-> CASE x = s2 -> 1 [] x = d1 -> 1 [] x = c1 -> 2 [] OTHER -> 0]
=============================================================================
