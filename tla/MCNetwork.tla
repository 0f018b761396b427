----------------------------- MODULE MCNetwork -----------------------------
(***************************************************************************)
(* Small instances of Connection, Session and WaitingList for TLC.  The    *)
(* three share no state in their modules, so a behaviour is one of one of  *)
(* them: part says of which, and the others stay as they are.              *)
(***************************************************************************)
EXTENDS Connection, Session, WaitingList

CONSTANTS c1, c2, c3, g1, g2, g3, gm

VARIABLE part

vars == <<part, connVars, sessionVars, waitVars>>

Init ==
  /\ ConnectionInit /\ SessionInit /\ WaitingListInit
  /\ \/ part = "connection" /\ premium = {}
     \/ part = "session" /\ premium = {} /\ hasProtocol
     \/ part = "waiting" /\ hasProtocol

Next ==
  \/ part = "connection" /\ ConnectionNext /\ UNCHANGED <<part, sessionVars, waitVars>>
  \/ part = "session" /\ SessionNext /\ UNCHANGED <<part, connVars, waitVars>>
  \/ part = "waiting" /\ WaitingListNext /\ UNCHANGED <<part, connVars, sessionVars>>

\* In its initial state a part has nothing to be fair about, so the fairness of
\* one part asks nothing of the behaviours of another.
Spec == Init /\ [][Next]_vars /\ ConnectionFairness /\ SessionFairness
=============================================================================
