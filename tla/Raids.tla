------------------------------- MODULE Raids -------------------------------
(***************************************************************************)
(* Raids of src/lua/creature/raids.cpp: the check that starts one at       *)
(* random, the chain of events of the raid that runs, and reloading.       *)
(*                                                                         *)
(* A Raid object lives as long as raidList or running refers to it; its    *)
(* events in the dispatcher hold a bare pointer.  An event runs scripts,   *)
(* which start raids and reload them, so it takes two steps.  When raids   *)
(* are cleared while one runs that raidList does not hold, or from within  *)
(* an event of a raid, the object is freed under its event: slip names     *)
(* what happened, and behaviours are followed up to there.                 *)
(***************************************************************************)
EXTENDS Naturals, FiniteSets

CONSTANTS
  RaidNames,     \* the raids of raids.xml
  Repeatable,    \* those with repeat
  NoEvents,      \* those without events
  EventCount,    \* events of every other raid
  MaxLoads,      \* bound: how often raids.xml is read
  NoRaid

RaidObjects == RaidNames \X (1..MaxLoads)

ASSUME RaidsAssumption ==
  /\ Repeatable \subseteq RaidNames /\ NoEvents \subseteq RaidNames
  /\ EventCount \in Nat \ {0} /\ MaxLoads \in Nat /\ NoRaid \notin RaidObjects

VARIABLES
  xmlLoads,      \* history: how often raids.xml was read
  raidsStarted,  \* started
  raidList,
  runningRaid,   \* running: the raid that runs, or NoRaid
  nextEvent,     \* of a raid
  eventDue,      \* raids with an executeRaidEvent in the dispatcher
  executing,     \* the raid whose event is being executed, or NoRaid
  raidChecks,    \* checkRaids events in the dispatcher
  raidSlip       \* history: an object was freed under its event

raidVars ==
  <<xmlLoads, raidsStarted, raidList, runningRaid, nextEvent, eventDue, executing,
    raidChecks, raidSlip>>

RaidsInit ==
  /\ xmlLoads = 0 /\ raidsStarted = FALSE
  /\ raidList = {} /\ runningRaid = NoRaid
  /\ nextEvent = [o \in RaidObjects |-> 0]
  /\ eventDue = {} /\ executing = NoRaid
  /\ raidChecks = 0 /\ raidSlip = "none"

-----------------------------------------------------------------------------
\* loadFromXml() and startup(): every raid a new object, and the first check.
LoadAndStartup ==
  /\ xmlLoads < MaxLoads /\ xmlLoads' = xmlLoads + 1
  /\ raidList' = RaidNames \X {xmlLoads'}
  /\ raidsStarted' = TRUE

\* Game::setGameState, when the game starts.
StartRaids ==
  /\ xmlLoads = 0
  /\ LoadAndStartup
  /\ raidChecks' = raidChecks + 1
  /\ UNCHANGED <<runningRaid, nextEvent, eventDue, executing, raidSlip>>

\* stopEvent(checkRaidsEvent) in clear().
StopCheck(n) == IF n > 0 THEN n - 1 ELSE 0

\* clear(): only the raids of raidList are stopped.
Clear ==
  /\ runningRaid' = NoRaid
  /\ eventDue' = eventDue \ raidList
  /\ raidSlip' = IF executing # NoRaid THEN "within its event"
                 ELSE IF eventDue \subseteq raidList THEN "none" ELSE "event left"
  /\ UNCHANGED <<nextEvent, executing>>

\* reload() and startup(), by a signal, a command or a script.
ReloadRaids ==
  /\ raidsStarted
  /\ Clear
  /\ LoadAndStartup
  /\ raidChecks' = StopCheck(raidChecks) + 1

\* Game::shutdown() clears the raids.
ShutdownRaids ==
  /\ raidsStarted /\ executing = NoRaid
  /\ Clear
  /\ raidList' = {} /\ raidsStarted' = FALSE
  /\ raidChecks' = StopCheck(raidChecks)
  /\ UNCHANGED xmlLoads

\* setRunning() and startRaid(): a raid without events is over at once.
StartRaid(o) ==
  IF o[1] \in NoEvents
  THEN runningRaid' = NoRaid /\ UNCHANGED eventDue
  ELSE runningRaid' = o /\ eventDue' = eventDue \cup {o}

\* checkRaids(): a raid whose margin has passed may be drawn; one that cannot
\* be repeated is dropped from raidList while it runs.
CheckRaids ==
  /\ executing = NoRaid /\ raidChecks > 0
  /\ \/ UNCHANGED <<runningRaid, eventDue, raidList>>
     \/ /\ runningRaid = NoRaid
        /\ \E o \in raidList :
             /\ StartRaid(o)
             /\ raidList' = IF o[1] \in Repeatable THEN raidList ELSE raidList \ {o}
  /\ raidChecks' = (raidChecks - 1) + 1
  /\ UNCHANGED <<xmlLoads, raidsStarted, nextEvent, executing, raidSlip>>

\* Game.startRaid() of a script.
LuaGameStartRaid(o) ==
  /\ o \in raidList
  /\ runningRaid = NoRaid
  /\ StartRaid(o)
  /\ UNCHANGED <<xmlLoads, raidsStarted, raidList, nextEvent, executing, raidChecks, raidSlip>>

\* executeRaidEvent() runs the event ...
ExecuteRaidEvent(o) ==
  /\ executing = NoRaid /\ o \in eventDue
  /\ executing' = o
  /\ eventDue' = eventDue \ {o}
  /\ UNCHANGED <<xmlLoads, raidsStarted, raidList, runningRaid, nextEvent, raidChecks, raidSlip>>

ResetRaidKeepingEvent(o) ==   \* mutant: nextEvent is not set back
  /\ runningRaid' = NoRaid
  /\ UNCHANGED <<eventDue, nextEvent>>

\* resetRaid().
ResetRaid(o) ==
  /\ nextEvent' = [nextEvent EXCEPT ![o] = 0]
  /\ runningRaid' = NoRaid
  /\ UNCHANGED eventDue

\* ... and schedules the next one, or ends the raid, also when the event failed.
RaidEventDone(ok) ==
  /\ executing # NoRaid
  /\ LET o == executing IN
     IF ok /\ nextEvent[o] + 1 < EventCount
     THEN /\ nextEvent' = [nextEvent EXCEPT ![o] = @ + 1]
          /\ eventDue' = eventDue \cup {o}
          /\ UNCHANGED runningRaid
     ELSE ResetRaid(o)
  /\ executing' = NoRaid
  /\ UNCHANGED <<xmlLoads, raidsStarted, raidList, raidChecks, raidSlip>>

RaidsNext ==
  /\ raidSlip = "none"
  /\ \/ StartRaids \/ ReloadRaids \/ ShutdownRaids \/ CheckRaids
     \/ \E o \in RaidObjects : LuaGameStartRaid(o) \/ ExecuteRaidEvent(o)
     \/ \E ok \in BOOLEAN : RaidEventDone(ok)

RaidsSpec == RaidsInit /\ [][RaidsNext]_raidVars

-----------------------------------------------------------------------------
(***************************************************************************)
(* Properties.                                                             *)
(***************************************************************************)

\* One raid at most has an event in the dispatcher or on the stack, it is the
\* one `running' names, and therefore alive: raids end in every way, are dropped
\* from raidList, started by scripts and reloaded without leaving `running' set
\* for good, which would keep every later raid from starting.
OneRaidAtATime ==
  raidSlip = "none" =>
    eventDue \cup ({executing} \ {NoRaid}) = {runningRaid} \ {NoRaid}

\* A raid of raidList that does not run begins with its first event when it is
\* started, however it ended before.
RaidsStartOver ==
  \A o \in raidList \ {runningRaid} : nextEvent[o] = 0

\* A started server has one check of the raids scheduled, also after reloads.
RaidsAreChecked == raidChecks = IF raidsStarted THEN 1 ELSE 0

\* One raid runs at a time, every raid starts from its beginning, and raids are
\* checked for as long as the server is started.
RaidsAreOrderly == OneRaidAtATime /\ RaidsStartOver /\ RaidsAreChecked
=============================================================================
