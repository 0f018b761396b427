----------------------------- MODULE PlayerSave -----------------------------
(***************************************************************************)
(* Saving one character: src/game/scheduling/save_manager.cpp, with the    *)
(* login, logout and shutdown paths that create, save and drop its Player  *)
(* objects.                                                                *)
(*                                                                         *)
(* The dispatcher changes the online Player and schedules saves; pool      *)
(* threads run them later.  A load holds a weak_ptr: it saves nothing when *)
(* the object is gone, or when m_playerMap holds another time stamp than   *)
(* the one it was scheduled with.  The state of a character is the set of  *)
(* changes made to it, so that a lost change shows.                        *)
(***************************************************************************)
EXTENDS Integers, FiniteSets

CONSTANTS
  MaxObjects,   \* bounds of the model: Player objects, changes, scheduled
  MaxChanges,   \* saves
  MaxStamps,
  SaveFails     \* TRUE: IOLoginData::savePlayer may fail

ASSUME PlayerSaveAssumption ==
  {MaxObjects, MaxChanges, MaxStamps} \subseteq Nat /\ SaveFails \in BOOLEAN

Objects == 1..MaxObjects
Changes == 1..MaxChanges
Stamps == 0..MaxStamps
All == 0        \* in a load: scheduleAll's, for every player online
Offline == -1   \* in a load: of a player who is not online, on the dispatcher thread

VARIABLES
  object,       \* the life of each Player object
  data,         \* the changes it has
  playerMap,    \* m_playerMap[guid]; 0: no entry
  scheduledAt,  \* m_scheduledAt
  clock,        \* the last time stamp given
  loads,        \* loads of the pool, with the step each has reached
  row,          \* the changes that are in the database
  running,      \* the thread pool has not been stopped
  made,         \* history: changes made
  due,          \* history: the changes of the last save asked for
  incidents     \* history: events that cost a save

saveVars == <<object, data, playerMap, scheduledAt, clock, loads, row, running,
              made, due, incidents>>

Lives == {"unused", "online", "left", "released"}
Loads == [obj : {All, Offline} \cup Objects, at : Stamps,
          step : {"posted", "checked", "saving"}, copy : SUBSET Changes]

PlayerSaveInit ==
  /\ object = [o \in Objects |-> "unused"]
  /\ data = [o \in Objects |-> {}]
  /\ playerMap = 0 /\ scheduledAt = 0 /\ clock = 0
  /\ loads = {}
  /\ row = {}
  /\ running = TRUE
  /\ made = 0 /\ due = {} /\ incidents = {}

-----------------------------------------------------------------------------
Online == {o \in Objects : object[o] = "online"}

\* A save that was asked for has not reached the database.
Outstanding == ~(due \subseteq row)

\* The event costs a save if one is outstanding.
Note(event) == incidents' = IF Outstanding THEN incidents \cup {event} ELSE incidents

\* The dispatcher thread is not inside the save of an offline player.
DispatcherFree == \A l \in loads : l.obj # Offline

\* A save of an object of the character is on its way.
Saving == \E l \in loads : l.obj \in Objects

\* login(): a new object is loaded from the row.
LoginPlayer(o) ==
  /\ running /\ DispatcherFree
  /\ Online = {}
  /\ object[o] = "unused" /\ \A u \in 1..(o - 1) : object[u] # "unused"
  /\ object' = [object EXCEPT ![o] = "online"]
  /\ data' = [data EXCEPT ![o] = row]
  /\ incidents' = IF Saving THEN incidents \cup {"earlyLogin"} ELSE incidents
  /\ UNCHANGED <<playerMap, scheduledAt, clock, loads, row, running, made, due>>

\* Whatever changes the player on the dispatcher thread.  No handler takes the
\* PlayerLock of a save that is running.
ChangePlayer(o) ==
  /\ o \in Online
  /\ made < MaxChanges
  /\ made' = made + 1
  /\ data' = [data EXCEPT ![o] = @ \cup {made'}]
  /\ UNCHANGED <<object, playerMap, scheduledAt, clock, loads, row, running, due,
                 incidents>>

\* schedulePlayer, for an object whose state is then d.
SchedulePlayer(o, d) ==
  /\ clock < MaxStamps
  /\ clock' = clock + 1
  /\ playerMap' = clock'
  /\ loads' = loads \cup {[obj |-> o, at |-> clock', step |-> "posted", copy |-> {}]}
  /\ due' = d

\* savePlayer of a player in the game, which isOnline().
SavePlayer(o) ==
  /\ o \in Online /\ running
  /\ SchedulePlayer(o, data[o])
  /\ UNCHANGED <<object, data, scheduledAt, row, running, made, incidents>>

\* logout and removeCreature: onRemoveCreature schedules a save, since online
\* is never reset.
LogoutPlayer(o) ==
  /\ o \in Online
  /\ object' = [object EXCEPT ![o] = "left"]
  /\ SchedulePlayer(o, data[o])
  /\ UNCHANGED <<data, scheduledAt, row, running, made, incidents>>

\* The protocol, the last owner of the object, is released.
ReleasePlayer(o) ==
  /\ DispatcherFree
  /\ object[o] = "left"
  /\ object' = [object EXCEPT ![o] = "released"]
  /\ IF \E l \in loads : l.obj = o /\ l.step = "posted" THEN Note("released")
     ELSE UNCHANGED incidents
  /\ UNCHANGED <<data, playerMap, scheduledAt, clock, loads, row, running, made, due>>

\* The market, the mail or a house changes a player who is not online: it loads
\* an object of its own (getPlayerByGUID), changes it, and saves it at once,
\* under that object's own lock (CommitSave is the end of it).
OfflineChange ==
  /\ running /\ Online = {} /\ DispatcherFree
  /\ made < MaxChanges
  /\ made' = made + 1
  /\ playerMap' = 0
  /\ loads' = loads \cup {[obj |-> Offline, at |-> 0, step |-> "saving",
                          copy |-> row \cup {made'}]}
  /\ due' = due \cup {made'}
  /\ incidents' = IF Saving THEN incidents \cup {"offlineChange"} ELSE incidents
  /\ UNCHANGED <<object, data, scheduledAt, clock, row, running>>

ScheduleAll ==
  /\ running /\ DispatcherFree
  /\ clock < MaxStamps
  /\ clock' = clock + 1
  /\ scheduledAt' = clock'
  /\ loads' = loads \cup {[obj |-> All, at |-> clock', step |-> "posted", copy |-> {}]}
  /\ due' = due \cup UNION {data[o] : o \in Online}
  /\ UNCHANGED <<object, data, playerMap, row, running, made, incidents>>

-----------------------------------------------------------------------------
(***************************************************************************)
(* The pool threads.                                                       *)
(***************************************************************************)

\* The weak_ptr of a load still has an object.
Alive(o) ==
  \/ object[o] \in {"online", "left"}
  \/ \E l \in loads : l.obj = o /\ l.step # "posted"

\* The load of schedulePlayer up to the call of doSavePlayer.
CheckLoad(l) ==
  /\ l \in loads /\ l.step = "posted" /\ l.obj # All
  /\ loads' = (loads \ {l}) \cup
       (IF Alive(l.obj) /\ playerMap = l.at THEN {[l EXCEPT !.step = "checked"]} ELSE {})
  /\ UNCHANGED <<object, data, playerMap, scheduledAt, clock, row, running, made, due,
                 incidents>>

\* The load of scheduleAll: saveAll calls doSavePlayer for the players online.
CheckAll(l) ==
  /\ l \in loads /\ l.step = "posted" /\ l.obj = All
  /\ loads' = (loads \ {l}) \cup
       (IF scheduledAt = l.at
        THEN {[l EXCEPT !.step = "checked", !.obj = o] : o \in Online} ELSE {})
  /\ UNCHANGED <<object, data, playerMap, scheduledAt, clock, row, running, made, due,
                 incidents>>

BeginSaveUnlocked(l) ==   \* mutant
  /\ l \in loads /\ l.step = "checked"
  /\ playerMap' = 0
  /\ loads' = (loads \ {l}) \cup {[l EXCEPT !.step = "saving", !.copy = data[l.obj]]}
  /\ UNCHANGED <<object, data, scheduledAt, clock, row, running, made, due, incidents>>

BeginSaveLateErase(l) ==   \* mutant: the entry is erased after the state is read
  /\ l \in loads /\ l.step = "checked"
  /\ \A m \in loads : m.obj = l.obj => m.step # "saving"
  /\ \/ l.copy = {} /\ UNCHANGED playerMap
        /\ loads' = (loads \ {l}) \cup {[l EXCEPT !.copy = data[l.obj]]}
     \/ l.copy # {} /\ playerMap' = 0
        /\ loads' = (loads \ {l}) \cup {[l EXCEPT !.step = "saving"]}
  /\ UNCHANGED <<object, data, scheduledAt, clock, row, running, made, due, incidents>>

\* doSavePlayer under PlayerLock: the entry of m_playerMap is erased, then the
\* player's state is read.
BeginSave(l) ==
  /\ l \in loads /\ l.step = "checked"
  /\ \A m \in loads : m.obj = l.obj => m.step # "saving"
  /\ playerMap' = 0
  /\ loads' = (loads \ {l}) \cup {[l EXCEPT !.step = "saving", !.copy = data[l.obj]]}
  /\ UNCHANGED <<object, data, scheduledAt, clock, row, running, made, due, incidents>>

\* What a save writes: the dispatcher thread changes the player while the save
\* reads it, and any of those changes may be in what was read.
Stored(l) ==
  IF l.obj = Offline THEN {l.copy}
  ELSE {l.copy \cup s : s \in SUBSET (data[l.obj] \ l.copy)}

\* The transaction of IOLoginData::savePlayer ends and PlayerLock is released.
\* A failure is logged and not repeated.
CommitSave(l) ==
  /\ l \in loads /\ l.step = "saving"
  /\ loads' = loads \ {l}
  /\ \/ row' \in Stored(l) /\ UNCHANGED incidents
     \/ SaveFails /\ UNCHANGED row /\ incidents' = incidents \cup {"failed"}
  /\ UNCHANGED <<object, data, playerMap, scheduledAt, clock, running, made, due>>

\* GAME_STATE_SHUTDOWN has kicked the players, and saved nobody; the pool then
\* stops and drops the loads that no thread has taken.
StopPool ==
  /\ running /\ Online = {} /\ DispatcherFree
  /\ running' = FALSE
  /\ loads' = {l \in loads : l.step # "posted"}
  /\ IF loads' # loads THEN Note("stopped") ELSE UNCHANGED incidents
  /\ UNCHANGED <<object, data, playerMap, scheduledAt, clock, row, made, due>>

PlayerSaveNext ==
  \/ \E o \in Objects :
       \/ LoginPlayer(o) \/ ChangePlayer(o) \/ SavePlayer(o)
       \/ LogoutPlayer(o) \/ ReleasePlayer(o)
  \/ OfflineChange \/ ScheduleAll \/ StopPool
  \/ \E l \in loads : CheckLoad(l) \/ CheckAll(l) \/ BeginSave(l) \/ CommitSave(l)

PlayerSaveSpec == PlayerSaveInit /\ [][PlayerSaveNext]_saveVars

-----------------------------------------------------------------------------
(***************************************************************************)
(* Properties.                                                             *)
(***************************************************************************)

\* The objects, the loads and m_playerMap keep their types, and one Player
\* object of the character is in the game at most.
PlayerSaveTypeOK ==
  /\ object \in [Objects -> Lives]
  /\ data \in [Objects -> SUBSET Changes]
  /\ {playerMap, scheduledAt, clock} \subseteq Stamps
  /\ loads \subseteq Loads
  /\ row \subseteq Changes
  /\ Cardinality(Online) <= 1

\* The time stamps skip saves but lose none: when no load is left, the database
\* has everything that was to be saved when the last save was asked for, in
\* spite of saves that were superseded, erased each other's stamp, or ran
\* together.  What costs a save is in incidents: an object released before its
\* logout save ran, a login or an offline change while a save was still on its
\* way, a stopped pool, and a failed transaction.
SavedWhenQuiet ==
  incidents = {} /\ loads = {} => due \subseteq row

\* A save never takes back what an earlier one has stored: the saves of one
\* object are serialised by its PlayerLock, and its state is read under it.
SavesGoForward ==
  [][incidents' = {} => row \subseteq row']_saveVars

\* The records of the save manager are consistent and no due save is lost.
SavesAreKept == PlayerSaveTypeOK /\ SavedWhenQuiet
=============================================================================
