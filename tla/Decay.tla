------------------------------- MODULE Decay -------------------------------
(***************************************************************************)
(* Timed transformation of items: src/items/decay/decay.cpp, with the      *)
(* operations of item.cpp, container.cpp and game.cpp that start and stop  *)
(* it.                                                                     *)
(*                                                                         *)
(* decayMap orders the items by the time they are due, and one dispatcher  *)
(* event, eventId, is to be scheduled for the first of them.  checkDecay   *)
(* copies the items that are due, decays each of them, and then reads the  *)
(* iterator `it' it kept: decaying an item removes or transforms it, which *)
(* starts and stops the decay of others and may run a script.  So a check  *)
(* is one step per item, and what a script may do can come between them.   *)
(* Time passes between checks only.                                        *)
(***************************************************************************)
EXTENDS Integers, FiniteSets, FiniteSetsExt

CONSTANTS
  Things,       \* items
  Boxes,       \* the items that are containers
  Durations,   \* what setID gives an item of a type that decays
  MaxTime      \* bound of the model: the clock

ASSUME DecayAssumption ==
  /\ Boxes \subseteq Things /\ "tile" \notin Boxes /\ "gone" \notin Boxes
  /\ MaxTime \in Nat /\ Durations \subseteq Nat \ {0}

Tile == "tile"     \* parents that are not items
Gone == "gone"
NoTime == 0          \* no DURATION_TIMESTAMP; no event; `it' is end()
NoDuration == -1   \* no DURATION

VARIABLES
  time,       \* OTSYS_TIME()
  item,       \* the items and their attributes
  decayMap,   \* <<t, i>>: item i is in decayMap[t]
  checkEvent,      \* when the event of eventId is due, or NoTime
  orphans,    \* when other check events are due, whose identifiers are lost
  check,      \* a running checkDecay
  slips       \* history: what the code does not guard itself against

decayVars == <<time, item, decayMap, checkEvent, orphans, check, slips>>

States == {"idle", "decaying", "pending", "stopping"}
NoCheck == [on |-> FALSE, todo |-> {}, it |-> NoTime]

\* An item that does not exist (any more).
Missing == [parent |-> Gone, state |-> "idle", stamp |-> NoTime,
           duration |-> NoDuration, decays |-> FALSE]

DecayInit ==
  /\ time = 0
  /\ item = [i \in Things |-> Missing]
  /\ decayMap = {} /\ checkEvent = NoTime /\ orphans = {}
  /\ check = NoCheck /\ slips = {}

-----------------------------------------------------------------------------
(***************************************************************************)
(* startDecay, stopDecay and internalDecayItem, as functions on the state. *)
(***************************************************************************)
DecayState == [item |-> item, map |-> decayMap, checkEvent |-> checkEvent,
               orphans |-> orphans, todo |-> check.todo, slips |-> slips]

IsRemoved(s, i) ==
  LET p == s.item[i].parent IN p = Gone \/ (p \in Boxes /\ s.item[p].parent = Gone)

\* Nothing refers to the item: it is deleted, and a new one can take its name.
Unused(s, i) ==
  /\ IsRemoved(s, i)
  /\ \A e \in s.map \cup s.todo : e[2] # i
  /\ \A j \in Things : s.item[j].parent # i

DecayBecomes(s) ==
  /\ item' = [i \in Things |-> IF Unused(s, i) THEN Missing ELSE s.item[i]]
  /\ decayMap' = s.map
  /\ checkEvent' = s.checkEvent /\ orphans' = s.orphans /\ slips' = s.slips
  /\ check' = [check EXCEPT !.todo = s.todo]

CanDecay(s, i) == ~IsRemoved(s, i) /\ s.item[i].decays

GetDuration(x) ==
  IF x.state \notin {"decaying", "stopping"} THEN x.duration
  ELSE IF x.stamp > time THEN x.stamp - time ELSE 0

Node(s, t) == {e \in s.map : e[1] = t}

\* stopDecay().  An item that is not where its time stamp says keeps its state.
\* The time stamp of an item that was stopped, which startDecay overwrites before
\* anything reads it, is left out.
StopDecay(s, i) ==
  LET x == s.item[i]
      at == Node(s, x.stamp)
      stopped == [x EXCEPT !.state = "idle", !.stamp = NoTime,
                           !.duration = IF @ = NoDuration THEN @ ELSE GetDuration(x)]
  IN  IF x.state = "idle" THEN s
      ELSE IF x.stamp = NoTime THEN [s EXCEPT !.item[i].state = "idle"]
      ELSE IF <<x.stamp, i>> \in at
      THEN [s EXCEPT !.item[i] = stopped, !.map = @ \ {<<x.stamp, i>>},
                     !.slips = IF check.on /\ check.it = x.stamp /\ Cardinality(at) = 1
                               THEN @ \cup {"dangling"} ELSE @]
      ELSE IF Cardinality(at) = 1 THEN s
      ELSE [s EXCEPT !.item[i].stamp = NoTime]

FirstDue(map) == Min({e[1] : e \in map})

\* The event that startDecay schedules for an item due at t, if it is the first.
Schedule(s, t) ==
  IF s.map = {}
  THEN [s EXCEPT !.checkEvent = t, !.orphans = (@ \cup {s.checkEvent}) \ {NoTime}]
  ELSE IF t < FirstDue(s.map) THEN [s EXCEPT !.checkEvent = t]
  ELSE s

\* startDecay() of an item that has some duration left.
StartTimed(s, i) ==
  LET t == time + s.item[i].duration
      s1 == IF s.item[i].stamp # NoTime THEN StopDecay(s, i) ELSE s
      s2 == Schedule(s1, t)
  IN  [s2 EXCEPT !.item[i].state = "decaying", !.item[i].stamp = t,
                 !.map = @ \cup {<<t, i>>},
                 !.slips = IF \E e \in s.todo : e[2] = i
                           THEN @ \cup {"renewed"} ELSE @]

StopDecayingBoxOnly(s, i) ==   \* mutant: Container::stopDecaying() is not overridden
  StopDecay(s, i)

\* Container::stopDecaying(): the container and its contents.  Each is stopped as if
\* it were the only one, since it erases no entry but its own; what they erase
\* together may be the whole node of `it'.
StopDecaying(s, i) ==
  LET js == {j \in Things : j = i \/ s.item[j].parent = i}
      left == {e \in s.map : e[2] \in js => e \in StopDecay(s, e[2]).map}
      erased == {e \in s.map : e[1] = check.it} # {} /\ {e \in left : e[1] = check.it} = {}
  IN  [s EXCEPT !.item = [j \in Things |-> IF j \in js THEN StopDecay(s, j).item[j] ELSE @[j]],
                !.map = left,
                !.slips = IF check.on /\ erased THEN @ \cup {"dangling"} ELSE @]

\* internalRemoveItem().
Removed(s, i) == StopDecaying([s EXCEPT !.item[i].parent = Gone], i)

\* transformItem() to a type of the same kind: setID(), then startDecaying().
Transformed(s, i, d) ==
  IF d # NoDuration
  THEN StartTimed([s EXCEPT !.item[i].state = "pending", !.item[i].duration = d,
                            !.item[i].decays = TRUE], i)
  ELSE StopDecay([s EXCEPT !.item[i].state = IF @ = "idle" THEN @ ELSE "stopping",
                           !.item[i].duration = NoDuration,
                           !.item[i].decays = FALSE], i)

\* transformItem() to a type of another kind: Item::transform() puts a new item
\* j in the place of i, with the duration that i has left, if any.
Replaced(s, i, j, d) ==
  LET left == GetDuration(s.item[i])
      new == [parent |-> s.item[i].parent, state |-> "idle", stamp |-> NoTime,
              duration |-> IF left > 0 THEN left ELSE d, decays |-> d # NoDuration]
      s1 == StopDecaying([s EXCEPT !.item[i].parent = Gone, !.item[j] = new], i)
  IN  IF CanDecay(s1, j) THEN StartTimed(s1, j) ELSE s1

SomeDuration == Durations \cup {NoDuration}

\* internalDecayItem(): the item is transformed or removed, or left as it is
\* (it was loaded from the map, or cannot be removed or transformed).
DecayItem(s, i) ==
  {s, Removed(s, i)}
  \cup {Transformed(s, i, d) : d \in SomeDuration}
  \cup {Replaced(s, i, j, d) : j \in {k \in Things : Unused(s, k)}, d \in SomeDuration}

\* startDecay().
StartDecay(s, i) ==
  LET x == s.item[i] IN
  IF x.state = "stopping" \/ (~CanDecay(s, i) /\ x.state = "decaying") THEN {StopDecay(s, i)}
  ELSE IF ~CanDecay(s, i) \/ x.state = "decaying" THEN {s}
  ELSE IF x.duration = 0 THEN DecayItem(s, i)
  ELSE IF x.duration > 0 THEN {StartTimed(s, i)}
  ELSE {s}

-----------------------------------------------------------------------------
(***************************************************************************)
(* The game and its scripts, outside a check and within one.               *)
(***************************************************************************)
InWorld(i) == ~IsRemoved(DecayState, i)

\* An item is created, on a tile or in a container, and its decay is started.
CreateItem(i, p, d) ==
  /\ Unused(DecayState, i)
  /\ p = Tile \/ (p \in Boxes /\ item[p].parent = Tile)
  /\ i \in Boxes => p = Tile
  /\ DecayBecomes(StartTimed([DecayState EXCEPT !.item[i] =
       [parent |-> p, state |-> "pending", stamp |-> NoTime, duration |-> d,
        decays |-> TRUE]], i))
  /\ UNCHANGED time

\* startDecaying() and stopDecaying() of a script, or of an item that is moved.
StartItem(i) ==
  /\ InWorld(i)
  /\ \E s \in StartDecay(DecayState, i) : DecayBecomes(s)
  /\ UNCHANGED time

StopItem(i) ==
  /\ InWorld(i)
  /\ DecayBecomes(StopDecaying(DecayState, i))
  /\ UNCHANGED time

\* transformItem() and internalRemoveItem() by the game or a script.  Outside a
\* check, an item that is replaced is one removed and one created.
TransformItem(i, d) ==
  /\ InWorld(i)
  /\ DecayBecomes(Transformed(DecayState, i, d))
  /\ UNCHANGED time

RemoveItem(i) ==
  /\ InWorld(i)
  /\ DecayBecomes(Removed(DecayState, i))
  /\ UNCHANGED time

\* item:setAttribute("duration", d).
SetDuration(i, d) ==
  /\ InWorld(i)
  /\ \E s \in StartDecay([DecayState EXCEPT !.item[i].state = "pending",
                                        !.item[i].duration = d], i) : DecayBecomes(s)
  /\ UNCHANGED time

-----------------------------------------------------------------------------
(***************************************************************************)
(* checkDecay.                                                             *)
(***************************************************************************)
Due(t) == t # NoTime /\ t <= time

\* A check event fires: the items that are due leave decayMap.
CheckDecay ==
  /\ ~check.on
  /\ \/ Due(checkEvent) /\ checkEvent' = NoTime /\ UNCHANGED orphans
     \/ \E t \in orphans : Due(t) /\ orphans' = orphans \ {t} /\ UNCHANGED checkEvent
  /\ decayMap' = {e \in decayMap : e[1] > time}
  /\ check' = [on |-> TRUE, todo |-> decayMap \ decayMap',
               it |-> IF decayMap' = {} THEN NoTime ELSE FirstDue(decayMap')]
  /\ UNCHANGED <<time, item, slips>>

\* One of the copied items, in the order of their times, leaves decay or decays.
DecayNext(e) ==
  /\ e \in check.todo /\ \A f \in check.todo : e[1] <= f[1]
  /\ LET i == e[2]
         x == item[i]
         off == [x EXCEPT !.state = "idle", !.stamp = NoTime]
         rest == [DecayState EXCEPT !.todo = @ \ {e}]
     IN  IF CanDecay(DecayState, i)
         THEN \E s \in DecayItem([rest EXCEPT !.item[i] = off], i) : DecayBecomes(s)
         ELSE DecayBecomes([rest EXCEPT !.item[i] = [off EXCEPT !.duration = GetDuration(x)]])
  /\ UNCHANGED time

\* The end of checkDecay: the next check is scheduled for `it', and eventId is
\* overwritten.
CheckDone ==
  /\ check.on /\ check.todo = {}
  /\ check' = NoCheck
  /\ IF check.it # NoTime
     THEN checkEvent' = check.it /\ orphans' = (orphans \cup {checkEvent}) \ {NoTime}
     ELSE UNCHANGED <<checkEvent, orphans>>
  /\ UNCHANGED <<time, item, decayMap, slips>>

AdvanceTime ==
  /\ ~check.on /\ time < MaxTime
  /\ time' = time + 1
  /\ UNCHANGED <<item, decayMap, checkEvent, orphans, check, slips>>

\* A behaviour is followed up to its first slip: a dangling `it' is undefined.
DecayNextState ==
  /\ slips = {}
  /\ \/ \E i \in Things :
          \/ \E p \in {Tile} \cup Boxes, d \in Durations : CreateItem(i, p, d)
          \/ StartItem(i) \/ StopItem(i) \/ RemoveItem(i)
          \/ \E d \in SomeDuration : TransformItem(i, d)
          \/ \E d \in Durations : SetDuration(i, d)
     \/ CheckDecay \/ CheckDone \/ AdvanceTime
     \/ \E e \in check.todo : DecayNext(e)

DecaySpec == DecayInit /\ [][DecayNextState]_decayVars

-----------------------------------------------------------------------------
(***************************************************************************)
(* Properties.                                                             *)
(***************************************************************************)

\* Items, entries and events keep their types, and a check holds items that
\* were due.
DecayTypeOK ==
  /\ \A i \in Things :
       /\ item[i].parent \in {Tile, Gone} \cup Boxes
       /\ item[i].state \in States
       /\ item[i].stamp \in Nat
       /\ item[i].duration \in {NoDuration} \cup Nat
  /\ decayMap \subseteq (Nat \ {0}) \X Things
  /\ checkEvent \in Nat /\ orphans \subseteq Nat \ {0}
  /\ \A e \in check.todo : e[1] <= time

\* While an item is in decayMap a check event is scheduled, no later than the
\* item is due, in spite of events that were stopped, replaced or left behind;
\* unless a decay callback erased the entry that checkDecay's iterator was at.
NextCheckIsScheduled ==
  decayMap # {} /\ ~check.on /\ slips = {} =>
    \E t \in orphans \cup ({checkEvent} \ {NoTime}) : t <= FirstDue(decayMap)

\* An item is in decayMap once, under the time stamp it has, exactly while it is
\* marked as decaying, and never when it has left the world; unless a callback
\* gave a new duration to an item that the running check had already copied.
EntryIsMarked ==
  slips = {} =>
    /\ \A e \in decayMap : InWorld(e[2])
    /\ \A i \in Things :
         \/ \E e \in check.todo : e[2] = i
         \/ {e \in decayMap : e[2] = i} =
              (IF item[i].state = "decaying" THEN {<<item[i].stamp, i>>} ELSE {})

\* Every decaying item will be found by a check in time, once.
DecayIsOrderly == DecayTypeOK /\ NextCheckIsScheduled /\ EntryIsMarked
=============================================================================
