------------------------------- MODULE Spawn -------------------------------
(***************************************************************************)
(* One SpawnMonster of src/creatures/monsters/spawns/spawn_monster.cpp:    *)
(* blocks of which each holds at most one monster, the check that refills  *)
(* them, and the delayed spawns it starts for monsters a player near by    *)
(* does not block.                                                         *)
(*                                                                         *)
(* Placing a monster runs scripts, which may remove it or another one, so  *)
(* a walk over the blocks takes several steps.  Time is only whether the   *)
(* interval of a block has passed since its lastSpawn.                     *)
(***************************************************************************)
EXTENDS Naturals, FiniteSets, Sequences

CONSTANTS
  Blocks,      \* keys of spawnMonsterMap
  Blockable,   \* those of monsters that do not appear while a player is near
  Blinks,      \* teleport effects before a monster that cannot be blocked appears
  MaxChecks,   \* bound: check events in the dispatcher
  MaxChains    \* bound: delayed spawns of one block in the dispatcher

ASSUME SpawnAssumption ==
  /\ Blockable \subseteq Blocks /\ Blinks \in Nat \ {0}
  /\ MaxChecks \in Nat /\ MaxChains \in Nat

VARIABLES
  begun,        \* the spawn has been started
  spawnedMap,   \* spawnedMonsterMap: "none", or whether the monster found is removed
  living,       \* monsters of a block in the world
  rested,       \* blocks whose interval has passed
  chains,       \* pending scheduleSpawn events: effects still to show
  spawnEvent,   \* checkSpawnMonsterEvent # 0
  checksDue,    \* checkSpawnMonster events in the dispatcher
  walk,         \* a running loop over the blocks
  neglected     \* history: blocks left empty without anything being scheduled

spawnVars == <<begun, spawnedMap, living, rested, chains, spawnEvent, checksDue, walk, neglected>>

NoWalk == [on |-> "none", todo |-> {}, calling |-> FALSE]

SpawnInit ==
  /\ begun = FALSE
  /\ spawnedMap = [b \in Blocks |-> "none"]
  /\ living = [b \in Blocks |-> 0]
  /\ rested = Blocks
  /\ chains = [b \in Blocks |-> <<>>]
  /\ spawnEvent = FALSE /\ checksDue = 0
  /\ walk = NoWalk /\ neglected = {}

-----------------------------------------------------------------------------
InScript == walk.on = "none" \/ walk.calling

\* startSpawnMonsterCheck().
StartSpawnMonsterCheck ==
  /\ spawnEvent \/ checksDue < MaxChecks
  /\ spawnEvent' = TRUE
  /\ checksDue' = IF spawnEvent THEN checksDue ELSE checksDue + 1

\* startup(), at the start of the game.
SpawnStartup ==
  /\ ~begun /\ begun' = TRUE
  /\ walk' = [on |-> "startup", todo |-> Blocks, calling |-> FALSE]
  /\ UNCHANGED <<spawnedMap, living, rested, chains, spawnEvent, checksDue, neglected>>

\* A spawn that a script adds with setSpawnPosition() starts with a check.
SetSpawnPosition ==
  /\ ~begun /\ begun' = TRUE
  /\ StartSpawnMonsterCheck
  /\ UNCHANGED <<spawnedMap, living, rested, chains, walk, neglected>>

Walked(b, called) == [walk EXCEPT !.todo = @ \ {b}, !.calling = called]

SpawnMonsterUnguarded(b) ==   \* mutant: spawnedMonsterMap is not asked
  /\ spawnedMap' = [spawnedMap EXCEPT ![b] = "alive"]
  /\ living' = [living EXCEPT ![b] = @ + 1]
  /\ walk' = Walked(b, walk.on # "none")
  /\ UNCHANGED neglected

\* spawnMonster(): the block may be taken, and placing the monster may fail; a
\* script that sees the monster appear may remove it before it knows its spawn.
SpawnMonster(b) ==
  \/ /\ walk' = Walked(b, FALSE)
     /\ neglected' = IF walk.on = "startup" THEN neglected \cup {b} ELSE neglected
     /\ UNCHANGED <<spawnedMap, living>>
  \/ /\ spawnedMap[b] = "none"
     /\ spawnedMap' = [spawnedMap EXCEPT ![b] = "alive"]
     /\ living' = [living EXCEPT ![b] = @ + 1]
     /\ walk' = Walked(b, walk.on # "none")
     /\ UNCHANGED neglected
  \/ /\ spawnedMap[b] = "none"
     /\ spawnedMap' = [spawnedMap EXCEPT ![b] = "removed"]
     /\ neglected' = neglected \cup {b}
     /\ walk' = Walked(b, walk.on # "none")
     /\ UNCHANGED living

\* A turn of the loop of startup().
StartupBlock(b) ==
  /\ walk.on = "startup" /\ ~walk.calling /\ b \in walk.todo
  /\ SpawnMonster(b)
  /\ UNCHANGED <<begun, rested, chains, spawnEvent, checksDue>>

\* A check event: one that is not the latest finds checkSpawnMonsterEvent at 0
\* unless a later one is due.  cleanup() forgets the removed monsters.
CheckSpawnMonster ==
  /\ walk.on = "none" /\ checksDue > 0
  /\ checksDue' = checksDue - 1
  /\ IF ~spawnEvent
     THEN UNCHANGED <<spawnedMap, rested, walk, spawnEvent, neglected>>
     ELSE LET gone == {b \in Blocks : spawnedMap[b] = "removed"} IN
          /\ spawnEvent' = FALSE
          /\ spawnedMap' = [b \in Blocks |-> IF b \in gone THEN "none" ELSE spawnedMap[b]]
          /\ rested' = rested \ gone
          /\ walk' = [on |-> "check", todo |-> Blocks, calling |-> FALSE]
          /\ neglected' = {}
  /\ UNCHANGED <<begun, living, chains>>

\* A turn of the loop of checkSpawnMonster().
CheckBlock(b) ==
  /\ walk.on = "check" /\ ~walk.calling /\ b \in walk.todo
  /\ \/ \* the block is taken, has no monster type (a zone variant can leave it
        \* without one), or has not rested
        /\ walk' = Walked(b, FALSE)
        /\ UNCHANGED <<spawnedMap, living, rested, chains, neglected>>
     \/ \* the monster may not appear now, or a player is near
        /\ spawnedMap[b] = "none"
        /\ rested' = rested \ {b}
        /\ walk' = Walked(b, FALSE)
        /\ UNCHANGED <<spawnedMap, living, chains, neglected>>
     \/ /\ spawnedMap[b] = "none" /\ b \in rested /\ b \in Blockable
        /\ SpawnMonster(b)
        /\ rested' = IF spawnedMap'[b] = "none" THEN rested ELSE rested \ {b}
        /\ UNCHANGED chains
     \/ /\ spawnedMap[b] = "none" /\ b \in rested \ Blockable
        /\ Len(chains[b]) < MaxChains
        /\ chains' = [chains EXCEPT ![b] = Append(@, Blinks - 1)]
        /\ walk' = Walked(b, FALSE)
        /\ UNCHANGED <<spawnedMap, living, rested, neglected>>
  /\ UNCHANGED <<begun, spawnEvent, checksDue>>

\* The scripts of a new monster have run.
Called ==
  /\ walk.calling
  /\ walk' = [walk EXCEPT !.calling = FALSE]
  /\ UNCHANGED <<begun, spawnedMap, living, rested, chains, spawnEvent, checksDue, neglected>>

\* The end of either loop; checkSpawnMonster() then counts what it has placed,
\* and may overwrite the id of a check that a script has scheduled meanwhile.
WalkDone ==
  /\ walk.on # "none" /\ walk.todo = {} /\ ~walk.calling
  /\ walk' = NoWalk
  /\ IF walk.on = "check" /\ \E b \in Blocks : spawnedMap[b] = "none"
     THEN checksDue < MaxChecks /\ checksDue' = checksDue + 1 /\ spawnEvent' = TRUE
     ELSE UNCHANGED <<checksDue, spawnEvent>>
  /\ UNCHANGED <<begun, spawnedMap, living, rested, chains, neglected>>

\* An event of scheduleSpawn().
ScheduleSpawn(b) ==
  /\ walk.on = "none"
  /\ \E n \in DOMAIN chains[b] :
       LET others == SubSeq(chains[b], 1, n - 1) \o SubSeq(chains[b], n + 1, Len(chains[b])) IN
       IF chains[b][n] > 0
       THEN /\ chains' = [chains EXCEPT ![b][n] = @ - 1]
            /\ UNCHANGED <<spawnedMap, living, walk, neglected>>
       ELSE /\ chains' = [chains EXCEPT ![b] = others]
            /\ SpawnMonster(b)
  /\ UNCHANGED <<begun, rested, spawnEvent, checksDue>>

\* Monster::onRemoveCreature().
MonsterRemoved(b) ==
  /\ InScript /\ living[b] > 0
  /\ living' = [living EXCEPT ![b] = @ - 1]
  /\ spawnedMap' = [spawnedMap EXCEPT ![b] = "removed"]
  /\ StartSpawnMonsterCheck
  /\ UNCHANGED <<begun, rested, chains, walk, neglected>>

\* The interval of a block passes.
IntervalPasses(b) ==
  /\ walk.on = "none" /\ b \notin rested
  /\ rested' = rested \cup {b}
  /\ UNCHANGED <<begun, spawnedMap, living, chains, spawnEvent, checksDue, walk, neglected>>

SpawnNext ==
  \/ SpawnStartup \/ SetSpawnPosition \/ CheckSpawnMonster \/ Called \/ WalkDone
  \/ \E b \in Blocks :
       \/ StartupBlock(b) \/ CheckBlock(b) \/ ScheduleSpawn(b)
       \/ MonsterRemoved(b) \/ IntervalPasses(b)

SpawnSpec == SpawnInit /\ [][SpawnNext]_spawnVars

-----------------------------------------------------------------------------
(***************************************************************************)
(* Properties.                                                             *)
(***************************************************************************)

\* The counters stay in their ranges, and a check whose id is kept is pending.
SpawnTypeOK ==
  /\ spawnedMap \in [Blocks -> {"none", "alive", "removed"}]
  /\ rested \subseteq Blocks /\ neglected \subseteq Blocks
  /\ \A b \in Blocks : \A n \in DOMAIN chains[b] : chains[b][n] \in 0..(Blinks - 1)
  /\ checksDue \in 0..MaxChecks
  /\ spawnEvent => checksDue > 0

\* A block never has two monsters in the world, however checks and delayed
\* spawns overlap, and spawnedMonsterMap knows the one it has.
OnePerBlock ==
  \A b \in Blocks : living[b] = IF spawnedMap[b] = "alive" THEN 1 ELSE 0

\* Once a spawn has been started, a block without a living monster has a check
\* scheduled, whatever scripts removed while the last check was walking.  The
\* two exceptions are a monster that startup() could not place and one a script
\* removed while it was being placed.
RespawnIsScheduled ==
  begun /\ walk.on = "none" =>
    \A b \in Blocks \ neglected : living[b] = 0 => spawnEvent

\* A block has one monster at most, and one that has none will be refilled.
SpawnIsKept == SpawnTypeOK /\ OnePerBlock /\ RespawnIsScheduled
=============================================================================
