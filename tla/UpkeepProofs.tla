---------------------------- MODULE UpkeepProofs ----------------------------
(***************************************************************************)
(* Proofs about the work that the dispatcher does at intervals or in the   *)
(* background: spawns, raids, the rounds of checkCreatures, the saves of   *)
(* the players and the decay of items.  The parts share no state.          *)
(***************************************************************************)
EXTENDS Raids, Spawn, CreatureChecks, PlayerSave, Decay, VectorLemmas

-----------------------------------------------------------------------------
(***************************************************************************)
(* Spawns: a block without a living monster has a check to come or is      *)
(* still to be visited by the one that runs.                               *)
(***************************************************************************)

\* How many teleport effects are still to be shown.
Effects == 0..(Blinks - 1)

\* The types.
SpawnTypes ==
  /\ spawnedMap \in [Blocks -> {"none", "alive", "removed"}]
  /\ living \in [Blocks -> Nat]
  /\ rested \subseteq Blocks /\ neglected \subseteq Blocks
  /\ chains \in [Blocks -> Seq(Effects)]
  /\ walk \in [on : {"none", "startup", "check"}, todo : SUBSET Blocks, calling : BOOLEAN]
  /\ checksDue \in 0..MaxChecks

\* A block that spawnedMonsterMap has no monster for, or a removed one, is refilled
\* by the check that is scheduled, by the check that is running or because
\* startup() has still to come to it.
Refilled(b) ==
  begun /\ b \notin neglected =>
    /\ spawnedMap[b] = "removed" => spawnEvent
    /\ spawnedMap[b] = "none" =>
         spawnEvent \/ walk.on = "check" \/ (walk.on = "startup" /\ b \in walk.todo)

\* The inductive invariant of a spawn.
SpawnInv ==
  /\ SpawnTypes
  /\ spawnEvent => checksDue > 0
  /\ OnePerBlock
  /\ \A b \in Blocks : Refilled(b)
  /\ ~begun => /\ walk.on = "none" /\ checksDue = 0
               /\ \A b \in Blocks : spawnedMap[b] = "none" /\ chains[b] = <<>>

\* Nothing has been spawned before startup.
LEMMA SpawnInitInv == SpawnInit => SpawnInv
<1> SUFFICES ASSUME SpawnInit PROVE SpawnInv
  OBVIOUS
<1>1. <<>> \in Seq(Effects)
  OBVIOUS
<1>2. SpawnTypes
  BY <1>1, SpawnAssumption DEF SpawnInit, SpawnTypes, NoWalk
<1>3. QED
  BY <1>2 DEF SpawnInit, SpawnInv, OnePerBlock, Refilled, NoWalk

\* spawnMonster() is called for block b by one of the loops or by a delayed spawn.
LEMMA SpawnMonsterInv ==
  ASSUME SpawnInv, NEW b \in Blocks, SpawnMonster(b), begun,
         UNCHANGED <<begun, spawnEvent, checksDue>>,
         rested' \subseteq Blocks, chains' \in [Blocks -> Seq(Effects)]
  PROVE  SpawnInv'
<1>1. /\ walk' \in [on : {"none", "startup", "check"}, todo : SUBSET Blocks, calling : BOOLEAN]
      /\ walk'.on = walk.on /\ walk'.todo = walk.todo \ {b}
  <2>1. (walk.on # "none") = TRUE \/ (walk.on # "none") = FALSE
    BY Zenon
  <2>2. walk' = Walked(b, TRUE) \/ walk' = Walked(b, FALSE)
    BY <2>1, Zenon DEF SpawnMonster
  <2>3. QED
    BY <2>2 DEF Walked, SpawnInv, SpawnTypes
<1>2. CASE /\ neglected' = IF walk.on = "startup" THEN neglected \cup {b} ELSE neglected
           /\ UNCHANGED <<spawnedMap, living>>
  <2>1. SpawnTypes'
    BY <1>1, <1>2 DEF SpawnInv, SpawnTypes
  <2>2. \A c \in Blocks : Refilled(c)'
    BY <1>1, <1>2 DEF SpawnInv, Refilled
  <2>3. QED
    BY <1>2, <2>1, <2>2 DEF SpawnInv, OnePerBlock
<1>3. CASE /\ spawnedMap[b] = "none"
           /\ spawnedMap' = [spawnedMap EXCEPT ![b] = "alive"]
           /\ living' = [living EXCEPT ![b] = @ + 1]
           /\ UNCHANGED neglected
  <2>1. SpawnTypes'
    BY <1>1, <1>3 DEF SpawnInv, SpawnTypes
  <2>2. \A c \in Blocks : Refilled(c)'
    BY <1>1, <1>3 DEF SpawnInv, SpawnTypes, Refilled
  <2>3. OnePerBlock'
    BY <1>3 DEF SpawnInv, SpawnTypes, OnePerBlock
  <2>4. QED
    BY <2>1, <2>2, <2>3 DEF SpawnInv
<1>4. CASE /\ spawnedMap[b] = "none"
           /\ spawnedMap' = [spawnedMap EXCEPT ![b] = "removed"]
           /\ neglected' = neglected \cup {b}
           /\ UNCHANGED living
  <2>1. SpawnTypes'
    BY <1>1, <1>4 DEF SpawnInv, SpawnTypes
  <2>2. \A c \in Blocks : Refilled(c)'
    BY <1>1, <1>4 DEF SpawnInv, SpawnTypes, Refilled
  <2>3. OnePerBlock'
    BY <1>4 DEF SpawnInv, SpawnTypes, OnePerBlock
  <2>4. QED
    BY <2>1, <2>2, <2>3 DEF SpawnInv
<1>5. QED
  BY <1>2, <1>3, <1>4 DEF SpawnMonster

\* startup() begins with every block to do.
LEMMA StartupInv ==
  ASSUME SpawnInv, SpawnStartup \/ SetSpawnPosition
  PROVE  SpawnInv'
<1>1. /\ ~begun /\ begun' /\ UNCHANGED <<spawnedMap, living, rested, chains, neglected>>
      /\ \/ walk' = [on |-> "startup", todo |-> Blocks, calling |-> FALSE]
            /\ UNCHANGED <<spawnEvent, checksDue>>
         \/ UNCHANGED walk /\ StartSpawnMonsterCheck
  BY DEF SpawnStartup, SetSpawnPosition
<1>2. SpawnTypes' /\ (spawnEvent' => checksDue' > 0)
  <2>1. walk' \in [on : {"none", "startup", "check"}, todo : SUBSET Blocks, calling : BOOLEAN]
    <3>1. walk' = [on |-> "startup", todo |-> Blocks, calling |-> FALSE] \/ walk' = walk
      BY <1>1
    <3>2. /\ [on |-> "startup", todo |-> Blocks, calling |-> FALSE]
               \in [on : {"none", "startup", "check"}, todo : SUBSET Blocks, calling : BOOLEAN]
          /\ walk \in [on : {"none", "startup", "check"}, todo : SUBSET Blocks, calling : BOOLEAN]
      BY DEF SpawnInv, SpawnTypes
    <3>3. QED
      BY <3>1, <3>2, Zenon
  <2>2. checksDue' \in 0..MaxChecks /\ (spawnEvent' => checksDue' > 0)
    BY <1>1, SpawnAssumption DEF SpawnInv, SpawnTypes, StartSpawnMonsterCheck
  <2>3. QED
    BY <1>1, <2>1, <2>2 DEF SpawnInv, SpawnTypes
<1>3. \A b \in Blocks : Refilled(b)'
  BY <1>1 DEF SpawnInv, SpawnTypes, Refilled, StartSpawnMonsterCheck
<1>4. QED
  BY <1>1, <1>2, <1>3 DEF SpawnInv, OnePerBlock

\* A due check cleans up and walks over the blocks.
LEMMA CheckSpawnInv ==
  ASSUME SpawnInv, CheckSpawnMonster
  PROVE  SpawnInv'
<1>1. /\ checksDue > 0 /\ checksDue' = checksDue - 1 /\ walk.on = "none"
      /\ UNCHANGED <<begun, living, chains>> /\ begun
      /\ checksDue' \in 0..MaxChecks
  BY SpawnAssumption DEF CheckSpawnMonster, SpawnInv, SpawnTypes
<1>2. CASE ~spawnEvent
  <2>1. UNCHANGED <<spawnedMap, rested, walk, spawnEvent, neglected>>
    BY <1>2 DEF CheckSpawnMonster
  <2>2. QED
    BY <1>1, <1>2, <2>1 DEF SpawnInv, SpawnTypes, OnePerBlock, Refilled
<1>3. CASE spawnEvent
  <2> DEFINE gone == {b \in Blocks : spawnedMap[b] = "removed"}
  <2>1. /\ spawnEvent' = FALSE
        /\ spawnedMap' = [b \in Blocks |-> IF b \in gone THEN "none" ELSE spawnedMap[b]]
        /\ rested' = rested \ gone
        /\ walk' = [on |-> "check", todo |-> Blocks, calling |-> FALSE]
        /\ neglected' = {}
    BY <1>3 DEF CheckSpawnMonster
  <2>2. SpawnTypes'
    BY <1>1, <2>1 DEF SpawnInv, SpawnTypes
  <2>3. \A b \in Blocks : Refilled(b)'
    BY <2>1 DEF SpawnInv, SpawnTypes, Refilled
  <2>4. OnePerBlock'
    BY <1>1, <2>1 DEF SpawnInv, SpawnTypes, OnePerBlock
  <2>5. QED
    BY <1>1, <2>1, <2>2, <2>3, <2>4 DEF SpawnInv
<1>4. QED
  BY <1>2, <1>3

\* A check spawns, or schedules a delayed spawn for, the block it comes to.
LEMMA CheckBlockInv ==
  ASSUME SpawnInv, NEW b \in Blocks, CheckBlock(b)
  PROVE  SpawnInv'
<1>1. walk.on = "check" /\ begun /\ UNCHANGED <<begun, spawnEvent, checksDue>>
  BY DEF CheckBlock, SpawnInv
<1>2. CASE /\ walk' = Walked(b, FALSE) /\ UNCHANGED <<spawnedMap, living, neglected>>
           /\ rested' \subseteq rested
           /\ chains' \in [Blocks -> Seq(Effects)]
  <2>1. /\ walk'.on = "check"
        /\ walk' \in [on : {"none", "startup", "check"}, todo : SUBSET Blocks, calling : BOOLEAN]
    BY <1>1, <1>2 DEF SpawnInv, SpawnTypes, Walked
  <2>2. QED
    BY <1>1, <1>2, <2>1 DEF SpawnInv, SpawnTypes, OnePerBlock, Refilled
<1>3. CASE /\ SpawnMonster(b) /\ rested' \subseteq rested /\ UNCHANGED chains
  <2>1. rested' \subseteq Blocks /\ chains' \in [Blocks -> Seq(Effects)]
    BY <1>3 DEF SpawnInv, SpawnTypes
  <2>2. QED
    BY <1>1, <1>3, <2>1, SpawnMonsterInv
<1>4. chains \in [Blocks -> Seq(Effects)]
  BY DEF SpawnInv, SpawnTypes
<1>5. [chains EXCEPT ![b] = Append(@, Blinks - 1)] \in [Blocks -> Seq(Effects)]
  <2>1. Append(chains[b], Blinks - 1) \in Seq(Effects)
    BY <1>4, SpawnAssumption DEF Effects
  <2>2. QED
    BY <1>4, <2>1
<1>6. QED
  BY <1>2, <1>3, <1>4, <1>5 DEF CheckBlock

\* The end of a walk schedules the next check when blocks are empty.
LEMMA WalkDoneInv ==
  ASSUME SpawnInv, WalkDone
  PROVE  SpawnInv'
<1>1. /\ walk.on # "none" /\ walk.todo = {} /\ walk' = NoWalk /\ begun
      /\ UNCHANGED <<begun, spawnedMap, living, rested, chains, neglected>>
  BY DEF WalkDone, SpawnInv
<1>2. walk' \in [on : {"none", "startup", "check"}, todo : SUBSET Blocks, calling : BOOLEAN]
  BY <1>1 DEF NoWalk
<1>3. CASE walk.on = "check" /\ \E b \in Blocks : spawnedMap[b] = "none"
  <2>1. checksDue < MaxChecks /\ checksDue' = checksDue + 1 /\ spawnEvent' = TRUE
    BY <1>3 DEF WalkDone
  <2>2. SpawnTypes' /\ checksDue' > 0
    BY <1>1, <1>2, <2>1, SpawnAssumption DEF SpawnInv, SpawnTypes
  <2>3. QED
    BY <1>1, <2>1, <2>2 DEF SpawnInv, OnePerBlock, Refilled
<1>4. CASE ~(walk.on = "check" /\ \E b \in Blocks : spawnedMap[b] = "none")
  <2>1. UNCHANGED <<checksDue, spawnEvent>>
    BY <1>4 DEF WalkDone
  <2>2. SpawnTypes'
    BY <1>1, <1>2, <2>1 DEF SpawnInv, SpawnTypes
  <2>3. \A b \in Blocks : Refilled(b)'
    BY <1>1, <1>4, <2>1 DEF SpawnInv, SpawnTypes, Refilled
  <2>4. QED
    BY <1>1, <2>1, <2>2, <2>3 DEF SpawnInv, OnePerBlock
<1>5. QED
  BY <1>3, <1>4

\* A delayed spawn loses an effect, or is gone.
LEMMA ChainsOK ==
  ASSUME NEW s \in Seq(Effects), NEW n \in DOMAIN s
  PROVE  /\ s[n] > 0 => [s EXCEPT ![n] = @ - 1] \in Seq(Effects)
         /\ SubSeq(s, 1, n - 1) \o SubSeq(s, n + 1, Len(s)) \in Seq(Effects)
<1>1. Len(s) \in Nat /\ DOMAIN s = 1..Len(s) /\ n \in 1..Len(s)
  BY LenProperties
<1>2. \A i \in 1..Len(s) : s[i] \in Effects
  BY <1>1, ElementOfSeq
<1>3. s[n] > 0 => s[n] - 1 \in Effects
  BY <1>1, <1>2, SpawnAssumption DEF Effects
<1>4. s[n] > 0 => [s EXCEPT ![n] = @ - 1] \in Seq(Effects)
  BY <1>1, <1>3, ExceptSeq
<1>5. \A i \in 1..(n - 1) : s[i] \in Effects
  BY <1>1, <1>2
<1>6. SubSeq(s, 1, n - 1) \in Seq(Effects)
  BY <1>1, <1>5, SubSeqProperties
<1>7. \A i \in (n + 1)..Len(s) : s[i] \in Effects
  BY <1>1, <1>2
<1>8. SubSeq(s, n + 1, Len(s)) \in Seq(Effects)
  BY <1>1, <1>7, SubSeqProperties
<1>9. QED
  BY <1>4, <1>6, <1>8, ConcatProperties

\* A delayed spawn shows its effects and then spawns once.
LEMMA ScheduleInv ==
  ASSUME SpawnInv, NEW b \in Blocks, ScheduleSpawn(b)
  PROVE  SpawnInv'
<1>1. UNCHANGED <<begun, rested, spawnEvent, checksDue>> /\ walk.on = "none"
  BY DEF ScheduleSpawn
<1>2. chains \in [Blocks -> Seq(Effects)] /\ rested' \subseteq Blocks
  BY <1>1 DEF SpawnInv, SpawnTypes
<1>3. PICK n \in DOMAIN chains[b] :
        LET others == SubSeq(chains[b], 1, n - 1) \o SubSeq(chains[b], n + 1, Len(chains[b])) IN
        IF chains[b][n] > 0
        THEN /\ chains' = [chains EXCEPT ![b][n] = @ - 1]
             /\ UNCHANGED <<spawnedMap, living, walk, neglected>>
        ELSE /\ chains' = [chains EXCEPT ![b] = others]
             /\ SpawnMonster(b)
  BY DEF ScheduleSpawn
<1>4. begun
  <2>1. chains[b] # <<>>
    BY <1>3
  <2>2. QED
    BY <2>1 DEF SpawnInv
<1>5. CASE chains[b][n] > 0
  <2>1. [chains[b] EXCEPT ![n] = @ - 1] \in Seq(Effects)
    BY <1>2, <1>5, ChainsOK
  <2>2. chains' = [chains EXCEPT ![b] = [chains[b] EXCEPT ![n] = @ - 1]]
    BY <1>2, <1>3, <1>5
  <2>3. chains' \in [Blocks -> Seq(Effects)]
    BY <1>2, <2>1, <2>2
  <2>4. QED
    BY <1>1, <1>3, <1>4, <1>5, <2>3 DEF SpawnInv, SpawnTypes, OnePerBlock, Refilled
<1>6. CASE ~(chains[b][n] > 0)
  <2>1. SubSeq(chains[b], 1, n - 1) \o SubSeq(chains[b], n + 1, Len(chains[b])) \in Seq(Effects)
    BY <1>2, ChainsOK
  <2>2. chains' \in [Blocks -> Seq(Effects)] /\ SpawnMonster(b)
    BY <1>2, <1>3, <1>6, <2>1
  <2>3. QED
    BY <1>1, <1>2, <1>4, <2>2, SpawnMonsterInv
<1>7. QED
  BY <1>5, <1>6

\* A monster dies or is removed, and the next check is scheduled.
LEMMA RemovedInv ==
  ASSUME SpawnInv, NEW b \in Blocks, MonsterRemoved(b)
  PROVE  SpawnInv'
<1>1. /\ living[b] > 0 /\ living' = [living EXCEPT ![b] = @ - 1]
      /\ spawnedMap' = [spawnedMap EXCEPT ![b] = "removed"]
      /\ spawnEvent' /\ UNCHANGED <<begun, rested, chains, walk, neglected>>
  BY DEF MonsterRemoved, StartSpawnMonsterCheck
<1>2. spawnedMap[b] = "alive" /\ living[b] = 1 /\ begun
  BY <1>1 DEF SpawnInv, SpawnTypes, OnePerBlock
<1>3. checksDue' \in 0..MaxChecks /\ checksDue' > 0
  BY SpawnAssumption DEF MonsterRemoved, StartSpawnMonsterCheck, SpawnInv, SpawnTypes
<1>4. SpawnTypes'
  BY <1>1, <1>2, <1>3 DEF SpawnInv, SpawnTypes
<1>5. OnePerBlock'
  BY <1>1, <1>2 DEF SpawnInv, SpawnTypes, OnePerBlock
<1>6. \A c \in Blocks : Refilled(c)'
  BY <1>1 DEF Refilled
<1>7. QED
  BY <1>1, <1>2, <1>3, <1>4, <1>5, <1>6 DEF SpawnInv

\* Every step keeps the invariant of the spawn.
LEMMA SpawnNextInv ==
  ASSUME SpawnInv, [SpawnNext]_spawnVars
  PROVE  SpawnInv'
<1>1. CASE UNCHANGED spawnVars
  BY <1>1 DEF spawnVars, SpawnInv, SpawnTypes, OnePerBlock, Refilled
<1>2. CASE Called
  BY <1>2 DEF Called, SpawnInv, SpawnTypes, OnePerBlock, Refilled
<1>3. ASSUME NEW b \in Blocks, StartupBlock(b)
      PROVE  SpawnInv'
  <2>1. /\ SpawnMonster(b) /\ begun /\ UNCHANGED <<begun, rested, chains, spawnEvent, checksDue>>
    BY <1>3 DEF StartupBlock, SpawnInv
  <2>2. rested' \subseteq Blocks /\ chains' \in [Blocks -> Seq(Effects)]
    BY <2>1 DEF SpawnInv, SpawnTypes
  <2>3. QED
    BY <2>1, <2>2, SpawnMonsterInv
<1>4. ASSUME NEW b \in Blocks, IntervalPasses(b)
      PROVE  SpawnInv'
  BY <1>4 DEF IntervalPasses, SpawnInv, SpawnTypes, OnePerBlock, Refilled
<1>5. QED
  BY <1>1, <1>2, <1>3, <1>4, StartupInv, CheckSpawnInv, CheckBlockInv, WalkDoneInv,
     ScheduleInv, RemovedInv DEF SpawnNext

\* The inductive invariant implies what the run checks.
LEMMA SpawnInvKept == SpawnInv => SpawnIsKept
<1> SUFFICES ASSUME SpawnInv PROVE SpawnIsKept
  OBVIOUS
<1>1. SpawnTypeOK
  <2>1. ASSUME NEW b \in Blocks, NEW n \in DOMAIN chains[b] PROVE chains[b][n] \in 0..(Blinks - 1)
    <3>1. chains[b] \in Seq(Effects)
      BY DEF SpawnInv, SpawnTypes
    <3>2. n \in 1..Len(chains[b])
      BY <3>1, LenProperties
    <3>3. chains[b][n] \in Effects
      BY <3>1, <3>2, ElementOfSeq
    <3>4. QED
      BY <3>3 DEF Effects
  <2>2. QED
    BY <2>1 DEF SpawnInv, SpawnTypes, SpawnTypeOK
<1>2. RespawnIsScheduled
  BY DEF SpawnInv, SpawnTypes, OnePerBlock, Refilled, RespawnIsScheduled
<1>3. QED
  BY <1>1, <1>2 DEF SpawnInv, SpawnIsKept

\* Spawn: for any blocks and chains of effects, no block ever has two monsters in the
\* world, and once a walk is over an empty block that was not neglected has a check
\* scheduled.
THEOREM SpawnStaysKept == SpawnSpec => []SpawnIsKept
BY SpawnInitInv, SpawnNextInv, SpawnInvKept, PTL DEF SpawnSpec

-----------------------------------------------------------------------------
(***************************************************************************)
(* Raids: until a reload frees a raid under its event, the event that      *)
(* executes is the only one, and objects that were not yet loaded have     *)
(* done nothing.                                                           *)
(***************************************************************************)

\* The objects that raids.xml has been read into so far.
Loaded == {o \in RaidObjects : o[2] <= xmlLoads}

\* The types.
RaidTypes ==
  /\ xmlLoads \in 0..MaxLoads
  /\ raidList \subseteq Loaded /\ eventDue \subseteq Loaded
  /\ runningRaid \in Loaded \cup {NoRaid} /\ executing \in Loaded \cup {NoRaid}
  /\ nextEvent \in [RaidObjects -> Nat]

\* An event on the stack is the only one, and objects that raids.xml has not yet
\* been read into are at their first event.
RaidsInv ==
  /\ RaidTypes
  /\ RaidsAreOrderly
  /\ raidSlip = "none" /\ executing # NoRaid => eventDue = {}
  /\ \A o \in RaidObjects : nextEvent[o] # 0 => o \in Loaded
  /\ xmlLoads = 0 => ~raidsStarted

\* No raid runs at start.
LEMMA RaidsInitInv == RaidsInit => RaidsInv
BY RaidsAssumption
   DEF RaidsInit, RaidsInv, RaidTypes, RaidsAreOrderly, OneRaidAtATime, RaidsStartOver,
       RaidsAreChecked, Loaded

\* raids.xml is read: its objects are new, and at their first event.
LEMMA LoadsNew ==
  ASSUME RaidsInv, LoadAndStartup, UNCHANGED nextEvent
  PROVE  /\ xmlLoads' \in 0..MaxLoads /\ xmlLoads' # 0
         /\ Loaded \subseteq Loaded'
         /\ raidList' \subseteq Loaded'
         /\ \A o \in raidList' : nextEvent'[o] = 0
         /\ \A o \in RaidObjects : nextEvent'[o] # 0 => o \in Loaded'
<1>1. /\ xmlLoads \in Nat /\ MaxLoads \in Nat /\ xmlLoads < MaxLoads
      /\ xmlLoads' = xmlLoads + 1
      /\ raidList' = RaidNames \X {xmlLoads + 1}
  BY RaidsAssumption DEF RaidsInv, RaidTypes, LoadAndStartup
<1>2. \A o \in RaidObjects : o[2] \in Nat
  BY DEF RaidObjects
<1>3. Loaded \subseteq Loaded'
  BY <1>1, <1>2 DEF Loaded
<1>4. \A o \in raidList' : o \in RaidObjects /\ o[2] = xmlLoads + 1
  BY <1>1 DEF RaidObjects
<1>5. raidList' \subseteq Loaded'
  BY <1>1, <1>4 DEF Loaded
<1>6. \A o \in raidList' : o \notin Loaded
  BY <1>1, <1>4 DEF Loaded
<1>7. QED
  BY <1>1, <1>3, <1>4, <1>5, <1>6 DEF RaidsInv

\* The start loads the raids and schedules the first check.
LEMMA StartRaidsInv == ASSUME RaidsInv, StartRaids, raidSlip = "none" PROVE RaidsInv'
<1>1. /\ LoadAndStartup /\ UNCHANGED <<nextEvent, runningRaid, eventDue, executing, raidSlip>>
      /\ raidChecks' = raidChecks + 1 /\ xmlLoads = 0 /\ raidsStarted' = TRUE
  BY DEF StartRaids, LoadAndStartup
<1>2. RaidTypes'
  BY <1>1, LoadsNew DEF RaidsInv, RaidTypes
<1>3. RaidsAreOrderly'
  BY <1>1, LoadsNew DEF RaidsInv, RaidsAreOrderly, OneRaidAtATime, RaidsStartOver,
     RaidsAreChecked
<1>4. QED
  BY <1>1, <1>2, <1>3, LoadsNew DEF RaidsInv

\* A reload forgets the running raid with the old objects.
LEMMA ReloadRaidsInv == ASSUME RaidsInv, ReloadRaids, raidSlip = "none" PROVE RaidsInv'
<1>1. /\ LoadAndStartup /\ UNCHANGED <<nextEvent, executing>> /\ Clear
      /\ raidChecks' = StopCheck(raidChecks) + 1 /\ raidsStarted /\ raidsStarted' = TRUE
      /\ runningRaid' = NoRaid /\ eventDue' = eventDue \ raidList
  BY DEF ReloadRaids, LoadAndStartup, Clear
<1>2. RaidTypes'
  BY <1>1, LoadsNew DEF RaidsInv, RaidTypes
<1>3. OneRaidAtATime'
  BY <1>1 DEF Clear, OneRaidAtATime
<1>4. RaidsAreChecked'
  BY <1>1 DEF RaidsInv, RaidsAreOrderly, RaidsAreChecked, StopCheck
<1>5. RaidsStartOver'
  BY <1>1, LoadsNew DEF RaidsStartOver
<1>6. raidSlip' = "none" /\ executing' # NoRaid => eventDue' = {}
  BY <1>1 DEF Clear
<1>7. QED
  BY <1>1, <1>2, <1>3, <1>4, <1>5, <1>6, LoadsNew DEF RaidsInv, RaidsAreOrderly

\* A shutdown cancels the checks.
LEMMA ShutdownRaidsInv == ASSUME RaidsInv, ShutdownRaids, raidSlip = "none" PROVE RaidsInv'
<1>1. /\ UNCHANGED <<nextEvent, executing, xmlLoads>> /\ Clear
      /\ raidChecks' = StopCheck(raidChecks) /\ raidsStarted /\ raidsStarted' = FALSE
      /\ runningRaid' = NoRaid /\ eventDue' = eventDue \ raidList /\ raidList' = {}
  BY DEF ShutdownRaids, Clear
<1>2. RaidTypes' /\ Loaded' = Loaded
  BY <1>1 DEF RaidsInv, RaidTypes, Loaded
<1>3. OneRaidAtATime'
  BY <1>1 DEF Clear, OneRaidAtATime
<1>4. RaidsAreChecked'
  BY <1>1 DEF RaidsInv, RaidsAreOrderly, RaidsAreChecked, StopCheck
<1>5. RaidsStartOver'
  BY <1>1 DEF RaidsStartOver
<1>6. raidSlip' = "none" /\ executing' # NoRaid => eventDue' = {}
  BY <1>1 DEF Clear
<1>7. QED
  BY <1>1, <1>2, <1>3, <1>4, <1>5, <1>6 DEF RaidsInv, RaidsAreOrderly

\* A raid starts while none runs, so nothing of another raid is due.
LEMMA StartRaidInv ==
  ASSUME RaidsInv, NEW o \in raidList, runningRaid = NoRaid, StartRaid(o),
         raidSlip = "none", raidList' \subseteq raidList,
         UNCHANGED <<xmlLoads, raidsStarted, nextEvent, executing, raidChecks, raidSlip>>
  PROVE  RaidsInv'
<1>1. eventDue = {} /\ executing = NoRaid
  BY DEF RaidsInv, RaidsAreOrderly, OneRaidAtATime
<1>2. o \in Loaded /\ o # NoRaid /\ Loaded' = Loaded
  BY RaidsAssumption DEF RaidsInv, RaidTypes, Loaded
<1>3. /\ eventDue' \subseteq Loaded /\ runningRaid' \in Loaded \cup {NoRaid}
      /\ eventDue' = {runningRaid'} \ {NoRaid}
  BY <1>1, <1>2 DEF StartRaid
<1>4. RaidTypes'
  BY <1>2, <1>3 DEF RaidsInv, RaidTypes
<1>5. RaidsAreOrderly'
  <2>1. OneRaidAtATime' /\ RaidsAreChecked'
    BY <1>1, <1>3 DEF RaidsInv, RaidsAreOrderly, OneRaidAtATime, RaidsAreChecked
  <2>2. NoRaid \notin raidList
    BY RaidsAssumption DEF RaidsInv, RaidTypes, Loaded
  <2>3. RaidsStartOver'
    BY <2>2 DEF RaidsInv, RaidsAreOrderly, RaidsStartOver
  <2>4. QED
    BY <2>1, <2>3 DEF RaidsAreOrderly
<1>6. QED
  BY <1>1, <1>2, <1>4, <1>5 DEF RaidsInv

\* A check may start one raid if none runs, and schedules the next check.
LEMMA CheckRaidsInv == ASSUME RaidsInv, CheckRaids, raidSlip = "none" PROVE RaidsInv'
<1>1. /\ UNCHANGED <<xmlLoads, raidsStarted, nextEvent, executing, raidSlip>>
      /\ raidChecks' = (raidChecks - 1) + 1 /\ raidChecks > 0
  BY DEF CheckRaids
<1>2. raidChecks' = raidChecks
  BY <1>1 DEF RaidsInv, RaidsAreOrderly, RaidsAreChecked
<1>3. CASE UNCHANGED <<runningRaid, eventDue, raidList>>
  BY <1>1, <1>2, <1>3 DEF RaidsInv, RaidTypes, RaidsAreOrderly, OneRaidAtATime,
     RaidsStartOver, RaidsAreChecked, Loaded
<1>4. CASE /\ runningRaid = NoRaid
           /\ \E o \in raidList : StartRaid(o) /\ raidList' \subseteq raidList
  BY <1>1, <1>2, <1>4, StartRaidInv
<1>5. QED
  BY <1>3, <1>4 DEF CheckRaids

\* A due event of a raid is executed once.
LEMMA RaidEventInv ==
  ASSUME RaidsInv, NEW o \in RaidObjects, ExecuteRaidEvent(o), raidSlip = "none"
  PROVE  RaidsInv'
<1>1. /\ executing = NoRaid /\ o \in eventDue /\ executing' = o /\ eventDue' = eventDue \ {o}
      /\ UNCHANGED <<xmlLoads, raidsStarted, raidList, runningRaid, nextEvent, raidChecks,
                     raidSlip>>
  BY DEF ExecuteRaidEvent
<1>2. eventDue = {o} /\ runningRaid = o /\ eventDue' = {}
  BY <1>1 DEF RaidsInv, RaidsAreOrderly, OneRaidAtATime
<1>3. o # NoRaid /\ Loaded' = Loaded
  BY <1>1, RaidsAssumption DEF Loaded
<1>4. RaidTypes'
  BY <1>1, <1>2, <1>3 DEF RaidsInv, RaidTypes
<1>5. RaidsAreOrderly'
  BY <1>1, <1>2, <1>3 DEF RaidsInv, RaidsAreOrderly, OneRaidAtATime, RaidsStartOver,
     RaidsAreChecked
<1>6. QED
  BY <1>1, <1>2, <1>3, <1>4, <1>5 DEF RaidsInv

\* The last event ends the raid, another schedules the next.
LEMMA RaidDoneInv ==
  ASSUME RaidsInv, NEW ok \in BOOLEAN, RaidEventDone(ok), raidSlip = "none"
  PROVE  RaidsInv'
<1>1. /\ executing # NoRaid /\ executing' = NoRaid
      /\ UNCHANGED <<xmlLoads, raidsStarted, raidList, raidChecks, raidSlip>>
  BY DEF RaidEventDone
<1>2. /\ executing \in Loaded /\ executing \in RaidObjects
      /\ runningRaid = executing /\ eventDue = {} /\ Loaded' = Loaded
      /\ nextEvent \in [RaidObjects -> Nat]
  BY <1>1 DEF RaidsInv, RaidTypes, RaidsAreOrderly, OneRaidAtATime, Loaded
<1>3. CASE /\ nextEvent' = [nextEvent EXCEPT ![executing] = @ + 1]
           /\ eventDue' = eventDue \cup {executing} /\ UNCHANGED runningRaid
  <2>1. /\ nextEvent' \in [RaidObjects -> Nat]
        /\ \A o \in RaidObjects \ {executing} : nextEvent'[o] = nextEvent[o]
    BY <1>2, <1>3
  <2>2. RaidTypes'
    BY <1>1, <1>2, <1>3, <2>1 DEF RaidsInv, RaidTypes
  <2>3. OneRaidAtATime' /\ RaidsAreChecked'
    BY <1>1, <1>2, <1>3 DEF RaidsInv, RaidsAreOrderly, OneRaidAtATime, RaidsAreChecked
  <2>4. RaidsStartOver'
    BY <1>1, <1>2, <1>3, <2>1 DEF RaidsInv, RaidTypes, RaidsAreOrderly, RaidsStartOver, Loaded
  <2>5. QED
    BY <1>1, <1>2, <2>1, <2>2, <2>3, <2>4 DEF RaidsInv, RaidsAreOrderly
<1>4. CASE ResetRaid(executing)
  <2>1. /\ nextEvent' \in [RaidObjects -> Nat] /\ nextEvent'[executing] = 0
        /\ \A o \in RaidObjects \ {executing} : nextEvent'[o] = nextEvent[o]
        /\ runningRaid' = NoRaid /\ eventDue' = eventDue
    BY <1>2, <1>4 DEF ResetRaid
  <2>2. RaidTypes'
    BY <1>1, <1>2, <2>1 DEF RaidsInv, RaidTypes
  <2>3. OneRaidAtATime' /\ RaidsAreChecked'
    BY <1>1, <1>2, <2>1 DEF RaidsInv, RaidsAreOrderly, OneRaidAtATime, RaidsAreChecked
  <2>4. RaidsStartOver'
    BY <1>1, <1>2, <2>1 DEF RaidsInv, RaidTypes, RaidsAreOrderly, RaidsStartOver, Loaded
  <2>5. QED
    BY <1>1, <1>2, <2>1, <2>2, <2>3, <2>4 DEF RaidsInv, RaidsAreOrderly
<1>5. QED
  BY <1>3, <1>4 DEF RaidEventDone

\* Every step keeps the invariant of the raids.
LEMMA RaidsNextInv == ASSUME RaidsInv, [RaidsNext]_raidVars PROVE RaidsInv'
<1>1. CASE UNCHANGED raidVars
  BY <1>1 DEF raidVars, RaidsInv, RaidTypes, RaidsAreOrderly, OneRaidAtATime,
     RaidsStartOver, RaidsAreChecked, Loaded
<1>2. ASSUME NEW o \in RaidObjects, LuaGameStartRaid(o), raidSlip = "none"
      PROVE  RaidsInv'
  BY <1>2, StartRaidInv DEF LuaGameStartRaid
<1>3. QED
  BY <1>1, <1>2, StartRaidsInv, ReloadRaidsInv, ShutdownRaidsInv, CheckRaidsInv, RaidEventInv, RaidDoneInv DEF RaidsNext

\* Raids: for any raids, events and reloads, until a reload frees a raid under its
\* own event, one raid at most runs and running names it, every raid starts with its
\* first event, and a started server has one check of the raids scheduled.
THEOREM RaidsStayOrderly == RaidsSpec => []RaidsAreOrderly
<1>1. RaidsInv => RaidsAreOrderly
  BY DEF RaidsInv
<1>2. QED
  BY <1>1, RaidsInitInv, RaidsNextInv, PTL DEF RaidsSpec

-----------------------------------------------------------------------------
(***************************************************************************)
(* The rounds of checkCreatures: the vectors hold exactly the creatures    *)
(* whose flag says so, each at one place, and a round knows whom it has    *)
(* passed.                                                                 *)
(***************************************************************************)

\* The types.
CheckTypes ==
  /\ checkLists \in [Lists -> Seq(Beings)]
  /\ creatureCheck \subseteq inVector /\ inVector \subseteq Beings
  /\ index \in Lists
  /\ round \in [on : BOOLEAN, it : Nat, end : Nat, calling : BOOLEAN]
  /\ thought \in [Beings -> {0, 1}]
  /\ expected \subseteq creatureCheck

\* The vectors ls hold exactly the creatures of S, each at one place.
Exactly(ls, S) ==
  /\ ls \in [Lists -> Seq(Beings)] /\ S \subseteq Beings
  /\ \A l \in Lists : \A n \in 1..Len(ls[l]) : ls[l][n] \in S
  /\ \A l, k \in Lists : \A n \in 1..Len(ls[l]), m \in 1..Len(ls[k]) :
       ls[l][n] = ls[k][m] => l = k /\ n = m
  /\ \A b \in S : \E l \in Lists : \E n \in 1..Len(ls[l]) : ls[l][n] = b

\* The creature has been called by now: it is before `it', or at it and being called.
Passed(list, r, b) ==
  \E n \in 1..Len(list) : list[n] = b /\ (n < r.it \/ (r.calling /\ n = r.it))

\* The creature is still to be called.
Ahead(list, r, b) ==
  \E n \in 1..Len(list) : list[n] = b /\ n >= r.it /\ (r.calling => n > r.it)

\* How far a round has come.  As long as nobody was added to its vector, its end is
\* that of the vector.
RoundInv ==
  /\ round.calling => round.on
  /\ round.on =>
       /\ round.it >= 1 /\ round.it <= round.end + 1
       /\ round.end <= Len(checkLists[index])
       /\ round.calling => round.it <= round.end
       /\ \A b \in Beings : thought[b] # 0 => Passed(checkLists[index], round, b)
       /\ ~added => /\ round.end = Len(checkLists[index])
                    /\ \A b \in expected : thought[b] = 1 \/ Ahead(checkLists[index], round, b)

\* The inductive invariant of the checks.
ChecksInv == CheckTypes /\ Exactly(checkLists, inVector) /\ RoundInv

\* No creature is checked at start.
LEMMA ChecksInitInv == CreatureChecksInit => ChecksInv
<1> SUFFICES ASSUME CreatureChecksInit PROVE ChecksInv
  OBVIOUS
<1>1. 0 \in Lists
  BY ListCountAssumption DEF Lists
<1>2. <<>> \in Seq(Beings) /\ Len(<<>>) = 0
  OBVIOUS
<1>3. CheckTypes
  BY <1>1, <1>2 DEF CreatureChecksInit, CheckTypes, NoRound
<1>4. \A l \in Lists : 1..Len(checkLists[l]) = {}
  BY <1>2 DEF CreatureChecksInit
<1>5. Exactly(checkLists, inVector)
  BY <1>3, <1>4 DEF CreatureChecksInit, CheckTypes, Exactly
<1>6. RoundInv
  BY DEF CreatureChecksInit, RoundInv, NoRound
<1>7. QED
  BY <1>3, <1>5, <1>6 DEF ChecksInv

\* The vectors new are those of ls, with b put at the end of vector l.
Appended(new, ls, l, b) == new = [ls EXCEPT ![l] = Append(@, b)]

\* The creature at place it of vector l is dropped.
Dropped(new, ls, l, it) == new = [ls EXCEPT ![l] = DropAt(@, it)]

\* A creature that is in no vector is appended to one.
LEMMA AppendExactly ==
  ASSUME NEW ls, NEW S, Exactly(ls, S), NEW b \in Beings, b \notin S, NEW l \in Lists,
         NEW new, Appended(new, ls, l, b)
  PROVE  Exactly(new, S \cup {b})
<1>0. ls \in [Lists -> Seq(Beings)] /\ S \subseteq Beings
  BY DEF Exactly
<1>1. /\ new[l] = Append(ls[l], b) /\ \A k \in Lists : k # l => new[k] = ls[k]
      /\ new \in [Lists -> Seq(Beings)]
  BY <1>0, AppendProperties DEF Appended
<1>2. /\ Len(new[l]) = Len(ls[l]) + 1 /\ Len(ls[l]) \in Nat
      /\ \A n \in 1..Len(ls[l]) : new[l][n] = ls[l][n]
      /\ new[l][Len(ls[l]) + 1] = b
  BY <1>0, <1>1, AppendProperties, LenProperties
<1>3. ASSUME NEW k \in Lists, NEW n \in 1..Len(new[k])
      PROVE  \/ n \in 1..Len(ls[k]) /\ new[k][n] = ls[k][n] /\ new[k][n] \in S
             \/ k = l /\ n = Len(ls[l]) + 1 /\ new[k][n] = b
  <2>1. CASE k # l
    BY <1>1, <2>1 DEF Exactly
  <2>2. CASE k = l
    <3>1. n \in 1..Len(ls[l]) \/ n = Len(ls[l]) + 1
      BY <1>2, <2>2
    <3>2. QED
      BY <1>2, <2>2, <3>1 DEF Exactly
  <2>3. QED
    BY <2>1, <2>2
<1>4. ASSUME NEW k \in Lists, NEW n \in 1..Len(ls[k])
      PROVE  n \in 1..Len(new[k]) /\ new[k][n] = ls[k][n]
  <2>1. CASE k # l
    BY <1>1, <2>1
  <2>2. CASE k = l
    BY <1>2, <2>2
  <2>3. QED
    BY <2>1, <2>2
<1>5. \A k \in Lists : \A n \in 1..Len(new[k]) : new[k][n] \in S \cup {b}
  BY <1>3
<1>6. ASSUME NEW j \in Lists, NEW k \in Lists, NEW n \in 1..Len(new[j]), NEW m \in 1..Len(new[k]),
             new[j][n] = new[k][m]
      PROVE  j = k /\ n = m
  <2>1. \/ n \in 1..Len(ls[j]) /\ new[j][n] = ls[j][n] /\ new[j][n] \in S
        \/ j = l /\ n = Len(ls[l]) + 1 /\ new[j][n] = b
    BY <1>3
  <2>2. \/ m \in 1..Len(ls[k]) /\ new[k][m] = ls[k][m] /\ new[k][m] \in S
        \/ k = l /\ m = Len(ls[l]) + 1 /\ new[k][m] = b
    BY <1>3
  <2>3. CASE new[j][n] = b
    BY <1>6, <2>1, <2>2, <2>3
  <2>4. CASE new[j][n] # b
    <3>1. n \in 1..Len(ls[j]) /\ m \in 1..Len(ls[k]) /\ ls[j][n] = ls[k][m]
      BY <1>6, <2>1, <2>2, <2>4
    <3>2. QED
      BY <3>1 DEF Exactly
  <2>5. QED
    BY <2>3, <2>4
<1>7. ASSUME NEW c \in S \cup {b}
      PROVE  \E k \in Lists : \E n \in 1..Len(new[k]) : new[k][n] = c
  <2>1. CASE c = b
    <3>1. Len(ls[l]) + 1 \in 1..Len(new[l])
      BY <1>2
    <3>2. QED
      BY <1>2, <2>1, <3>1
  <2>2. CASE c \in S
    <3>1. PICK k \in Lists : \E n \in 1..Len(ls[k]) : ls[k][n] = c
      BY <2>2 DEF Exactly
    <3>2. PICK n \in 1..Len(ls[k]) : ls[k][n] = c
      BY <3>1
    <3>3. QED
      BY <1>4, <3>2
  <2>3. QED
    BY <2>1, <2>2
<1>8. QED
  BY <1>0, <1>1, <1>5, <1>6, <1>7 DEF Exactly

\* What dropping the creature at place it does to a vector.
LEMMA DropAtPlaces ==
  ASSUME NEW list \in Seq(Beings), NEW it \in 1..Len(list)
  PROVE  /\ DropAt(list, it) \in Seq(Beings)
         /\ Len(DropAt(list, it)) = Len(list) - 1 /\ Len(list) \in Nat
         /\ \A n \in 1..(Len(list) - 1) :
              DropAt(list, it)[n] = IF n = it THEN list[Len(list)] ELSE list[n]
<1> DEFINE L == Len(list)
           short == DropAt(list, it)
<1>1. L \in Nat /\ L >= 1 /\ L - 1 \in Nat /\ list \in [1..L -> Beings]
  BY LenProperties
<1>2. short \in [1..(L - 1) -> Beings]
  <2>1. \A n \in 1..(L - 1) : (IF n = it THEN list[L] ELSE list[n]) \in Beings
    BY <1>1
  <2>2. QED
    BY <2>1 DEF DropAt
<1>3. short \in Seq(Beings) /\ Len(short) = L - 1
  <2>1. short \in UNION {[1..n -> Beings] : n \in Nat}
    BY <1>1, <1>2
  <2>2. short \in Seq(Beings)
    BY <2>1, SeqDef
  <2>3. DOMAIN short = 1..(L - 1) /\ DOMAIN short = 1..Len(short) /\ Len(short) \in Nat
    BY <1>2, <2>2, LenProperties
  <2> HIDE DEF short, L
  <2>4. Len(short) = L - 1
    BY <1>1, <2>3
  <2>5. QED
    BY <2>2, <2>4
<1>4. \A n \in 1..(L - 1) : short[n] = IF n = it THEN list[L] ELSE list[n]
  BY DEF DropAt
<1>5. QED
  BY <1>1, <1>3, <1>4

\* A creature is dropped from place it of vector l, and the last one takes its place.
LEMMA DropExactly ==
  ASSUME NEW ls, NEW S, Exactly(ls, S), NEW l \in Lists, NEW it \in 1..Len(ls[l]),
         NEW new, Dropped(new, ls, l, it), NEW L, L = Len(ls[l])
  PROVE  Exactly(new, S \ {ls[l][it]})
<1>0. ls \in [Lists -> Seq(Beings)] /\ S \subseteq Beings /\ ls[l] \in Seq(Beings)
  BY DEF Exactly
<1>1. /\ DropAt(ls[l], it) \in Seq(Beings) /\ Len(DropAt(ls[l], it)) = L - 1 /\ L \in Nat
      /\ \A n \in 1..(L - 1) : DropAt(ls[l], it)[n] = IF n = it THEN ls[l][L] ELSE ls[l][n]
  BY <1>0, DropAtPlaces
<1>2. /\ new[l] = DropAt(ls[l], it) /\ \A k \in Lists : k # l => new[k] = ls[k]
      /\ new \in [Lists -> Seq(Beings)]
  BY <1>0, <1>1 DEF Dropped
<1>3. /\ Len(new[l]) = L - 1 /\ L \in Nat /\ it \in 1..L /\ L \in 1..L
      /\ \A n \in 1..(L - 1) : new[l][n] = IF n = it THEN ls[l][L] ELSE ls[l][n]
  BY <1>1, <1>2
<1>4. ASSUME NEW k \in Lists, NEW n \in 1..Len(new[k])
      PROVE  \/ n \in 1..Len(ls[k]) /\ (k = l => n # it /\ n # L) /\ new[k][n] = ls[k][n]
             \/ k = l /\ n = it /\ it # L /\ new[k][n] = ls[l][L]
  <2>1. CASE k # l
    BY <1>2, <2>1
  <2>2. CASE k = l
    <3>1. n \in 1..(L - 1) /\ n \in 1..L /\ n # L
      BY <1>3, <2>2
    <3>2. new[k][n] = IF n = it THEN ls[l][L] ELSE ls[l][n]
      BY <1>3, <2>2, <3>1
    <3>3. QED
      BY <2>2, <3>1, <3>2
  <2>3. QED
    BY <2>1, <2>2
<1>5. ASSUME NEW k \in Lists, NEW n \in 1..Len(new[k])
      PROVE  new[k][n] \in S \ {ls[l][it]}
  <2>1. CASE n \in 1..Len(ls[k]) /\ (k = l => n # it) /\ new[k][n] = ls[k][n]
    BY <2>1 DEF Exactly
  <2>2. CASE it # L /\ new[k][n] = ls[l][L]
    BY <1>3, <2>2 DEF Exactly
  <2>3. QED
    BY <1>4, <2>1, <2>2
<1>6. ASSUME NEW j \in Lists, NEW k \in Lists, NEW n \in 1..Len(new[j]), NEW m \in 1..Len(new[k]),
             new[j][n] = new[k][m]
      PROVE  j = k /\ n = m
  <2>1. \/ n \in 1..Len(ls[j]) /\ (j = l => n # it /\ n # L) /\ new[j][n] = ls[j][n]
        \/ j = l /\ n = it /\ it # L /\ new[j][n] = ls[l][L]
    BY <1>4
  <2>2. \/ m \in 1..Len(ls[k]) /\ (k = l => m # it /\ m # L) /\ new[k][m] = ls[k][m]
        \/ k = l /\ m = it /\ it # L /\ new[k][m] = ls[l][L]
    BY <1>4
  <2>3. CASE j = l /\ n = it
    <3>1. new[j][n] = ls[l][L] /\ L \in 1..Len(ls[l])
      BY <1>3, <2>1, <2>3
    <3>2. ~(m \in 1..Len(ls[k]) /\ (k = l => m # L) /\ new[k][m] = ls[k][m])
      BY <1>6, <3>1 DEF Exactly
    <3>3. QED
      BY <2>2, <2>3, <3>2
  <2>4. CASE ~(j = l /\ n = it) /\ k = l /\ m = it
    <3>1. new[k][m] = ls[l][L] /\ L \in 1..Len(ls[l])
      BY <1>3, <2>2, <2>4
    <3>2. n \in 1..Len(ls[j]) /\ (j = l => n # L) /\ new[j][n] = ls[j][n]
      BY <2>1, <2>4
    <3>3. QED
      BY <1>6, <3>1, <3>2 DEF Exactly
  <2>5. CASE ~(j = l /\ n = it) /\ ~(k = l /\ m = it)
    <3>1. n \in 1..Len(ls[j]) /\ m \in 1..Len(ls[k]) /\ ls[j][n] = ls[k][m]
      BY <1>6, <2>1, <2>2, <2>5
    <3>2. QED
      BY <3>1 DEF Exactly
  <2>6. QED
    BY <2>3, <2>4, <2>5
<1>7. ASSUME NEW c \in S \ {ls[l][it]}
      PROVE  \E k \in Lists : \E n \in 1..Len(new[k]) : new[k][n] = c
  <2>0. PICK k \in Lists : \E n \in 1..Len(ls[k]) : ls[k][n] = c
    BY DEF Exactly
  <2>1. PICK n \in 1..Len(ls[k]) : ls[k][n] = c
    BY <2>0
  <2>2. CASE k # l
    BY <1>2, <2>1, <2>2
  <2>3. CASE k = l /\ n # L
    <3>1. n # it
      BY <2>1, <2>3
    <3>2. n \in 1..(L - 1)
      BY <1>3, <2>3
    <3>3. new[l][n] = c /\ n \in 1..Len(new[l])
      BY <1>3, <2>1, <2>3, <3>1, <3>2
    <3>4. QED
      BY <3>3
  <2>4. CASE k = l /\ n = L
    <3>1. it # L
      BY <2>1, <2>4
    <3>2. it \in 1..(L - 1)
      BY <1>3, <3>1
    <3>3. new[l][it] = c /\ it \in 1..Len(new[l])
      BY <1>3, <2>1, <2>4, <3>2
    <3>4. QED
      BY <3>3
  <2>5. QED
    BY <2>2, <2>3, <2>4
<1>8. QED
  BY <1>0, <1>2, <1>5, <1>6, <1>7 DEF Exactly

\* What the steps use of the invariant.
LEMMA CheckFacts ==
  ASSUME ChecksInv
  PROVE  /\ checkLists[index] \in Seq(Beings) /\ Len(checkLists[index]) \in Nat
         /\ round.it \in Nat /\ round.end \in Nat
         /\ round = [on |-> round.on, it |-> round.it, end |-> round.end, calling |-> round.calling]
         /\ \A n \in 1..Len(checkLists[index]) :
              checkLists[index][n] \in inVector /\ checkLists[index][n] \in Beings
         /\ \A n, m \in 1..Len(checkLists[index]) :
              checkLists[index][n] = checkLists[index][m] => n = m
<1>1. checkLists[index] \in Seq(Beings)
  BY DEF ChecksInv, CheckTypes
<1>2. Len(checkLists[index]) \in Nat
  BY <1>1, LenProperties
<1>3. QED
  BY <1>1, <1>2 DEF ChecksInv, CheckTypes, Exactly

\* addCreatureCheck() keeps the vectors exact; only a creature that joins the vector
\* of the round changes it, and is noted.
LEMMA AddCheckInv ==
  ASSUME ChecksInv, NEW b \in Beings, AddCreatureCheck(b) PROVE ChecksInv'
<1>1. /\ creatureCheck' = creatureCheck \cup {b}
      /\ UNCHANGED <<index, round, thought, expected>>
  BY DEF AddCreatureCheck
<1>2. CASE b \in inVector
  <2>1. UNCHANGED <<checkLists, inVector, added>>
    BY <1>2 DEF AddCreatureCheck
  <2>2. CheckTypes'
    BY <1>1, <1>2, <2>1 DEF ChecksInv, CheckTypes
  <2>3. RoundInv'
    BY <1>1, <2>1 DEF ChecksInv, RoundInv
  <2>4. Exactly(checkLists, inVector)'
    BY <2>1 DEF ChecksInv, Exactly
  <2>5. QED
    BY <2>2, <2>3, <2>4 DEF ChecksInv
<1>3. CASE b \notin inVector
  <2>1. inVector' = inVector \cup {b}
    BY <1>3 DEF AddCreatureCheck
  <2>2. PICK l \in Lists : /\ checkLists' = [checkLists EXCEPT ![l] = Append(@, b)]
                           /\ added' = (added \/ (round.on /\ l = index))
    BY <1>3 DEF AddCreatureCheck
  <2>3. /\ checkLists \in [Lists -> Seq(Beings)] /\ inVector \in SUBSET Beings
        /\ Exactly(checkLists, inVector) /\ index \in Lists
    BY DEF ChecksInv, CheckTypes
  <2>4. /\ checkLists' \in [Lists -> Seq(Beings)] /\ Exactly(checkLists', inVector \cup {b})
        /\ \A k \in Lists : k # l => checkLists'[k] = checkLists[k]
        /\ Len(checkLists'[l]) = Len(checkLists[l]) + 1 /\ Len(checkLists[l]) \in Nat
        /\ \A n \in 1..Len(checkLists[l]) : checkLists'[l][n] = checkLists[l][n]
    <3>1. /\ checkLists'[l] = Append(checkLists[l], b)
          /\ \A k \in Lists : k # l => checkLists'[k] = checkLists[k]
          /\ checkLists' \in [Lists -> Seq(Beings)]
      BY <2>2, <2>3
    <3>2. Exactly(checkLists', inVector \cup {b})
      <4>1. PICK new : new = checkLists'
        OBVIOUS
      <4>2. Appended(new, checkLists, l, b)
        BY <2>2, <4>1 DEF Appended
      <4>3. Exactly(new, inVector \cup {b})
        BY <1>3, <2>3, <4>2, AppendExactly
      <4>4. QED
        BY <4>1, <4>3
    <3>3. /\ Len(checkLists'[l]) = Len(checkLists[l]) + 1 /\ Len(checkLists[l]) \in Nat
          /\ \A n \in 1..Len(checkLists[l]) : checkLists'[l][n] = checkLists[l][n]
      BY <2>3, <3>1, AppendProperties, LenProperties
    <3>4. QED
      BY <3>1, <3>2, <3>3
  <2>5. CheckTypes'
    BY <1>1, <2>1, <2>4 DEF ChecksInv, CheckTypes
  <2>6. RoundInv'
    <3>1. CASE ~round.on
      BY <1>1, <3>1 DEF ChecksInv, RoundInv
    <3>2. CASE round.on /\ l # index
      <4>1. checkLists'[index] = checkLists[index] /\ (~added' => ~added)
        BY <2>2, <2>3, <2>4, <3>2
      <4>2. QED
        BY <1>1, <4>1 DEF ChecksInv, RoundInv, Passed, Ahead
    <3>3. CASE round.on /\ l = index
      <4>1. added'
        BY <2>2, <3>3
      <4>2. round.end <= Len(checkLists'[index])
        BY <2>4, <3>3, CheckFacts DEF ChecksInv, RoundInv
      <4>3. \A c \in Beings : Passed(checkLists[index], round, c) => Passed(checkLists'[index], round, c)
        BY <2>4, <3>3 DEF Passed
      <4>4. QED
        BY <1>1, <3>3, <4>1, <4>2, <4>3 DEF ChecksInv, RoundInv
    <3>4. QED
      BY <3>1, <3>2, <3>3
  <2>7. Exactly(checkLists, inVector)'
    BY <2>1, <2>4 DEF Exactly
  <2>8. QED
    BY <2>5, <2>6, <2>7 DEF ChecksInv
<1>4. QED
  BY <1>2, <1>3

\* removeCreatureCheck() takes the creature from the expected ones.
LEMMA RemoveCheckInv ==
  ASSUME ChecksInv, NEW b \in Beings, RemoveCreatureCheck(b) PROVE ChecksInv'
<1>1. /\ creatureCheck' = IF b \in inVector THEN creatureCheck \ {b} ELSE creatureCheck
      /\ expected' = expected \ {b}
      /\ UNCHANGED <<checkLists, inVector, index, round, thought, added>>
  BY DEF RemoveCreatureCheck
<1>2. CheckTypes'
  BY <1>1 DEF ChecksInv, CheckTypes
<1>3. RoundInv'
  BY <1>1 DEF ChecksInv, RoundInv
<1>4. Exactly(checkLists, inVector)'
  BY <1>1 DEF ChecksInv, Exactly
<1>5. QED
  BY <1>2, <1>3, <1>4 DEF ChecksInv

\* A round begins with everybody still to be called.
LEMMA CheckCreaturesInv == ASSUME ChecksInv, CheckCreatures PROVE ChecksInv'
<1>1. /\ round' = [on |-> TRUE, it |-> 1, end |-> Len(checkLists[index]), calling |-> FALSE]
      /\ thought' = [c \in Beings |-> 0]
      /\ expected' = creatureCheck \cap {checkLists[index][n] : n \in 1..Len(checkLists[index])}
      /\ UNCHANGED <<checkLists, creatureCheck, inVector, index>>
  BY DEF CheckCreatures
<1>2. /\ round' \in [on : BOOLEAN, it : Nat, end : Nat, calling : BOOLEAN]
      /\ round'.it = 1 /\ round'.end = Len(checkLists[index]) /\ ~round'.calling
  BY <1>1, CheckFacts
<1>3. CheckTypes'
  BY <1>1, <1>2 DEF ChecksInv, CheckTypes
<1>4. RoundInv'
  <2>1. \A c \in expected' : Ahead(checkLists[index], round', c)
    BY <1>1, <1>2, CheckFacts DEF Ahead
  <2>2. \A c \in Beings : thought'[c] = 0
    BY <1>1
  <2>3. /\ round'.it >= 1 /\ round'.it <= round'.end + 1
        /\ round'.end = Len(checkLists[index]) /\ round'.end <= Len(checkLists[index]) /\ round'.on
    BY <1>1, <1>2, CheckFacts
  <2>4. checkLists'[index'] = checkLists[index]
    BY <1>1
  <2>5. QED
    BY <1>2, <2>1, <2>2, <2>3, <2>4 DEF RoundInv
<1>5. Exactly(checkLists, inVector)'
  BY <1>1 DEF ChecksInv, Exactly
<1>6. QED
  BY <1>3, <1>4, <1>5 DEF ChecksInv

\* The creature at `it' is called, for the first time in the round.
LEMMA CallInv == ASSUME ChecksInv, CallCreature PROVE ChecksInv'
<1>1. /\ round.on /\ ~round.calling /\ round.it <= round.end
      /\ thought' = [thought EXCEPT ![Here] = @ + 1]
      /\ round' = [round EXCEPT !.calling = TRUE]
      /\ UNCHANGED <<checkLists, creatureCheck, inVector, index, expected, added>>
  BY DEF CallCreature, Reaching
<1>2. round.it \in 1..Len(checkLists[index])
  BY <1>1, CheckFacts DEF ChecksInv, RoundInv
<1>3. Here \in Beings
  BY <1>2, CheckFacts DEF Here
<1>4. thought[Here] = 0
  <2>1. SUFFICES ASSUME thought[Here] # 0 PROVE FALSE
    OBVIOUS
  <2>2. PICK n \in 1..Len(checkLists[index]) : checkLists[index][n] = Here /\ n < round.it
    BY <1>1, <1>3, <2>1 DEF ChecksInv, RoundInv, Passed
  <2>3. n = round.it
    BY <1>2, <2>2, CheckFacts DEF Here
  <2>4. QED
    BY <2>2, <2>3, CheckFacts
<1>5. /\ thought' \in [Beings -> {0, 1}] /\ thought'[Here] = 1
      /\ \A c \in Beings : c # Here => thought'[c] = thought[c]
  BY <1>1, <1>3, <1>4 DEF ChecksInv, CheckTypes
<1>6. /\ round' \in [on : BOOLEAN, it : Nat, end : Nat, calling : BOOLEAN]
      /\ round'.it = round.it /\ round'.end = round.end /\ round'.calling /\ round'.on
  BY <1>1 DEF ChecksInv, CheckTypes
<1>7. CheckTypes'
  BY <1>1, <1>5, <1>6 DEF ChecksInv, CheckTypes
<1>8. RoundInv'
  <2>1. ASSUME NEW c \in Beings, thought'[c] # 0 PROVE Passed(checkLists[index], round', c)
    <3>1. CASE c = Here
      BY <1>2, <1>6, <3>1 DEF Passed, Here
    <3>2. CASE c # Here
      <4>1. Passed(checkLists[index], round, c)
        BY <1>1, <1>5, <2>1, <3>2 DEF ChecksInv, RoundInv
      <4>2. QED
        BY <1>1, <1>6, <4>1 DEF Passed
    <3>3. QED
      BY <3>1, <3>2
  <2>2. ASSUME ~added, NEW c \in expected
        PROVE  thought'[c] = 1 \/ Ahead(checkLists[index], round', c)
    <3>1. c \in Beings
      BY DEF ChecksInv, CheckTypes
    <3>2. CASE c = Here
      BY <1>5, <3>2
    <3>3. CASE c # Here
      <4>1. thought[c] = 1 \/ Ahead(checkLists[index], round, c)
        BY <1>1, <2>2 DEF ChecksInv, RoundInv
      <4>2. CASE Ahead(checkLists[index], round, c)
        <5>1. PICK n \in 1..Len(checkLists[index]) : checkLists[index][n] = c /\ n >= round.it
          BY <4>2 DEF Ahead
        <5>2. n > round.it
          BY <3>3, <5>1, CheckFacts DEF Here
        <5>3. QED
          BY <1>6, <5>1, <5>2 DEF Ahead
      <4>3. QED
        BY <1>5, <3>1, <3>3, <4>1, <4>2
    <3>4. QED
      BY <3>2, <3>3
  <2>3. QED
    BY <1>1, <1>6, <2>1, <2>2 DEF ChecksInv, RoundInv
<1>9. Exactly(checkLists, inVector)'
  BY <1>1 DEF ChecksInv, Exactly
<1>10. QED
  BY <1>7, <1>8, <1>9 DEF ChecksInv

\* The call returns.
LEMMA CalledInv == ASSUME ChecksInv, CreatureCalled PROVE ChecksInv'
<1>1. /\ round.calling /\ round' = [round EXCEPT !.calling = FALSE, !.it = @ + 1]
      /\ UNCHANGED <<checkLists, creatureCheck, inVector, index, thought, expected, added>>
  BY DEF CreatureCalled
<1>2. /\ round' \in [on : BOOLEAN, it : Nat, end : Nat, calling : BOOLEAN]
      /\ round'.it = round.it + 1 /\ round'.end = round.end /\ ~round'.calling
  <2>1. round \in [on : BOOLEAN, it : Nat, end : Nat, calling : BOOLEAN] /\ round.it + 1 \in Nat
    BY CheckFacts DEF ChecksInv, CheckTypes
  <2>2. [round EXCEPT !.it = @ + 1] \in [on : BOOLEAN, it : Nat, end : Nat, calling : BOOLEAN]
    BY <2>1
  <2>3. round' = [[round EXCEPT !.it = @ + 1] EXCEPT !.calling = FALSE]
    BY <1>1, <2>1
  <2>4. QED
    BY <2>1, <2>2, <2>3
<1>3. CheckTypes'
  BY <1>1, <1>2 DEF ChecksInv, CheckTypes
<1>4. round.on /\ round.it <= round.end /\ round'.on
  BY <1>1 DEF ChecksInv, CheckTypes, RoundInv
<1>5. \A c \in Beings : Passed(checkLists[index], round, c) => Passed(checkLists[index], round', c)
  BY <1>2, CheckFacts DEF Passed
<1>6. \A c \in Beings : Ahead(checkLists[index], round, c) => Ahead(checkLists[index], round', c)
  BY <1>1, <1>2, CheckFacts DEF Ahead
<1>7. expected \subseteq Beings
  BY DEF ChecksInv, CheckTypes
<1>8. round'.it >= 1 /\ round'.it <= round'.end + 1
  BY <1>2, <1>4, CheckFacts
<1>9. RoundInv'
  BY <1>1, <1>2, <1>4, <1>5, <1>6, <1>7, <1>8 DEF ChecksInv, RoundInv
<1>10. Exactly(checkLists, inVector)'
  BY <1>1 DEF ChecksInv, Exactly
<1>11. QED
  BY <1>3, <1>9, <1>10 DEF ChecksInv

\* A creature that is not to be checked is dropped: nobody who was called moves, and
\* the last of the vector, who takes the place, is still ahead.
LEMMA DropInv == ASSUME ChecksInv, DropCreature PROVE ChecksInv'
<1>1. /\ round.on /\ ~round.calling /\ round.it <= round.end /\ Here \notin creatureCheck
      /\ inVector' = inVector \ {Here}
      /\ checkLists' = [checkLists EXCEPT ![index] = DropAt(@, round.it)]
      /\ round' = [round EXCEPT !.end = @ - 1]
      /\ UNCHANGED <<creatureCheck, index, thought, expected, added>>
  BY DEF DropCreature, Reaching
<1>2. round.it \in 1..Len(checkLists[index]) /\ round.it >= 1
  BY <1>1, CheckFacts DEF ChecksInv, RoundInv
<1>3. /\ checkLists \in [Lists -> Seq(Beings)] /\ inVector \in SUBSET Beings
      /\ Exactly(checkLists, inVector) /\ index \in Lists
  BY DEF ChecksInv, CheckTypes
<1> DEFINE old == checkLists[index]
           new == checkLists'[index]
<1>4. /\ checkLists' \in [Lists -> Seq(Beings)]
      /\ Exactly(checkLists', inVector \ {Here})
      /\ Len(new) = Len(old) - 1 /\ Len(old) \in Nat
      /\ \A n \in 1..(Len(old) - 1) : new[n] = IF n = round.it THEN old[Len(old)] ELSE old[n]
  <2>1. /\ new = DropAt(old, round.it)
        /\ \A k \in Lists : k # index => checkLists'[k] = checkLists[k]
    BY <1>1, <1>3
  <2>2. /\ new \in Seq(Beings) /\ Len(new) = Len(old) - 1 /\ Len(old) \in Nat
        /\ \A n \in 1..(Len(old) - 1) : new[n] = IF n = round.it THEN old[Len(old)] ELSE old[n]
    <3>1. old \in Seq(Beings) /\ round.it \in 1..Len(old)
      BY <1>2, <1>3
    <3> HIDE DEF old, new
    <3>2. /\ DropAt(old, round.it) \in Seq(Beings)
          /\ Len(DropAt(old, round.it)) = Len(old) - 1 /\ Len(old) \in Nat
          /\ \A n \in 1..(Len(old) - 1) :
               DropAt(old, round.it)[n] = IF n = round.it THEN old[Len(old)] ELSE old[n]
      BY <3>1, DropAtPlaces
    <3>3. QED
      BY <2>1, <3>2
  <2>3. checkLists' \in [Lists -> Seq(Beings)]
    BY <1>1, <1>3, <2>1, <2>2
  <2>4. Exactly(checkLists', inVector \ {Here})
    <3>1. PICK lists : lists = checkLists'
      OBVIOUS
    <3>2. Dropped(lists, checkLists, index, round.it)
      BY <1>1, <3>1 DEF Dropped
    <3>3. Exactly(lists, inVector \ {checkLists[index][round.it]})
      BY <1>2, <1>3, <3>2, DropExactly
    <3>4. QED
      BY <3>1, <3>3 DEF Here
  <2>5. QED
    BY <2>2, <2>3, <2>4
<1>5. round.end - 1 \in Nat
  BY <1>1, <1>2, CheckFacts
<1>6. /\ round' \in [on : BOOLEAN, it : Nat, end : Nat, calling : BOOLEAN]
      /\ round'.it = round.it /\ round'.end = round.end - 1 /\ ~round'.calling
      /\ round'.on
  BY <1>1, <1>5 DEF ChecksInv, CheckTypes
<1>7. CheckTypes'
  BY <1>1, <1>4, <1>6 DEF ChecksInv, CheckTypes
<1>8. /\ round.end <= Len(old)
      /\ \A c \in Beings : thought[c] # 0 => Passed(old, round, c)
      /\ ~added => /\ round.end = Len(old)
                   /\ \A c \in expected : thought[c] = 1 \/ Ahead(old, round, c)
  BY <1>1 DEF ChecksInv, RoundInv
<1>9. Here = old[round.it] /\ round.it \in 1..Len(old)
  BY <1>2 DEF Here
<1>10. new = checkLists'[index'] /\ Exactly(checkLists, inVector)'
  BY <1>1, <1>4 DEF Exactly
<1> HIDE DEF old, new
<1>11. ASSUME NEW c \in Beings, Passed(old, round, c) PROVE Passed(new, round', c)
  <2>1. PICK n \in 1..Len(old) : old[n] = c /\ n < round.it
    BY <1>1, <1>11 DEF Passed
  <2>2. n \in 1..Len(new) /\ new[n] = c
    BY <1>4, <1>9, <2>1
  <2>3. QED
    BY <1>6, <2>1, <2>2 DEF Passed
<1>12. ASSUME NEW c \in expected, Ahead(old, round, c) PROVE Ahead(new, round', c)
  <2>1. PICK n \in 1..Len(old) : old[n] = c /\ n >= round.it
    BY <1>12 DEF Ahead
  <2>2. n # round.it
    BY <1>1, <1>9, <2>1 DEF ChecksInv, CheckTypes
  <2>3. CASE n = Len(old)
    <3>1. round.it \in 1..Len(new) /\ new[round.it] = c
      BY <1>4, <1>9, <2>1, <2>2, <2>3
    <3>2. QED
      BY <1>6, <3>1, CheckFacts DEF Ahead
  <2>4. CASE n # Len(old)
    <3>1. n \in 1..Len(new) /\ new[n] = c
      BY <1>4, <2>1, <2>2, <2>4
    <3>2. QED
      BY <1>6, <2>1, <3>1 DEF Ahead
  <2>5. QED
    BY <2>3, <2>4
<1>13. /\ round'.it >= 1 /\ round'.it <= round'.end + 1 /\ round'.end <= Len(new)
       /\ round.end = Len(old) => round'.end = Len(new)
  BY <1>1, <1>2, <1>4, <1>6, <1>8, CheckFacts
<1>14. RoundInv'
  <2>1. \A c \in Beings : thought'[c] # 0 => Passed(new, round', c)
    BY <1>1, <1>8, <1>11
  <2>2. ~added' => /\ round'.end = Len(new)
                   /\ \A c \in expected' : thought'[c] = 1 \/ Ahead(new, round', c)
    BY <1>1, <1>8, <1>12, <1>13
  <2>3. QED
    BY <1>6, <1>10, <1>13, <2>1, <2>2 DEF RoundInv
<1>15. QED
  BY <1>7, <1>10, <1>14 DEF ChecksInv

\* The round is over, and the next one takes the next vector.
LEMMA RoundDoneInv == ASSUME ChecksInv, RoundDone PROVE ChecksInv'
<1>1. /\ round' = NoRound /\ index' = (index + 1) % ListCount
      /\ UNCHANGED <<checkLists, creatureCheck, inVector, thought, expected, added>>
  BY DEF RoundDone
<1>2. index' \in Lists
  BY <1>1, ListCountAssumption DEF ChecksInv, CheckTypes, Lists
<1>3. CheckTypes'
  BY <1>1, <1>2 DEF ChecksInv, CheckTypes, NoRound
<1>4. RoundInv'
  BY <1>1 DEF RoundInv, NoRound
<1>5. Exactly(checkLists, inVector)'
  BY <1>1 DEF ChecksInv, Exactly
<1>6. QED
  BY <1>3, <1>4, <1>5 DEF ChecksInv

\* Every step keeps the invariant of the checks.
LEMMA ChecksNextInv ==
  ASSUME ChecksInv, [CreatureChecksNext]_checkVars PROVE ChecksInv'
<1>1. CASE UNCHANGED checkVars
  BY <1>1 DEF checkVars, ChecksInv, CheckTypes, Exactly, RoundInv, Passed, Ahead
<1>2. QED
  BY <1>1, AddCheckInv, RemoveCheckInv, CheckCreaturesInv, CallInv, CalledInv, DropInv, RoundDoneInv
     DEF CreatureChecksNext

\* The inductive invariant implies what the run checks.
LEMMA ChecksInvExact == ChecksInv => RoundsAreExact
<1> SUFFICES ASSUME ChecksInv PROVE RoundsAreExact
  OBVIOUS
<1>1. ChecksTypeOK
  BY DEF ChecksInv, CheckTypes, RoundInv, ChecksTypeOK
<1>2. ListedOnce
  <2>1. SUFFICES ASSUME NEW b \in Beings
                 PROVE  Cardinality(Listed(b)) = IF b \in inVector THEN 1 ELSE 0
    BY DEF ListedOnce
  <2>2. \A x \in Listed(b) :
          \E l \in Lists : \E n \in 1..Len(checkLists[l]) : x = <<l, n>> /\ checkLists[l][n] = b
    BY DEF Listed
  <2>3. \A l \in Lists : \A n \in 1..Len(checkLists[l]) :
          checkLists[l][n] = b => <<l, n>> \in Listed(b)
    BY DEF Listed
  <2>4. CASE b \in inVector
    <3>1. PICK l \in Lists : \E n \in 1..Len(checkLists[l]) : checkLists[l][n] = b
      BY <2>4 DEF ChecksInv, Exactly
    <3>2. PICK n \in 1..Len(checkLists[l]) : checkLists[l][n] = b
      BY <3>1
    <3>3. Listed(b) = {<<l, n>>}
      BY <2>2, <2>3, <3>2 DEF ChecksInv, Exactly
    <3>4. Cardinality({<<l, n>>}) = 1
      BY FS_Singleton
    <3>5. QED
      BY <2>4, <3>3, <3>4
  <2>5. CASE b \notin inVector
    <3>1. Listed(b) = {}
      BY <2>2, <2>5 DEF ChecksInv, Exactly
    <3>2. QED
      BY <2>5, <3>1, FS_EmptySet
  <2>6. QED
    BY <2>4, <2>5
<1>3. EachIsCalledOnce
  <2>1. \A b \in Beings : thought[b] <= 1
    BY DEF ChecksInv, CheckTypes
  <2>2. ASSUME round.on, round.it > round.end, ~added, NEW b \in expected
        PROVE  thought[b] = 1
    BY <2>2, CheckFacts DEF ChecksInv, RoundInv, Ahead
  <2>3. QED
    BY <2>1, <2>2 DEF EachIsCalledOnce
<1>4. QED
  BY <1>1, <1>2, <1>3 DEF RoundsAreExact

\* Creature checks: for any creatures and number of vectors, and whatever the called
\* creatures add and remove, a creature is in one vector once exactly while its flag
\* says so, and a round calls nobody twice and, if nobody joined its vector, everybody
\* who was in it and stays checked.
THEOREM RoundsStayExact == CreatureChecksSpec => []RoundsAreExact
<1>1. ChecksInv /\ [CreatureChecksNext]_checkVars => ChecksInv'
  BY ChecksNextInv
<1>2. QED
  BY <1>1, ChecksInitInv, ChecksInvExact, PTL DEF CreatureChecksSpec

-----------------------------------------------------------------------------
(***************************************************************************)
(* The saves of the players: what the row of a player lacks is in the one  *)
(* Player object that is online, being saved or due to be saved.           *)
(***************************************************************************)

\* The types.  Only a save on the dispatcher thread is of a player who is not online,
\* and scheduleAll's load becomes the players' loads when it is checked.
SaveTypes ==
  /\ object \in [Objects -> Lives]
  /\ data \in [Objects -> SUBSET Changes]
  /\ {playerMap, scheduledAt, clock} \subseteq Stamps
  /\ loads \subseteq Loads
  /\ row \subseteq Changes
  /\ made \in Nat
  /\ \A l \in loads : /\ l.obj = Offline => l.step = "saving"
                      /\ l.obj = All => l.step = "posted"
  /\ \A o, u \in Online : o = u

\* The load brings the change c to the row, or becomes one that does.
Brings(l, c) ==
  \/ l.step = "saving" /\ c \in l.copy
  \/ l.step = "checked" /\ c \in data[l.obj]
  \/ /\ l.step = "posted" /\ l.obj \in Objects /\ l.at = playerMap
     /\ object[l.obj] \in {"online", "left"} /\ c \in data[l.obj]
  \/ /\ l.step = "posted" /\ l.obj = All /\ l.at = scheduledAt
     /\ \E o \in Online : c \in data[o]

\* The loads of Player objects are of one object, the one online if there is one.
OneObject ==
  /\ \A l, m \in loads : l.obj \in Objects /\ m.obj \in Objects => l.obj = m.obj
  /\ \A l \in loads, o \in Online : l.obj \in Objects => l.obj = o

\* Nobody is online while the dispatcher thread saves an offline player, and no
\* other save runs.
OfflineAlone ==
  \A l \in loads : l.obj = Offline =>
    Online = {} /\ \A m \in loads : m.obj # All => m = l

\* An object that can be saved has everything that is stored.
RowIsBehind ==
  /\ \A o \in Online : row \subseteq data[o]
  /\ \A l \in loads : l.obj \in Objects => row \subseteq data[l.obj]

\* One save runs at a time, and what it has read is newer than the row.
SavingIsNewer ==
  /\ \A l, m \in loads : l.step = "saving" /\ m.step = "saving" => l = m
  /\ \A l \in loads : l.step = "saving" =>
       row \subseteq l.copy /\ (l.obj \in Objects => l.copy \subseteq data[l.obj])

\* Every change that was to be saved is stored or will be.
DueIsBrought == \A c \in due : c \in row \/ \E l \in loads : Brings(l, c)

\* What holds as long as no event has cost a save.
Undisturbed == OneObject /\ OfflineAlone /\ RowIsBehind /\ SavingIsNewer /\ DueIsBrought

\* The inductive invariant of the saves.
SaveInv == SaveTypes /\ (incidents = {} => Undisturbed)

\* The marks of a load are no object.
LEMMA Marks == All \notin Objects /\ Offline \notin Objects /\ All # Offline
BY PlayerSaveAssumption DEF All, Offline, Objects

\* A character that has never been online has nothing to save.
LEMMA SaveInitInv == PlayerSaveInit => SaveInv
<1> SUFFICES ASSUME PlayerSaveInit PROVE SaveInv
  OBVIOUS
<1>1. Online = {}
  BY DEF PlayerSaveInit, Online
<1>2. SaveTypes
  BY <1>1, PlayerSaveAssumption DEF PlayerSaveInit, SaveTypes, Lives, Stamps
<1>3. QED
  BY <1>1, <1>2 DEF PlayerSaveInit, SaveInv, Undisturbed, OneObject, OfflineAlone, RowIsBehind,
     SavingIsNewer, DueIsBrought

\* A player logs in with what is stored.
LEMMA LoginPlayerInv ==
  ASSUME SaveInv, NEW o \in Objects, LoginPlayer(o) PROVE SaveInv'
<1>1. /\ Online = {} /\ DispatcherFree
      /\ object' = [object EXCEPT ![o] = "online"] /\ data' = [data EXCEPT ![o] = row]
      /\ incidents' = IF Saving THEN incidents \cup {"earlyLogin"} ELSE incidents
      /\ UNCHANGED <<playerMap, scheduledAt, clock, loads, row, running, made, due>>
  BY DEF LoginPlayer
<1>2. Online' = {o} /\ object' \in [Objects -> Lives] /\ data' \in [Objects -> SUBSET Changes]
      /\ data'[o] = row
  BY <1>1 DEF Online, SaveInv, SaveTypes, Lives
<1>3. SaveTypes'
  BY <1>1, <1>2 DEF SaveInv, SaveTypes
<1>4. ASSUME incidents' = {} PROVE Undisturbed'
  <2>1. incidents = {} /\ ~Saving
    BY <1>1, <1>4
  <2>2. \A l \in loads : l.obj \notin Objects /\ l.obj # Offline /\ l.step = "posted"
    BY <1>1, <2>1 DEF Saving, DispatcherFree, SaveInv, SaveTypes, Loads
  <2>3. \A c \in due : c \in row
    BY <1>1, <2>1, <2>2 DEF SaveInv, Undisturbed, DueIsBrought, Brings
  <2>4. OneObject' /\ OfflineAlone' /\ RowIsBehind' /\ SavingIsNewer' /\ DueIsBrought'
    BY <1>1, <1>2, <2>2, <2>3 DEF OneObject, OfflineAlone, RowIsBehind, SavingIsNewer, DueIsBrought
  <2>5. QED
    BY <2>4 DEF Undisturbed
<1>5. QED
  BY <1>3, <1>4 DEF SaveInv

\* A change makes the object newer.
LEMMA ChangePlayerInv ==
  ASSUME SaveInv, NEW o \in Objects, ChangePlayer(o) PROVE SaveInv'
<1>1. /\ o \in Online /\ made < MaxChanges /\ made' = made + 1
      /\ data' = [data EXCEPT ![o] = @ \cup {made'}]
      /\ UNCHANGED <<object, playerMap, scheduledAt, clock, loads, row, running, due, incidents>>
  BY DEF ChangePlayer
<1>2. made' \in Changes /\ made' \in Nat
  BY <1>1, PlayerSaveAssumption DEF SaveInv, SaveTypes, Changes
<1>3. /\ data' \in [Objects -> SUBSET Changes] /\ Online' = Online
      /\ \A u \in Objects : data[u] \subseteq data'[u]
  BY <1>1, <1>2 DEF SaveInv, SaveTypes, Online
<1>4. SaveTypes'
  BY <1>1, <1>2, <1>3 DEF SaveInv, SaveTypes
<1>5. ASSUME Undisturbed PROVE Undisturbed'
  <2>1. OneObject' /\ OfflineAlone'
    BY <1>1, <1>3, <1>5 DEF Undisturbed, OneObject, OfflineAlone
  <2>2. RowIsBehind' /\ SavingIsNewer'
    BY <1>1, <1>3, <1>5 DEF Undisturbed, RowIsBehind, SavingIsNewer, Online
  <2>3. DueIsBrought'
    <3>1. SUFFICES ASSUME NEW c \in due, NEW l \in loads, Brings(l, c) PROVE Brings(l, c)'
      BY <1>1, <1>5 DEF Undisturbed, DueIsBrought
    <3>2. l \in Loads /\ (l.step = "checked" => l.obj \in Objects)
      BY DEF SaveInv, SaveTypes, Loads
    <3>3. QED
      BY <1>1, <1>3, <3>1, <3>2 DEF Brings, Online
  <2>4. QED
    BY <2>1, <2>2, <2>3 DEF Undisturbed
<1>6. QED
  BY <1>1, <1>4, <1>5 DEF SaveInv

\* A save of the player online asks for everything he has, and its load is the one
\* m_playerMap knows.
LEMMA SchedulePlayerInv ==
  ASSUME SaveInv, NEW o \in Objects, o \in Online, SchedulePlayer(o, data[o]),
         object' \in [Objects -> Lives], object'[o] \in {"online", "left"},
         Online' \subseteq Online,
         UNCHANGED <<data, scheduledAt, row, running, made, incidents>>
  PROVE  SaveInv'
<1>0. PICK new : new = [obj |-> o, at |-> clock', step |-> "posted", copy |-> {}]
  OBVIOUS
<1>1. /\ clock < MaxStamps /\ clock' = clock + 1 /\ playerMap' = clock'
      /\ loads' = loads \cup {new} /\ due' = data[o]
  BY <1>0 DEF SchedulePlayer
<1>2. clock' \in Stamps
  BY <1>1, PlayerSaveAssumption DEF SaveInv, SaveTypes, Stamps
<1>3. new \in Loads
  BY <1>0, <1>2 DEF Loads
<1>4. new.obj = o /\ new.at = playerMap' /\ new.step = "posted"
  BY <1>0, <1>1
<1>5. SaveTypes'
  BY <1>1, <1>2, <1>3, <1>4, Marks DEF SaveInv, SaveTypes
<1>6. ASSUME Undisturbed PROVE Undisturbed'
  <2>1. \A l \in loads : l.obj # Offline
    BY <1>6 DEF Undisturbed, OfflineAlone
  <2>2. OneObject'
    BY <1>1, <1>4, <1>6 DEF SaveInv, SaveTypes, Undisturbed, OneObject
  <2>3. OfflineAlone'
    BY <1>1, <1>4, <2>1, Marks DEF OfflineAlone
  <2>4. RowIsBehind' /\ SavingIsNewer'
    BY <1>1, <1>4, <1>6 DEF Undisturbed, RowIsBehind, SavingIsNewer
  <2>5. DueIsBrought'
    <3>1. \A c \in data[o] : Brings(new, c)'
      BY <1>4 DEF Brings
    <3>2. QED
      BY <1>1, <3>1 DEF DueIsBrought
  <2>6. QED
    BY <2>2, <2>3, <2>4, <2>5 DEF Undisturbed
<1>7. QED
  BY <1>5, <1>6 DEF SaveInv

\* savePlayer() and the save of a logout.
LEMMA SaveOrLogoutInv ==
  ASSUME SaveInv, NEW o \in Objects, SavePlayer(o) \/ LogoutPlayer(o) PROVE SaveInv'
<1>1. CASE SavePlayer(o)
  <2>1. /\ o \in Online /\ SchedulePlayer(o, data[o])
        /\ UNCHANGED <<object, data, scheduledAt, row, running, made, incidents>>
    BY <1>1 DEF SavePlayer
  <2>2. object' \in [Objects -> Lives] /\ object'[o] \in {"online", "left"} /\ Online' \subseteq Online
    BY <2>1 DEF Online, SaveInv, SaveTypes
  <2>3. QED
    BY <2>1, <2>2, SchedulePlayerInv
<1>2. CASE LogoutPlayer(o)
  <2>1. /\ o \in Online /\ SchedulePlayer(o, data[o]) /\ object' = [object EXCEPT ![o] = "left"]
        /\ UNCHANGED <<data, scheduledAt, row, running, made, incidents>>
    BY <1>2 DEF LogoutPlayer
  <2>2. object' \in [Objects -> Lives] /\ object'[o] \in {"online", "left"} /\ Online' \subseteq Online
    BY <2>1 DEF Online, SaveInv, SaveTypes, Lives
  <2>3. QED
    BY <2>1, <2>2, SchedulePlayerInv
<1>3. QED
  BY <1>1, <1>2

\* An object that is released with a load posted costs the save that is outstanding.
LEMMA ReleasePlayerInv ==
  ASSUME SaveInv, NEW o \in Objects, ReleasePlayer(o) PROVE SaveInv'
<1>1. /\ object[o] = "left" /\ object' = [object EXCEPT ![o] = "released"]
      /\ IF \E l \in loads : l.obj = o /\ l.step = "posted" THEN Note("released")
         ELSE UNCHANGED incidents
      /\ UNCHANGED <<data, playerMap, scheduledAt, clock, loads, row, running, made, due>>
  BY DEF ReleasePlayer
<1>2. /\ object' \in [Objects -> Lives] /\ Online' = Online
      /\ \A u \in Objects \ {o} : object'[u] = object[u]
  BY <1>1 DEF Online, SaveInv, SaveTypes, Lives
<1>3. SaveTypes'
  BY <1>1, <1>2 DEF SaveInv, SaveTypes
<1>4. ASSUME incidents' = {} PROVE Undisturbed'
  <2>1. incidents = {} /\ (Outstanding => \A l \in loads : l.obj = o => l.step # "posted")
    BY <1>1, <1>4 DEF Note
  <2>2. Undisturbed
    BY <2>1 DEF SaveInv
  <2>3. OneObject' /\ OfflineAlone' /\ RowIsBehind' /\ SavingIsNewer'
    BY <1>1, <1>2, <2>2 DEF Undisturbed, OneObject, OfflineAlone, RowIsBehind, SavingIsNewer
  <2>4. DueIsBrought'
    <3>1. CASE Outstanding
      <4>1. \A l \in loads : l.step = "posted" => l.obj # o
        BY <2>1, <3>1
      <4>2. SUFFICES ASSUME NEW c \in due, NEW l \in loads, Brings(l, c) PROVE Brings(l, c)'
        BY <1>1, <2>2 DEF Undisturbed, DueIsBrought
      <4>3. QED
        BY <1>1, <1>2, <4>1, <4>2 DEF Brings
    <3>2. CASE ~Outstanding
      BY <1>1, <3>2 DEF Outstanding, DueIsBrought
    <3>3. QED
      BY <3>1, <3>2
  <2>5. QED
    BY <2>3, <2>4 DEF Undisturbed
<1>5. QED
  BY <1>3, <1>4 DEF SaveInv

\* An offline player is changed and saved at once, on top of what is stored.
LEMMA OfflineChangeInv == ASSUME SaveInv, OfflineChange PROVE SaveInv'
<1>0. PICK new, x : /\ x = made'
                    /\ new = [obj |-> Offline, at |-> 0, step |-> "saving", copy |-> row \cup {x}]
  OBVIOUS
<1>1. /\ Online = {} /\ DispatcherFree /\ made < MaxChanges /\ made' = made + 1
      /\ playerMap' = 0 /\ loads' = loads \cup {new} /\ due' = due \cup {made'}
      /\ incidents' = IF Saving THEN incidents \cup {"offlineChange"} ELSE incidents
      /\ UNCHANGED <<object, data, scheduledAt, clock, row, running>>
  BY <1>0 DEF OfflineChange
<1>2. made' \in Changes /\ made' \in Nat
  BY <1>1, PlayerSaveAssumption DEF SaveInv, SaveTypes, Changes
<1>3. new \in Loads /\ 0 \in Stamps
  BY <1>0, <1>2, PlayerSaveAssumption DEF Loads, Stamps, SaveInv, SaveTypes
<1>4. new.obj = Offline /\ new.step = "saving" /\ new.copy = row \cup {x} /\ x = made'
  BY <1>0
<1>5. Online' = Online
  BY <1>1 DEF Online
<1>6. SaveTypes'
  BY <1>1, <1>2, <1>3, <1>4, <1>5, Marks DEF SaveInv, SaveTypes
<1>7. ASSUME incidents' = {} PROVE Undisturbed'
  <2>1. incidents = {} /\ ~Saving
    BY <1>1, <1>7
  <2>2. \A l \in loads : l.obj = All /\ l.step = "posted"
    BY <1>1, <2>1 DEF Saving, DispatcherFree, SaveInv, SaveTypes, Loads
  <2>3. \A c \in due : c \in row
    BY <1>1, <2>1, <2>2, Marks DEF SaveInv, Undisturbed, DueIsBrought, Brings
  <2>4. OneObject' /\ OfflineAlone' /\ RowIsBehind' /\ SavingIsNewer'
    BY <1>1, <1>4, <1>5, <2>2, Marks DEF OneObject, OfflineAlone, RowIsBehind, SavingIsNewer
  <2>5. DueIsBrought'
    <3>1. Brings(new, x)'
      BY <1>4 DEF Brings
    <3>2. QED
      BY <1>1, <1>4, <2>3, <3>1 DEF DueIsBrought, Brings
  <2>6. QED
    BY <2>4, <2>5 DEF Undisturbed
<1>8. QED
  BY <1>6, <1>7 DEF SaveInv

\* scheduleAll() asks for everything the players online have.
LEMMA ScheduleAllInv == ASSUME SaveInv, ScheduleAll PROVE SaveInv'
<1>0. PICK new : new = [obj |-> All, at |-> clock', step |-> "posted", copy |-> {}]
  OBVIOUS
<1>1. /\ DispatcherFree /\ clock < MaxStamps /\ clock' = clock + 1 /\ scheduledAt' = clock'
      /\ loads' = loads \cup {new}
      /\ due' = due \cup UNION {data[o] : o \in Online}
      /\ UNCHANGED <<object, data, playerMap, row, running, made, incidents>>
  BY <1>0 DEF ScheduleAll
<1>2. clock' \in Stamps
  BY <1>1, PlayerSaveAssumption DEF SaveInv, SaveTypes, Stamps
<1>3. new \in Loads
  BY <1>0, <1>2 DEF Loads
<1>4. new.obj = All /\ new.at = scheduledAt' /\ new.step = "posted"
  BY <1>0, <1>1
<1>5. Online' = Online
  BY <1>1 DEF Online
<1>6. SaveTypes'
  BY <1>1, <1>2, <1>3, <1>4, <1>5, Marks DEF SaveInv, SaveTypes
<1>7. ASSUME Undisturbed PROVE Undisturbed'
  <2>1. OneObject' /\ RowIsBehind' /\ SavingIsNewer'
    BY <1>1, <1>4, <1>5, <1>7, Marks DEF Undisturbed, OneObject, RowIsBehind, SavingIsNewer
  <2>2. OfflineAlone'
    BY <1>1, <1>4, Marks DEF OfflineAlone, DispatcherFree
  <2>3. DueIsBrought'
    <3>1. \A o \in Online : \A c \in data[o] : Brings(new, c)'
      BY <1>1, <1>4, <1>5 DEF Brings
    <3>2. ASSUME NEW c \in due PROVE c \in row \/ \E l \in loads' : Brings(l, c)'
      <4>1. CASE \E o \in Online : c \in data[o]
        BY <1>1, <3>1, <4>1
      <4>2. CASE ~\E o \in Online : c \in data[o]
        <5>1. \A l \in loads : Brings(l, c) => Brings(l, c)'
          BY <1>1, <4>2 DEF Brings
        <5>2. QED
          BY <1>1, <1>7, <5>1 DEF Undisturbed, DueIsBrought
      <4>3. QED
        BY <4>1, <4>2
    <3>3. ASSUME NEW o \in Online, NEW c \in data[o] PROVE \E l \in loads' : Brings(l, c)'
      BY <1>1, <3>1
    <3>4. ASSUME NEW c \in due', c \notin due PROVE \E o \in Online : c \in data[o]
      <4>1. c \in UNION {data[o] : o \in Online}
        BY <1>1, <3>4
      <4>2. QED
        BY <4>1
    <3>5. SUFFICES ASSUME NEW c \in due' PROVE c \in row' \/ \E l \in loads' : Brings(l, c)'
      BY DEF DueIsBrought
    <3>6. QED
      BY <1>1, <3>2, <3>3, <3>4, <3>5
  <2>4. QED
    BY <2>1, <2>2, <2>3 DEF Undisturbed
<1>8. QED
  BY <1>1, <1>6, <1>7 DEF SaveInv

\* A load of schedulePlayer() goes on only with the stamp of m_playerMap and an
\* object that is alive; one that brings something has both.
LEMMA CheckLoadInv ==
  ASSUME SaveInv, NEW l \in loads, CheckLoad(l) PROVE SaveInv'
<1>0. PICK next : next = [l EXCEPT !.step = "checked"]
  OBVIOUS
<1>1. /\ l.step = "posted" /\ l.obj # All
      /\ loads' = (loads \ {l}) \cup (IF Alive(l.obj) /\ playerMap = l.at THEN {next} ELSE {})
      /\ UNCHANGED <<object, data, playerMap, scheduledAt, clock, row, running, made, due, incidents>>
  BY <1>0 DEF CheckLoad
<1>2. l \in Loads /\ l.obj \in Objects
  BY <1>1 DEF SaveInv, SaveTypes, Loads
<1>3. next \in Loads /\ next.obj = l.obj /\ next.step = "checked"
  BY <1>0, <1>2 DEF Loads
<1>4. loads' \subseteq (loads \ {l}) \cup {next}
  BY <1>1
<1>5. Online' = Online
  BY <1>1 DEF Online
<1>6. SaveTypes'
  BY <1>1, <1>2, <1>3, <1>4, <1>5, Marks DEF SaveInv, SaveTypes
<1>7. ASSUME Undisturbed PROVE Undisturbed'
  <2>1. OneObject' /\ RowIsBehind'
    BY <1>1, <1>2, <1>3, <1>4, <1>5, <1>7 DEF Undisturbed, OneObject, RowIsBehind
  <2>2. OfflineAlone'
    <3>1. \A m \in loads : m.obj # Offline
      BY <1>1, <1>2, <1>7, Marks DEF Undisturbed, OfflineAlone
    <3>2. QED
      BY <1>2, <1>3, <1>4, <3>1, Marks DEF OfflineAlone
  <2>3. SavingIsNewer'
    BY <1>1, <1>3, <1>4, <1>7 DEF Undisturbed, SavingIsNewer
  <2>4. DueIsBrought'
    <3>1. ASSUME NEW c \in due, NEW m \in loads, Brings(m, c)
          PROVE  \E k \in loads' : Brings(k, c)'
      <4>1. CASE m # l
        <5>1. m \in loads' /\ Brings(m, c)'
          BY <1>1, <1>5, <3>1, <4>1 DEF Brings
        <5>2. QED
          BY <5>1
      <4>2. CASE m = l
        <5>1. playerMap = l.at /\ Alive(l.obj) /\ c \in data[l.obj]
          BY <1>1, <3>1, <4>2 DEF Brings, Alive
        <5>2. next \in loads' /\ Brings(next, c)'
          BY <1>1, <1>3, <5>1 DEF Brings
        <5>3. QED
          BY <5>2
      <4>3. QED
        BY <4>1, <4>2
    <3>2. QED
      BY <1>1, <1>7, <3>1 DEF Undisturbed, DueIsBrought
  <2>5. QED
    BY <2>1, <2>2, <2>3, <2>4 DEF Undisturbed
<1>8. QED
  BY <1>1, <1>6, <1>7 DEF SaveInv

\* The load of scheduleAll() becomes a save for each player online.
LEMMA CheckAllInv ==
  ASSUME SaveInv, NEW l \in loads, CheckAll(l) PROVE SaveInv'
<1> DEFINE next == {[l EXCEPT !.step = "checked", !.obj = o] : o \in Online}
<1>1. /\ l.step = "posted" /\ l.obj = All
      /\ loads' = (loads \ {l}) \cup (IF scheduledAt = l.at THEN next ELSE {})
      /\ UNCHANGED <<object, data, playerMap, scheduledAt, clock, row, running, made, due, incidents>>
  BY DEF CheckAll
<1>2. l \in Loads
  BY DEF SaveInv, SaveTypes
<1>3. \A k \in next : k \in Loads /\ k.obj \in Online /\ k.obj \in Objects /\ k.step = "checked"
  BY <1>2 DEF Loads, Online
<1>4. ASSUME NEW o \in Online PROVE \E k \in next : k.obj = o
  <2>1. [l EXCEPT !.step = "checked", !.obj = o] \in next
    OBVIOUS
  <2>2. [l EXCEPT !.step = "checked", !.obj = o].obj = o
    BY <1>2 DEF Loads
  <2>3. QED
    BY <2>1, <2>2
<1>5. loads' \subseteq (loads \ {l}) \cup next
  BY <1>1
<1> HIDE DEF next
<1>6. Online' = Online
  BY <1>1 DEF Online
<1>7. SaveTypes'
  BY <1>1, <1>3, <1>5, <1>6, Marks DEF SaveInv, SaveTypes
<1>8. ASSUME Undisturbed PROVE Undisturbed'
  <2>1. OneObject' /\ RowIsBehind'
    BY <1>1, <1>3, <1>5, <1>6, <1>8 DEF SaveInv, SaveTypes, Undisturbed, OneObject, RowIsBehind
  <2>2. OfflineAlone'
    BY <1>3, <1>5, <1>6, <1>8, Marks DEF Undisturbed, OfflineAlone
  <2>3. SavingIsNewer'
    BY <1>1, <1>3, <1>5, <1>8 DEF Undisturbed, SavingIsNewer
  <2>4. DueIsBrought'
    <3>1. ASSUME NEW c \in due, NEW m \in loads, Brings(m, c)
          PROVE  \E k \in loads' : Brings(k, c)'
      <4>1. CASE m # l
        <5>1. m \in loads' /\ Brings(m, c)'
          BY <1>1, <1>6, <3>1, <4>1 DEF Brings
        <5>2. QED
          BY <5>1
      <4>2. CASE m = l
        <5>1. l.at = scheduledAt /\ \E o \in Online : c \in data[o]
          BY <1>1, <3>1, <4>2, Marks DEF Brings
        <5>2. PICK k \in next : c \in data[k.obj]
          BY <1>4, <5>1
        <5>3. k \in loads' /\ Brings(k, c)'
          BY <1>1, <1>3, <5>1, <5>2 DEF Brings
        <5>4. QED
          BY <5>3
      <4>3. QED
        BY <4>1, <4>2
    <3>2. QED
      BY <1>1, <1>8, <3>1 DEF Undisturbed, DueIsBrought
  <2>5. QED
    BY <2>1, <2>2, <2>3, <2>4 DEF Undisturbed
<1>9. QED
  BY <1>1, <1>7, <1>8 DEF SaveInv

\* doSavePlayer() erases the stamp of whatever load is posted, but reads the state
\* that load would have saved: all loads are of one object.
LEMMA BeginSaveInv ==
  ASSUME SaveInv, NEW l \in loads, BeginSave(l) PROVE SaveInv'
<1>0. PICK next : next = [l EXCEPT !.step = "saving", !.copy = data[l.obj]]
  OBVIOUS
<1>1. /\ l.step = "checked"
      /\ \A m \in loads : m.obj = l.obj => m.step # "saving"
      /\ playerMap' = 0 /\ loads' = (loads \ {l}) \cup {next}
      /\ UNCHANGED <<object, data, scheduledAt, clock, row, running, made, due, incidents>>
  BY <1>0 DEF BeginSave
<1>2. l \in Loads /\ l.obj \in Objects
  BY <1>1 DEF SaveInv, SaveTypes, Loads
<1>3. data[l.obj] \in SUBSET Changes
  BY <1>2 DEF SaveInv, SaveTypes
<1>4. next \in Loads /\ next.obj = l.obj /\ next.step = "saving" /\ next.copy = data[l.obj]
  BY <1>0, <1>2, <1>3 DEF Loads
<1>5. Online' = Online /\ 0 \in Stamps
  BY <1>1, PlayerSaveAssumption DEF Online, Stamps
<1>6. SaveTypes'
  BY <1>1, <1>2, <1>4, <1>5, Marks DEF SaveInv, SaveTypes
<1>7. ASSUME Undisturbed PROVE Undisturbed'
  <2>1. \A m \in loads : m.obj # Offline
    BY <1>2, <1>7, Marks DEF Undisturbed, OfflineAlone
  <2>2. OneObject' /\ RowIsBehind'
    BY <1>1, <1>2, <1>4, <1>5, <1>7 DEF Undisturbed, OneObject, RowIsBehind
  <2>3. OfflineAlone'
    BY <1>1, <1>2, <1>4, <2>1, Marks DEF OfflineAlone
  <2>4. \A m \in loads : m.step # "saving"
    <3>1. SUFFICES ASSUME NEW m \in loads, m.step = "saving" PROVE FALSE
      OBVIOUS
    <3>2. m.obj \in Objects
      BY <2>1, <3>1 DEF SaveInv, SaveTypes, Loads
    <3>3. m.obj = l.obj
      BY <1>2, <1>7, <3>2 DEF Undisturbed, OneObject
    <3>4. QED
      BY <1>1, <3>1, <3>3
  <2>5. SavingIsNewer'
    BY <1>1, <1>2, <1>4, <1>7, <2>4 DEF Undisturbed, SavingIsNewer, RowIsBehind
  <2>6. DueIsBrought'
    <3>1. ASSUME NEW c \in due, NEW m \in loads, Brings(m, c)
          PROVE  \E k \in loads' : Brings(k, c)'
      <4>1. CASE m.obj \in Objects
        <5>1. m.obj = l.obj
          BY <1>2, <1>7, <4>1 DEF Undisturbed, OneObject
        <5>2. c \in data[l.obj]
          BY <2>4, <3>1, <4>1, <5>1, Marks DEF Brings
        <5>3. next \in loads' /\ Brings(next, c)'
          BY <1>1, <1>4, <5>2 DEF Brings
        <5>4. QED
          BY <5>3
      <4>2. CASE m.obj \notin Objects
        <5>1. m.obj = All /\ m # l
          BY <1>2, <2>1, <4>2 DEF SaveInv, SaveTypes, Loads
        <5>2. m.step = "posted"
          BY <5>1 DEF SaveInv, SaveTypes
        <5>3. m \in loads' /\ Brings(m, c)'
          BY <1>1, <1>5, <3>1, <4>2, <5>1, <5>2 DEF Brings
        <5>4. QED
          BY <5>3
      <4>3. QED
        BY <4>1, <4>2
    <3>2. QED
      BY <1>1, <1>7, <3>1 DEF Undisturbed, DueIsBrought
  <2>7. QED
    BY <2>2, <2>3, <2>5, <2>6 DEF Undisturbed
<1>8. QED
  BY <1>1, <1>6, <1>7 DEF SaveInv

\* What is stored lies between what was read and what the object has now.
LEMMA StoredFacts ==
  ASSUME SaveInv, NEW l \in loads, l.step = "saving", NEW r \in Stored(l)
  PROVE  /\ l.copy \subseteq r /\ r \subseteq Changes
         /\ l.obj = Offline => r = l.copy
         /\ l.obj \in Objects /\ l.copy \subseteq data[l.obj] => r \subseteq data[l.obj]
<1>1. l \in Loads /\ l.obj \in Objects \cup {Offline}
  BY DEF SaveInv, SaveTypes, Loads
<1>2. l.copy \subseteq Changes
  BY <1>1 DEF Loads
<1>3. CASE l.obj = Offline
  BY <1>2, <1>3, Marks DEF Stored
<1>4. CASE l.obj \in Objects
  <2>1. data[l.obj] \subseteq Changes
    BY <1>4 DEF SaveInv, SaveTypes
  <2>2. PICK s \in SUBSET (data[l.obj] \ l.copy) : r = l.copy \cup s
    BY <1>4, Marks DEF Stored
  <2>3. QED
    BY <1>2, <1>4, <2>1, <2>2, Marks
<1>5. QED
  BY <1>1, <1>3, <1>4

\* The transaction of a save ends.
LEMMA CommitSaveInv ==
  ASSUME SaveInv, NEW l \in loads, CommitSave(l) PROVE SaveInv'
<1>1. /\ l.step = "saving" /\ loads' = loads \ {l}
      /\ \/ row' \in Stored(l) /\ UNCHANGED incidents
         \/ UNCHANGED row /\ incidents' = incidents \cup {"failed"}
      /\ UNCHANGED <<object, data, playerMap, scheduledAt, clock, running, made, due>>
  BY DEF CommitSave
<1>2. Online' = Online
  BY <1>1 DEF Online
<1>3. row' \subseteq Changes
  BY <1>1, StoredFacts DEF SaveInv, SaveTypes
<1>4. SaveTypes'
  BY <1>1, <1>2, <1>3 DEF SaveInv, SaveTypes
<1>5. ASSUME incidents' = {} PROVE Undisturbed'
  <2>1. incidents = {} /\ row' \in Stored(l)
    BY <1>1, <1>5
  <2>2. Undisturbed
    BY <2>1 DEF SaveInv
  <2>3. /\ row \subseteq l.copy /\ l.copy \subseteq row'
        /\ l.obj \in Objects => row' \subseteq data[l.obj]
    BY <1>1, <2>1, <2>2, StoredFacts DEF Undisturbed, SavingIsNewer
  <2>4. OneObject' /\ OfflineAlone'
    BY <1>1, <1>2, <2>2 DEF Undisturbed, OneObject, OfflineAlone
  <2>5. RowIsBehind'
    <3>1. CASE l.obj \in Objects
      BY <1>1, <1>2, <2>2, <2>3, <3>1 DEF Undisturbed, OneObject, RowIsBehind
    <3>2. CASE l.obj = Offline
      BY <1>1, <1>2, <2>2, <3>2, Marks DEF Undisturbed, OfflineAlone, RowIsBehind
    <3>3. QED
      BY <1>1, <3>1, <3>2 DEF SaveInv, SaveTypes, Loads
  <2>6. SavingIsNewer'
    BY <1>1, <2>2 DEF Undisturbed, SavingIsNewer
  <2>7. DueIsBrought'
    <3>1. ASSUME NEW c \in due PROVE c \in row' \/ \E k \in loads' : Brings(k, c)'
      <4>1. CASE c \in row
        BY <2>3, <4>1
      <4>2. CASE c \notin row
        <5>1. PICK m \in loads : Brings(m, c)
          BY <2>2, <4>2 DEF Undisturbed, DueIsBrought
        <5>2. CASE m = l
          BY <1>1, <2>3, <5>1, <5>2 DEF Brings
        <5>3. CASE m # l
          <6>1. m \in loads' /\ Brings(m, c)'
            BY <1>1, <1>2, <5>1, <5>3 DEF Brings
          <6>2. QED
            BY <6>1
        <5>4. QED
          BY <5>2, <5>3
      <4>3. QED
        BY <4>1, <4>2
    <3>2. QED
      BY <1>1, <3>1 DEF DueIsBrought
  <2>8. QED
    BY <2>4, <2>5, <2>6, <2>7 DEF Undisturbed
<1>6. QED
  BY <1>4, <1>5 DEF SaveInv

\* A stopped pool that drops the last chance of a save has cost it.
LEMMA StopPoolInv == ASSUME SaveInv, StopPool PROVE SaveInv'
<1>1. /\ loads' = {l \in loads : l.step # "posted"}
      /\ IF loads' # loads THEN Note("stopped") ELSE UNCHANGED incidents
      /\ UNCHANGED <<object, data, playerMap, scheduledAt, clock, row, made, due>>
  BY DEF StopPool
<1>2. Online' = Online
  BY <1>1 DEF Online
<1>3. SaveTypes'
  BY <1>1, <1>2 DEF SaveInv, SaveTypes
<1>4. ASSUME incidents' = {} PROVE Undisturbed'
  <2>1. incidents = {} /\ (loads' # loads => ~Outstanding)
    BY <1>1, <1>4 DEF Note
  <2>2. Undisturbed
    BY <2>1 DEF SaveInv
  <2>3. OneObject' /\ OfflineAlone' /\ RowIsBehind' /\ SavingIsNewer'
    BY <1>1, <1>2, <2>2 DEF Undisturbed, OneObject, OfflineAlone, RowIsBehind, SavingIsNewer
  <2>4. DueIsBrought'
    <3>1. CASE loads' = loads
      BY <1>1, <1>2, <2>2, <3>1 DEF Undisturbed, DueIsBrought, Brings
    <3>2. CASE ~Outstanding
      BY <1>1, <3>2 DEF Outstanding, DueIsBrought
    <3>3. QED
      BY <2>1, <3>1, <3>2
  <2>5. QED
    BY <2>3, <2>4 DEF Undisturbed
<1>5. QED
  BY <1>3, <1>4 DEF SaveInv

\* Every step keeps the invariant of the saves.
LEMMA SaveNextInv == ASSUME SaveInv, [PlayerSaveNext]_saveVars PROVE SaveInv'
<1>1. CASE PlayerSaveNext
  BY <1>1, LoginPlayerInv, ChangePlayerInv, SaveOrLogoutInv, ReleasePlayerInv, OfflineChangeInv,
     ScheduleAllInv, CheckLoadInv, CheckAllInv, BeginSaveInv, CommitSaveInv, StopPoolInv
     DEF PlayerSaveNext
<1>2. CASE UNCHANGED saveVars
  BY <1>2 DEF saveVars, SaveInv, SaveTypes, Online, Undisturbed, OneObject, OfflineAlone,
     RowIsBehind, SavingIsNewer, DueIsBrought, Brings
<1>3. QED
  BY <1>1, <1>2

\* The inductive invariant implies what the run checks.
LEMMA SaveInvKept == SaveInv => SavesAreKept
<1> SUFFICES ASSUME SaveInv PROVE SavesAreKept
  OBVIOUS
<1>1. Cardinality(Online) <= 1
  <2>1. CASE Online = {}
    BY <2>1, FS_EmptySet
  <2>2. CASE Online # {}
    <3>1. PICK o \in Online : TRUE
      BY <2>2
    <3>2. Online = {o}
      BY <3>1 DEF SaveInv, SaveTypes
    <3>3. Cardinality({o}) = 1
      BY FS_Singleton
    <3>4. QED
      BY <3>2, <3>3
  <2>3. QED
    BY <2>1, <2>2
<1>2. PlayerSaveTypeOK
  BY <1>1 DEF SaveInv, SaveTypes, PlayerSaveTypeOK
<1>3. SavedWhenQuiet
  BY DEF SaveInv, Undisturbed, DueIsBrought, SavedWhenQuiet
<1>4. QED
  BY <1>2, <1>3 DEF SavesAreKept

\* Saves: for any number of objects, changes and stamps, when no load is left the
\* database has everything the last save was asked for, unless one of the recorded
\* incidents has cost a save.
THEOREM SavesStayKept == PlayerSaveSpec => []SavesAreKept
<1>1. SaveInv /\ [PlayerSaveNext]_saveVars => SaveInv'
  BY SaveNextInv
<1>2. QED
  BY <1>1, SaveInitInv, SaveInvKept, PTL DEF PlayerSaveSpec

\* Every step stores more or leaves the row alone.
LEMMA SaveStepForward ==
  ASSUME SaveInv, [PlayerSaveNext]_saveVars, incidents' = {} PROVE row \subseteq row'
<1>1. CASE UNCHANGED row
  BY <1>1
<1>2. ASSUME NEW l \in loads, CommitSave(l) PROVE row \subseteq row'
  <2>1. /\ l.step = "saving"
        /\ \/ row' \in Stored(l) /\ UNCHANGED incidents
           \/ UNCHANGED row
    BY <1>2 DEF CommitSave
  <2>2. CASE row' \in Stored(l) /\ UNCHANGED incidents
    BY <2>1, <2>2, StoredFacts DEF SaveInv, Undisturbed, SavingIsNewer
  <2>3. QED
    BY <2>1, <2>2
<1>3. QED
  BY <1>1, <1>2 DEF PlayerSaveNext, saveVars, LoginPlayer, ChangePlayer, SavePlayer, LogoutPlayer,
     ReleasePlayer, OfflineChange, ScheduleAll, StopPool, CheckLoad, CheckAll, BeginSave

\* Saves: no save takes back what an earlier one has stored, as long as no incident
\* has let two objects of the character be saved side by side.
THEOREM SavesOnlyAdd == PlayerSaveSpec => SavesGoForward
<1>1. SaveInv /\ [PlayerSaveNext]_saveVars => SaveInv'
  BY SaveNextInv
<1>2. SaveInv /\ [PlayerSaveNext]_saveVars => [incidents' = {} => row \subseteq row']_saveVars
  BY SaveStepForward
<1>3. QED
  BY <1>1, <1>2, SaveInitInv, PTL DEF PlayerSaveSpec, SavesGoForward

-----------------------------------------------------------------------------
(***************************************************************************)
(* Decay: until the iterator of checkDecay() slips, each item waits in the *)
(* vector the check copied, rests, or is listed once, and no entry is due  *)
(* before the next check.                                                  *)
(***************************************************************************)

\* The items.
DecayItems ==
  [parent : {Tile, Gone} \cup Boxes, state : States, stamp : Nat,
   duration : {NoDuration} \cup Nat, decays : BOOLEAN]

\* The entries of decayMap: a time and a thing.
DecayPairs == (Nat \ {0}) \X Things

\* What startDecay(), stopDecay() and their callers work on.
DecayStates ==
  [item : [Things -> DecayItems], map : SUBSET DecayPairs, checkEvent : Nat,
   orphans : SUBSET (Nat \ {0}), todo : SUBSET DecayPairs, slips : SUBSET {"dangling", "renewed"}]

\* The entries of i in decayMap.
Entries(s, i) == {e \in s.map : e[2] = i}

\* The check that runs still has i in the vector it copied.
Copied(s, i) == \E e \in s.todo : e[2] = i

\* What i is listed under is its own stamp, and a listed item is marked.
Marked(s, i) ==
  /\ Entries(s, i) \subseteq {<<s.item[i].stamp, i>>}
  /\ Entries(s, i) # {} => s.item[i].state # "idle" /\ s.item[i].stamp # NoTime

\* i does not decay and is not listed.
Resting(s, i) == s.item[i].state # "decaying" /\ s.item[i].stamp = NoTime /\ Entries(s, i) = {}

\* i decays and is listed once, under its stamp.
Decaying(s, i) ==
  /\ s.item[i].state = "decaying" /\ s.item[i].stamp # NoTime
  /\ Entries(s, i) = {<<s.item[i].stamp, i>>}
  /\ CanDecay(s, i) /\ ~Copied(s, i)

\* An item waits in the copied vector, rests or decays.
ItemOK(s, i) ==
  \/ Copied(s, i) /\ Entries(s, i) = {}
  \/ Resting(s, i)
  \/ Decaying(s, i)

\* No entry is due before the next check, or before the node of the check that runs.
Covered(s) ==
  \A e \in s.map : \E t \in (s.orphans \cup {s.checkEvent, check.it}) \ {NoTime} : t <= e[1]

\* A state in order.
DecayOK(s) == s \in DecayStates /\ Covered(s) /\ \A i \in Things : ItemOK(s, i)

\* The inductive invariant of the decay.  Until one of the two slips of checkDecay()
\* has happened, the map is covered and each item is in order.
DecayInv ==
  /\ DecayState \in DecayStates
  /\ time \in Nat /\ check = [on |-> check.on, todo |-> check.todo, it |-> check.it]
  /\ check.it \in Nat
  /\ ~check.on => check.it = NoTime /\ check.todo = {}
  /\ \A e \in check.todo : e[1] <= time
  /\ slips = {} => DecayOK(DecayState)

\* FirstDue is the time of an entry, and no entry is earlier: decayMap.begin().
LEMMA FirstDueLeast ==
  ASSUME NEW map \in SUBSET DecayPairs, map # {}
  PROVE  /\ FirstDue(map) \in Nat \ {0}
         /\ \E e \in map : e[1] = FirstDue(map)
         /\ \A e \in map : FirstDue(map) <= e[1]
<1> DEFINE S == {e[1] : e \in map}
<1>1. S \in SUBSET Nat /\ S # {} /\ 0 \notin S
  BY DEF DecayPairs
<1> HIDE DEF S
<1>2. \E m \in S : \A n \in S : m <= n
  BY <1>1, LeastOf
<1>3. Min(S) \in S /\ \A n \in S : Min(S) <= n
  BY <1>2 DEF Min
<1>4. FirstDue(map) = Min(S)
  BY DEF FirstDue, S
<1>5. QED
  BY <1>1, <1>3, <1>4 DEF S

\* r is s after stopDecay() of the things js: they are listed no more, and nothing
\* else has changed.
StoppedIn(s, js, r) ==
  /\ r \in DecayStates
  /\ r.map = {e \in s.map : e[2] \notin js}
  /\ r.checkEvent = s.checkEvent /\ r.orphans = s.orphans /\ r.todo = s.todo
  /\ s.slips \subseteq r.slips
  /\ \A k \in Things : k \notin js => r.item[k] = s.item[k]
  /\ \A k \in js : /\ r.item[k].parent = s.item[k].parent
                   /\ r.item[k].decays = s.item[k].decays
                   /\ r.item[k].duration \in {s.item[k].duration, GetDuration(s.item[k])}
                   /\ Entries(s, k) # {} => r.item[k].state = "idle" /\ r.item[k].stamp = NoTime
                   /\ s.item[k].state # "decaying" /\ s.item[k].stamp = NoTime =>
                        r.item[k].state # "decaying" /\ r.item[k].stamp = NoTime

\* getDuration() is a duration.
LEMMA DurationType ==
  ASSUME NEW x \in DecayItems, time \in Nat
  PROVE  GetDuration(x) \in {NoDuration} \cup Nat
BY DEF GetDuration, DecayItems, NoDuration

\* stopDecay() stops one thing.
LEMMA StopEffect ==
  ASSUME NEW s \in DecayStates, NEW i \in Things, time \in Nat, Marked(s, i),
         NEW r, r = StopDecay(s, i)
  PROVE  StoppedIn(s, {i}, r)
<1> DEFINE x == s.item[i]
           at == Node(s, x.stamp)
           dur == IF x.duration = NoDuration THEN x.duration ELSE GetDuration(x)
           stopped == [x EXCEPT !.state = "idle", !.stamp = NoTime, !.duration = dur]
<1>1. x \in DecayItems /\ dur \in {NoDuration} \cup Nat /\ dur \in {x.duration, GetDuration(x)}
  BY DurationType DEF DecayStates, DecayItems
<1>2. <<x.stamp, i>> \in at <=> <<x.stamp, i>> \in s.map
  BY DEF Node
<1>3. stopped \in DecayItems /\ stopped.parent = x.parent /\ stopped.decays = x.decays
      /\ stopped.state = "idle" /\ stopped.stamp = NoTime /\ stopped.duration = dur
  BY <1>1 DEF DecayItems, States, NoTime
<1>4. CASE x.state = "idle"
  <2>1. r = s
    BY <1>4 DEF StopDecay
  <2>2. Entries(s, i) = {}
    BY <1>4 DEF Marked
  <2>3. r.map = {e \in s.map : e[2] \notin {i}}
    BY <2>1, <2>2 DEF Entries
  <2>4. QED
    BY <2>1, <2>2, <2>3 DEF StoppedIn
<1>5. CASE x.state # "idle" /\ x.stamp = NoTime
  <2>1. r = [s EXCEPT !.item[i].state = "idle"]
    BY <1>5 DEF StopDecay
  <2>2. Entries(s, i) = {}
    BY <1>5 DEF Marked
  <2>3. r.map = {e \in s.map : e[2] \notin {i}}
    BY <2>1, <2>2 DEF Entries, DecayStates
  <2>4. r.item = [s.item EXCEPT ![i] = [x EXCEPT !.state = "idle"]]
    BY <2>1 DEF DecayStates
  <2>5. [x EXCEPT !.state = "idle"] \in DecayItems
    BY <1>1 DEF DecayItems, States
  <2>6. r \in DecayStates
    BY <2>1, <2>4, <2>5 DEF DecayStates
  <2>7. /\ r.checkEvent = s.checkEvent /\ r.orphans = s.orphans /\ r.todo = s.todo
        /\ r.slips = s.slips
    BY <2>1 DEF DecayStates
  <2>8. \A k \in Things : k # i => r.item[k] = s.item[k]
    BY <2>4 DEF DecayStates
  <2>9. /\ r.item[i].parent = x.parent /\ r.item[i].decays = x.decays
        /\ r.item[i].duration = x.duration /\ r.item[i].state = "idle"
        /\ r.item[i].stamp = x.stamp
    BY <2>4, <1>1 DEF DecayStates, DecayItems
  <2>10. QED
    BY <1>5, <2>2, <2>3, <2>6, <2>7, <2>8, <2>9 DEF StoppedIn
<1>6. CASE x.state # "idle" /\ x.stamp # NoTime /\ <<x.stamp, i>> \in at
  <2> DEFINE new == IF check.on /\ check.it = x.stamp /\ Cardinality(at) = 1
                    THEN s.slips \cup {"dangling"} ELSE s.slips
  <2>1. r = [s EXCEPT !.item[i] = stopped, !.map = @ \ {<<x.stamp, i>>}, !.slips = new]
    BY <1>6 DEF StopDecay
  <2>2. new \in SUBSET {"dangling", "renewed"} /\ s.slips \subseteq new
    BY DEF DecayStates
  <2> HIDE DEF new, stopped
  <2>3. /\ r.item = [s.item EXCEPT ![i] = stopped] /\ r.map = s.map \ {<<x.stamp, i>>}
        /\ r.slips = new /\ r.checkEvent = s.checkEvent /\ r.orphans = s.orphans
        /\ r.todo = s.todo
    BY <2>1 DEF DecayStates
  <2>4. r.map = {e \in s.map : e[2] \notin {i}}
    BY <2>3 DEF Marked, Entries, DecayStates, DecayPairs
  <2>5. r \in DecayStates
    <3>1. r.item \in [Things -> DecayItems]
      BY <2>3, <1>3 DEF DecayStates
    <3>2. r = [item |-> r.item, map |-> r.map, checkEvent |-> r.checkEvent,
               orphans |-> r.orphans, todo |-> r.todo, slips |-> r.slips]
      BY <2>1 DEF DecayStates
    <3>3. QED
      BY <3>1, <3>2, <2>2, <2>3 DEF DecayStates
  <2>6. \A k \in Things : k # i => r.item[k] = s.item[k]
    BY <2>3 DEF DecayStates
  <2>7. r.item[i] = stopped
    BY <2>3 DEF DecayStates
  <2>8. QED
    BY <1>1, <1>3, <2>2, <2>3, <2>4, <2>5, <2>6, <2>7 DEF StoppedIn
<1>7. CASE x.state # "idle" /\ x.stamp # NoTime /\ <<x.stamp, i>> \notin at
  <2>1. r = s \/ r = [s EXCEPT !.item[i].stamp = NoTime]
    BY <1>7 DEF StopDecay
  <2>2. Entries(s, i) = {}
    BY <1>7, <1>2 DEF Marked, Entries
  <2>3. r.map = {e \in s.map : e[2] \notin {i}}
    BY <2>1, <2>2 DEF Entries, DecayStates
  <2>4. r.item = s.item \/ r.item = [s.item EXCEPT ![i] = [x EXCEPT !.stamp = NoTime]]
    BY <2>1 DEF DecayStates
  <2>5. [x EXCEPT !.stamp = NoTime] \in DecayItems
    BY <1>1 DEF DecayItems, NoTime
  <2>6. r \in DecayStates
    BY <2>1, <2>4, <2>5 DEF DecayStates
  <2>7. QED
    BY <1>7, <2>1, <2>2, <2>3, <2>4, <2>6, <1>1 DEF StoppedIn, DecayStates, DecayItems
<1>8. QED
  BY <1>4, <1>5, <1>6, <1>7

\* A thing with what lies in it.
Inside(s, i) == {j \in Things : j = i \/ s.item[j].parent = i}

\* stopDecaying() stops a thing and what lies in it.
LEMMA StopAllEffect ==
  ASSUME NEW s \in DecayStates, NEW i \in Things, time \in Nat,
         \A k \in Inside(s, i) : Marked(s, k),
         NEW r, r = StopDecaying(s, i)
  PROVE  StoppedIn(s, Inside(s, i), r)
<1> DEFINE js == Inside(s, i)
           left == {e \in s.map : e[2] \in js => e \in StopDecay(s, e[2]).map}
           its == [j \in Things |-> IF j \in js THEN StopDecay(s, j).item[j] ELSE s.item[j]]
           erased == check.on /\ {e \in s.map : e[1] = check.it} # {}
                              /\ {e \in left : e[1] = check.it} = {}
           new == IF erased THEN s.slips \cup {"dangling"} ELSE s.slips
<1>1. \A k \in js : StoppedIn(s, {k}, StopDecay(s, k))
  BY StopEffect DEF Inside
<1>2. r = [s EXCEPT !.item = its, !.map = left, !.slips = new]
  BY DEF StopDecaying, Inside
<1>3. left = {e \in s.map : e[2] \notin js}
  BY <1>1 DEF StoppedIn
<1>4. new \in SUBSET {"dangling", "renewed"} /\ s.slips \subseteq new
  BY DEF DecayStates
<1>5. \A k \in js : StopDecay(s, k).item[k] \in DecayItems
  BY <1>1 DEF StoppedIn, DecayStates, Inside
<1>6. its \in [Things -> DecayItems]
  BY <1>5 DEF DecayStates
<1>7. \A k \in Things : its[k] = IF k \in js THEN StopDecay(s, k).item[k] ELSE s.item[k]
  OBVIOUS
<1>8. js \subseteq Things
  BY DEF Inside
<1> HIDE DEF js, left, its, new
<1>9. /\ r.item = its /\ r.map = left /\ r.slips = new /\ r.checkEvent = s.checkEvent
      /\ r.orphans = s.orphans /\ r.todo = s.todo
  BY <1>2 DEF DecayStates
<1>10. r \in DecayStates
  <2>1. r = [item |-> r.item, map |-> r.map, checkEvent |-> r.checkEvent,
             orphans |-> r.orphans, todo |-> r.todo, slips |-> r.slips]
    BY <1>2 DEF DecayStates
  <2>2. QED
    BY <2>1, <1>3, <1>4, <1>6, <1>9 DEF DecayStates
<1>11. \A k \in js :
         /\ r.item[k].parent = s.item[k].parent
         /\ r.item[k].decays = s.item[k].decays
         /\ r.item[k].duration \in {s.item[k].duration, GetDuration(s.item[k])}
         /\ Entries(s, k) # {} => r.item[k].state = "idle" /\ r.item[k].stamp = NoTime
         /\ s.item[k].state # "decaying" /\ s.item[k].stamp = NoTime =>
              r.item[k].state # "decaying" /\ r.item[k].stamp = NoTime
  BY <1>1, <1>7, <1>8, <1>9 DEF StoppedIn
<1>12. StoppedIn(s, js, r)
  BY <1>3, <1>4, <1>7, <1>9, <1>10, <1>11 DEF StoppedIn
<1>13. QED
  BY <1>12 DEF js

\* stopDecay() leaves k in order: it is copied, listed or at rest.
Settles(s, k) == Copied(s, k) \/ Entries(s, k) # {} \/ Resting(s, k)

\* Where the things lie decides whether they are removed.
LEMMA SameWorld ==
  ASSUME NEW s \in DecayStates, NEW r \in DecayStates,
         \A k \in Things : r.item[k].parent = s.item[k].parent,
         NEW k \in Things
  PROVE  IsRemoved(r, k) <=> IsRemoved(s, k)
BY DecayAssumption DEF IsRemoved

\* Stopping things that would settle leaves the state in order.
LEMMA StoppedOK ==
  ASSUME NEW s \in DecayStates, Covered(s), NEW js \in SUBSET Things,
         \A k \in Things : IF k \in js THEN Marked(s, k) /\ Settles(s, k) ELSE ItemOK(s, k),
         NEW r, StoppedIn(s, js, r)
  PROVE  DecayOK(r)
<1>1. r \in DecayStates
  BY DEF StoppedIn
<1>2. Covered(r)
  BY DEF Covered, StoppedIn
<1>3. ASSUME NEW k \in Things, k \in js PROVE ItemOK(r, k)
  <2>1. Entries(r, k) = {}
    BY <1>3 DEF StoppedIn, Entries
  <2>2. CASE Copied(s, k)
    BY <2>1, <2>2 DEF StoppedIn, Copied, ItemOK
  <2>3. CASE Entries(s, k) # {}
    <3>1. r.item[k].state = "idle" /\ r.item[k].stamp = NoTime
      BY <1>3, <2>3 DEF StoppedIn
    <3>2. QED
      BY <2>1, <3>1 DEF ItemOK, Resting
  <2>4. CASE Resting(s, k)
    <3>1. r.item[k].state # "decaying" /\ r.item[k].stamp = NoTime
      BY <1>3, <2>4 DEF StoppedIn, Resting
    <3>2. QED
      BY <2>1, <3>1 DEF ItemOK, Resting
  <2>5. QED
    BY <1>3, <2>2, <2>3, <2>4 DEF Settles
<1>4. ASSUME NEW k \in Things, k \notin js PROVE ItemOK(r, k)
  <2>1. Entries(r, k) = Entries(s, k) /\ r.item[k] = s.item[k] /\ (Copied(r, k) <=> Copied(s, k))
    BY <1>4 DEF StoppedIn, Entries, Copied
  <2>2. \A j \in Things : r.item[j].parent = s.item[j].parent
    BY DEF StoppedIn
  <2>3. IsRemoved(r, k) <=> IsRemoved(s, k)
    BY <1>1, <2>2, SameWorld
  <2>4. QED
    BY <1>4, <2>1, <2>3 DEF ItemOK, Resting, Decaying, CanDecay
<1>5. QED
  BY <1>1, <1>2, <1>3, <1>4 DEF DecayOK

\* An item in order is marked and would settle.
LEMMA ItemMarked ==
  ASSUME NEW s, NEW i \in Things, ItemOK(s, i)
  PROVE  Marked(s, i) /\ Settles(s, i)
BY DEF ItemOK, Resting, Decaying, Marked, Settles

\* r may follow s: it has forgotten no slip, and without one it is in order.
Becoming(s, r) ==
  /\ r \in DecayStates /\ s.slips \subseteq r.slips /\ r.todo = s.todo
  /\ r.slips = {} => DecayOK(r)

\* startDecay() leaves a check no later than the time it was given.
LEMMA ScheduleEffect ==
  ASSUME NEW s \in DecayStates, Covered(s), NEW t \in Nat \ {0}, check.it \in Nat,
         NEW r, r = Schedule(s, t)
  PROVE  /\ r \in DecayStates /\ r.item = s.item /\ r.map = s.map /\ r.todo = s.todo
         /\ r.slips = s.slips /\ Covered(r)
         /\ \E u \in (r.orphans \cup {r.checkEvent, check.it}) \ {NoTime} : u <= t
<1>1. CASE s.map = {}
  <2>1. r = [s EXCEPT !.checkEvent = t, !.orphans = (@ \cup {s.checkEvent}) \ {NoTime}]
    BY <1>1 DEF Schedule
  <2>2. r \in DecayStates /\ r.item = s.item /\ r.map = s.map /\ r.todo = s.todo
        /\ r.slips = s.slips /\ r.checkEvent = t
    <3> DEFINE new == (s.orphans \cup {s.checkEvent}) \ {NoTime}
    <3>1. new \in SUBSET (Nat \ {0})
      BY DEF DecayStates, NoTime
    <3>2. r = [s EXCEPT !.checkEvent = t, !.orphans = new]
      BY <2>1
    <3> HIDE DEF new
    <3>3. QED
      BY <3>1, <3>2 DEF DecayStates
  <2>3. QED
    BY <1>1, <2>2 DEF Covered, NoTime
<1>2. CASE s.map # {} /\ t < FirstDue(s.map)
  <2>1. r = [s EXCEPT !.checkEvent = t]
    BY <1>2 DEF Schedule
  <2>2. r \in DecayStates /\ r.item = s.item /\ r.map = s.map /\ r.todo = s.todo
        /\ r.slips = s.slips /\ r.checkEvent = t
    BY <2>1 DEF DecayStates
  <2>3. s.map \in SUBSET DecayPairs
    BY DEF DecayStates
  <2>4. FirstDue(s.map) \in Nat /\ \A e \in s.map : FirstDue(s.map) <= e[1]
    BY <1>2, <2>3, FirstDueLeast
  <2>5. \A e \in s.map : t <= e[1]
    BY <1>2, <2>3, <2>4 DEF DecayPairs
  <2>6. QED
    BY <2>2, <2>5 DEF Covered, NoTime
<1>3. CASE s.map # {} /\ ~(t < FirstDue(s.map))
  <2>1. r = s
    BY <1>3 DEF Schedule
  <2>2. s.map \in SUBSET DecayPairs /\ s.orphans \subseteq Nat /\ s.checkEvent \in Nat
    BY DEF DecayStates
  <2>3. FirstDue(s.map) \in Nat /\ \E e \in s.map : e[1] = FirstDue(s.map)
    BY <1>3, <2>2, FirstDueLeast
  <2>4. PICK u \in (s.orphans \cup {s.checkEvent, check.it}) \ {NoTime} : u <= FirstDue(s.map)
    BY <2>3 DEF Covered
  <2>5. u <= t
    BY <1>3, <2>2, <2>3, <2>4
  <2>6. QED
    BY <2>1, <2>4, <2>5
<1>4. QED
  BY <1>1, <1>2, <1>3

\* An item that starts to decay is listed once, under its stamp.
LEMMA StartEffect ==
  ASSUME NEW s \in DecayStates, Covered(s), NEW i \in Things, time \in Nat, check.it \in Nat,
         \A k \in Things : k # i => ItemOK(s, k),
         Marked(s, i), CanDecay(s, i), s.item[i].duration \in Nat \ {0},
         NEW r, r = StartTimed(s, i)
  PROVE  Becoming(s, r)
<1> DEFINE t == time + s.item[i].duration
           s1 == IF s.item[i].stamp # NoTime THEN StopDecay(s, i) ELSE s
           s2 == Schedule(s1, t)
           new == IF \E e \in s.todo : e[2] = i THEN s2.slips \cup {"renewed"} ELSE s2.slips
<1>1. t \in Nat \ {0}
  OBVIOUS
<1>2. /\ s1 \in DecayStates /\ s.slips \subseteq s1.slips /\ s1.todo = s.todo
      /\ s1.map = {e \in s.map : e[2] # i} /\ Covered(s1)
      /\ s1.item[i].parent = s.item[i].parent /\ s1.item[i].decays = s.item[i].decays
      /\ \A k \in Things : k # i => s1.item[k] = s.item[k]
  <2>1. CASE s.item[i].stamp # NoTime
    <3>1. StoppedIn(s, {i}, s1)
      BY <2>1, StopEffect
    <3> HIDE DEF s1
    <3>2. QED
      BY <3>1 DEF StoppedIn, Covered
  <2>2. CASE s.item[i].stamp = NoTime
    <3>1. Entries(s, i) = {}
      BY <2>2 DEF Marked
    <3>2. s.map = {e \in s.map : e[2] # i}
      BY <3>1 DEF Entries
    <3>3. QED
      BY <2>2, <3>2
  <2>3. QED
    BY <2>1, <2>2
<1> HIDE DEF t, s1
<1>3. /\ s2 \in DecayStates /\ s2.item = s1.item /\ s2.map = s1.map /\ s2.todo = s1.todo
      /\ s2.slips = s1.slips /\ Covered(s2)
      /\ \E u \in (s2.orphans \cup {s2.checkEvent, check.it}) \ {NoTime} : u <= t
  BY <1>1, <1>2, ScheduleEffect
<1>4. r = [s2 EXCEPT !.item[i].state = "decaying", !.item[i].stamp = t,
                     !.map = @ \cup {<<t, i>>}, !.slips = new]
  BY DEF StartTimed, t, s1
<1>5. new \in SUBSET {"dangling", "renewed"} /\ s.slips \subseteq new
      /\ (new = {} => ~Copied(s, i))
  BY <1>2, <1>3 DEF DecayStates, Copied
<1> HIDE DEF s2, new
<1> DEFINE y == [s2.item[i] EXCEPT !.state = "decaying", !.stamp = t]
<1>6. s2.item[i] \in DecayItems
  BY <1>3 DEF DecayStates
<1>7. y \in DecayItems /\ y.state = "decaying" /\ y.stamp = t /\ y.parent = s2.item[i].parent
      /\ y.decays = s2.item[i].decays
  BY <1>1, <1>6 DEF DecayItems, States
<1>8. /\ r.item = [s2.item EXCEPT ![i] = y] /\ r.map = s2.map \cup {<<t, i>>}
      /\ r.slips = new /\ r.checkEvent = s2.checkEvent /\ r.orphans = s2.orphans
      /\ r.todo = s2.todo
  <2> DEFINE y1 == [s2.item[i] EXCEPT !.state = "decaying"]
             i1 == [s2.item EXCEPT ![i] = y1]
             i2 == [i1 EXCEPT ![i] = [i1[i] EXCEPT !.stamp = t]]
  <2>1. r = [s2 EXCEPT !.item = i2, !.map = @ \cup {<<t, i>>}, !.slips = new]
    BY <1>4
  <2>2. i1[i] = y1 /\ y = [y1 EXCEPT !.stamp = t]
    BY <1>3 DEF DecayStates
  <2>3. i2 = [s2.item EXCEPT ![i] = y]
    BY <1>3, <2>2 DEF DecayStates
  <2> HIDE DEF i2, y
  <2>4. QED
    BY <1>3, <2>1, <2>3 DEF DecayStates
<1> HIDE DEF y
<1>9. r \in DecayStates
  <2>1. r = [item |-> r.item, map |-> r.map, checkEvent |-> r.checkEvent,
             orphans |-> r.orphans, todo |-> r.todo, slips |-> r.slips]
    BY <1>3, <1>4 DEF DecayStates
  <2>2. r.item \in [Things -> DecayItems]
    BY <1>3, <1>7, <1>8 DEF DecayStates
  <2>3. r.map \in SUBSET DecayPairs
    BY <1>1, <1>3, <1>8 DEF DecayStates, DecayPairs
  <2>4. QED
    BY <2>1, <2>2, <2>3, <1>3, <1>5, <1>8 DEF DecayStates
<1>10. Covered(r)
  BY <1>3, <1>8 DEF Covered
<1>11. \A k \in Things : k # i => r.item[k] = s.item[k]
  BY <1>2, <1>3, <1>8 DEF DecayStates
<1>12. r.item[i] = y
  BY <1>3, <1>8 DEF DecayStates
<1>13. \A k \in Things : r.item[k].parent = s.item[k].parent
  BY <1>2, <1>3, <1>7, <1>11, <1>12
<1>14. \A k \in Things : IsRemoved(r, k) <=> IsRemoved(s, k)
  BY <1>9, <1>13, SameWorld
<1>15. ASSUME NEW k \in Things, k # i PROVE ItemOK(r, k)
  <2>1. Entries(r, k) = Entries(s, k) /\ (Copied(r, k) <=> Copied(s, k)) /\ ItemOK(s, k)
    BY <1>15, <1>2, <1>3, <1>8 DEF Entries, Copied
  <2>2. QED
    BY <1>11, <1>14, <1>15, <2>1 DEF ItemOK, Resting, Decaying, CanDecay
<1>16. ASSUME r.slips = {} PROVE ItemOK(r, i)
  <2>1. Entries(r, i) = {<<t, i>>}
    BY <1>2, <1>3, <1>8 DEF Entries
  <2>2. t # NoTime
    BY <1>1 DEF NoTime
  <2>3. CanDecay(r, i)
    BY <1>2, <1>3, <1>7, <1>12, <1>14 DEF CanDecay
  <2>4. ~Copied(r, i)
    BY <1>2, <1>3, <1>5, <1>8, <1>16 DEF Copied
  <2>5. QED
    BY <1>7, <1>12, <2>1, <2>2, <2>3, <2>4 DEF ItemOK, Decaying
<1>17. QED
  BY <1>2, <1>3, <1>5, <1>8, <1>9, <1>10, <1>15, <1>16 DEF Becoming, DecayOK

\* internalRemoveItem() stops what it takes out of the world.
LEMMA RemovedOK ==
  ASSUME NEW s, DecayOK(s), NEW i \in Things, time \in Nat, NEW r, r = Removed(s, i)
  PROVE  Becoming(s, r)
<1> DEFINE y == [s.item[i] EXCEPT !.parent = Gone]
           s0 == [s EXCEPT !.item[i].parent = Gone]
<1>1. s \in DecayStates /\ s.item[i] \in DecayItems
  BY DEF DecayOK, DecayStates
<1>2. y \in DecayItems /\ y.parent = Gone /\ y.state = s.item[i].state /\ y.stamp = s.item[i].stamp
  BY <1>1 DEF DecayItems
<1>3. /\ s0.item = [s.item EXCEPT ![i] = y] /\ s0.map = s.map /\ s0.slips = s.slips
      /\ s0.checkEvent = s.checkEvent /\ s0.orphans = s.orphans /\ s0.todo = s.todo
  BY <1>1 DEF DecayStates
<1>4. s0 \in DecayStates
  BY <1>1, <1>2 DEF DecayStates
<1>5. r = StopDecaying(s0, i)
  BY DEF Removed
<1> HIDE DEF s0, y
<1>6. s0.item[i] = y /\ \A k \in Things : k # i => s0.item[k] = s.item[k]
  BY <1>1, <1>3 DEF DecayStates
<1>7. \A k \in Things : /\ Entries(s0, k) = Entries(s, k) /\ (Copied(s0, k) <=> Copied(s, k))
                        /\ s0.item[k].state = s.item[k].state /\ s0.item[k].stamp = s.item[k].stamp
  BY <1>2, <1>3, <1>6 DEF Entries, Copied
<1>8. \A k \in Things : Marked(s0, k) /\ Settles(s0, k)
  <2>1. \A k \in Things : Marked(s, k) /\ Settles(s, k)
    BY ItemMarked DEF DecayOK
  <2>2. QED
    BY <1>7, <2>1 DEF Marked, Settles, Resting
<1>9. StoppedIn(s0, Inside(s0, i), r)
  <2>1. \A k \in Inside(s0, i) : Marked(s0, k)
    BY <1>8 DEF Inside
  <2>2. QED
    BY <1>4, <1>5, <2>1, StopAllEffect
<1>10. ASSUME NEW k \in Things, k \notin Inside(s0, i) PROVE ItemOK(s0, k)
  <2>1. k # i /\ s0.item[k] = s.item[k] /\ s.item[k].parent # i
    BY <1>6, <1>10 DEF Inside
  <2>2. IsRemoved(s0, k) <=> IsRemoved(s, k)
    BY <2>1, <1>6, DecayAssumption DEF IsRemoved
  <2>3. ItemOK(s, k)
    BY DEF DecayOK
  <2>4. QED
    BY <1>7, <2>1, <2>2, <2>3 DEF ItemOK, Resting, Decaying, CanDecay
<1>11. Covered(s0)
  BY <1>3 DEF Covered, DecayOK
<1>12. Inside(s0, i) \in SUBSET Things
  BY DEF Inside
<1>13. DecayOK(r)
  <2>1. \A k \in Things : IF k \in Inside(s0, i) THEN Marked(s0, k) /\ Settles(s0, k) ELSE ItemOK(s0, k)
    BY <1>8, <1>10
  <2>2. QED
    BY <2>1, <1>4, <1>9, <1>11, <1>12, StoppedOK
<1>14. QED
  BY <1>3, <1>9, <1>13 DEF Becoming, StoppedIn

\* r is s with y for the item i.
Changed(s, i, y, r) == r = [s EXCEPT !.item[i] = y]

\* A change of one item that leaves it where it is disturbs no other.
LEMMA ItemChanged ==
  ASSUME NEW s, DecayOK(s), NEW i \in Things, NEW y \in DecayItems,
         y.parent = s.item[i].parent, NEW r, Changed(s, i, y, r)
  PROVE  /\ r \in DecayStates /\ Covered(r) /\ r.item[i] = y
         /\ r.slips = s.slips /\ r.todo = s.todo
         /\ \A k \in Things : /\ Entries(r, k) = Entries(s, k) /\ (Copied(r, k) <=> Copied(s, k))
                              /\ IsRemoved(r, k) <=> IsRemoved(s, k)
                              /\ k # i => ItemOK(r, k)
<1>1. s \in DecayStates
  BY DEF DecayOK
<1>2. /\ r.item = [s.item EXCEPT ![i] = y] /\ r.map = s.map /\ r.slips = s.slips
      /\ r.checkEvent = s.checkEvent /\ r.orphans = s.orphans /\ r.todo = s.todo
  BY <1>1 DEF DecayStates, Changed
<1>3. r \in DecayStates
  BY <1>1 DEF DecayStates, Changed
<1>4. r.item[i] = y /\ \A k \in Things : k # i => r.item[k] = s.item[k]
  BY <1>1, <1>2 DEF DecayStates
<1>5. \A k \in Things : IsRemoved(r, k) <=> IsRemoved(s, k)
  BY <1>1, <1>3, <1>4, SameWorld
<1>6. Covered(r)
  BY <1>2 DEF Covered, DecayOK
<1>7. \A k \in Things : Entries(r, k) = Entries(s, k) /\ (Copied(r, k) <=> Copied(s, k))
  BY <1>2 DEF Entries, Copied
<1>8. \A k \in Things : k # i => ItemOK(r, k)
  BY <1>4, <1>5, <1>7 DEF DecayOK, ItemOK, Resting, Decaying, CanDecay
<1>9. QED
  BY <1>2, <1>3, <1>4, <1>5, <1>6, <1>7, <1>8

\* setID() leaves the state in order.
LEMMA TransformedOK ==
  ASSUME NEW s, DecayOK(s), NEW i \in Things, ~IsRemoved(s, i), time \in Nat, check.it \in Nat,
         NEW d \in SomeDuration, NEW r, r = Transformed(s, i, d)
  PROVE  Becoming(s, r)
<1> DEFINE x == s.item[i]
<1>1. s \in DecayStates /\ x \in DecayItems /\ Marked(s, i) /\ Settles(s, i)
  BY ItemMarked DEF DecayOK, DecayStates
<1>2. CASE d # NoDuration
  <2> DEFINE y == [x EXCEPT !.state = "pending", !.duration = d, !.decays = TRUE]
             s0 == [s EXCEPT !.item[i] = y]
  <2>1. d \in Nat \ {0}
    BY <1>2, DecayAssumption DEF SomeDuration
  <2>2. r = StartTimed(s0, i)
    <3>1. s0 = [s EXCEPT !.item[i].state = "pending", !.item[i].duration = d, !.item[i].decays = TRUE]
      BY <1>1 DEF DecayStates, DecayItems
    <3>2. QED
      BY <1>2, <3>1 DEF Transformed
  <2>3. y \in DecayItems /\ y.parent = x.parent /\ y.stamp = x.stamp /\ y.state = "pending"
        /\ y.duration = d /\ y.decays
    BY <1>1, <2>1 DEF DecayItems, States
  <2> HIDE DEF y
  <2>4. /\ s0 \in DecayStates /\ Covered(s0) /\ s0.item[i] = y
        /\ s0.slips = s.slips /\ s0.todo = s.todo
        /\ \A k \in Things : /\ Entries(s0, k) = Entries(s, k) /\ (Copied(s0, k) <=> Copied(s, k))
                             /\ IsRemoved(s0, k) <=> IsRemoved(s, k)
                             /\ k # i => ItemOK(s0, k)
    <3>1. Changed(s, i, y, s0)
      BY DEF Changed
    <3> HIDE DEF s0
    <3>2. QED
      BY <2>3, <3>1, ItemChanged
  <2> HIDE DEF s0
  <2>5. Marked(s0, i) /\ CanDecay(s0, i)
    BY <1>1, <2>3, <2>4 DEF Marked, CanDecay
  <2>6. s0.item[i].duration \in Nat \ {0}
    BY <2>1, <2>3, <2>4
  <2>7. Becoming(s0, r)
    BY <2>2, <2>4, <2>5, <2>6, StartEffect
  <2>8. QED
    BY <2>4, <2>7 DEF Becoming
<1>3. CASE d = NoDuration
  <2> DEFINE st == IF x.state = "idle" THEN x.state ELSE "stopping"
             y == [x EXCEPT !.state = st, !.duration = NoDuration, !.decays = FALSE]
             s0 == [s EXCEPT !.item[i] = y]
  <2>1. r = StopDecay(s0, i)
    <3>1. s0 = [s EXCEPT !.item[i].state = st, !.item[i].duration = NoDuration, !.item[i].decays = FALSE]
      BY <1>1 DEF DecayStates, DecayItems
    <3>2. s0 = [s EXCEPT !.item[i].state = IF @ = "idle" THEN @ ELSE "stopping",
                         !.item[i].duration = NoDuration, !.item[i].decays = FALSE]
      BY <3>1
    <3>3. QED
      BY <1>3, <3>2 DEF Transformed
  <2>2. st \in {"idle", "stopping"} /\ (st = "idle" => x.state = "idle")
    OBVIOUS
  <2> HIDE DEF st
  <2>3. y \in DecayItems /\ y.parent = x.parent /\ y.stamp = x.stamp /\ y.state = st
    BY <1>1, <2>2 DEF DecayItems, States
  <2> HIDE DEF y
  <2>4. /\ s0 \in DecayStates /\ Covered(s0) /\ s0.item[i] = y
        /\ s0.slips = s.slips /\ s0.todo = s.todo
        /\ \A k \in Things : /\ Entries(s0, k) = Entries(s, k) /\ (Copied(s0, k) <=> Copied(s, k))
                             /\ IsRemoved(s0, k) <=> IsRemoved(s, k)
                             /\ k # i => ItemOK(s0, k)
    <3>1. Changed(s, i, y, s0)
      BY DEF Changed
    <3> HIDE DEF s0
    <3>2. QED
      BY <2>3, <3>1, ItemChanged
  <2> HIDE DEF s0
  <2>5. Marked(s0, i)
    BY <1>1, <2>2, <2>3, <2>4 DEF Marked
  <2>6. Settles(s0, i)
    BY <1>1, <2>2, <2>3, <2>4 DEF Settles, Resting
  <2>7. StoppedIn(s0, {i}, r)
    BY <2>1, <2>4, <2>5, StopEffect
  <2>8. \A k \in Things : IF k \in {i} THEN Marked(s0, k) /\ Settles(s0, k) ELSE ItemOK(s0, k)
    BY <2>4, <2>5, <2>6
  <2>9. DecayOK(r)
    BY <2>4, <2>7, <2>8, StoppedOK
  <2>10. QED
    BY <2>4, <2>7, <2>9 DEF Becoming, StoppedIn
<1>4. QED
  BY <1>2, <1>3

\* Item::transform() to another object leaves the state in order.
LEMMA ReplacedOK ==
  ASSUME NEW s, DecayOK(s), NEW i \in Things, ~IsRemoved(s, i), time \in Nat, check.it \in Nat,
         NEW j \in Things, Unused(s, j), NEW d \in SomeDuration, NEW r, r = Replaced(s, i, j, d)
  PROVE  Becoming(s, r)
<1> DEFINE x == s.item[i]
           left == GetDuration(x)
           new == [parent |-> x.parent, state |-> "idle", stamp |-> NoTime,
                   duration |-> IF left > 0 THEN left ELSE d, decays |-> d # NoDuration]
           y == [x EXCEPT !.parent = Gone]
           s0 == [s EXCEPT !.item[i].parent = Gone, !.item[j] = new]
           s1 == StopDecaying(s0, i)
<1>1. s \in DecayStates /\ x \in DecayItems
  BY DEF DecayOK, DecayStates
<1>2. left \in {NoDuration} \cup Nat /\ d \in {NoDuration} \cup Nat /\ (d # NoDuration => d > 0)
  <2>1. left \in {NoDuration} \cup Nat
    BY <1>1, DurationType
  <2>2. d \in Durations \/ d = NoDuration
    BY DEF SomeDuration
  <2>3. d \in Durations => d \in Nat /\ d > 0
    BY DecayAssumption
  <2>4. QED
    BY <2>1, <2>2, <2>3
<1>3. new \in DecayItems /\ new.state = "idle" /\ new.stamp = NoTime
      /\ (new.decays => new.duration \in Nat \ {0})
  <2> DEFINE dur == IF left > 0 THEN left ELSE d
  <2>1. dur \in {NoDuration} \cup Nat /\ (d # NoDuration => dur \in Nat \ {0})
    BY <1>2 DEF NoDuration
  <2> HIDE DEF dur
  <2>2. new = [parent |-> x.parent, state |-> "idle", stamp |-> NoTime,
               duration |-> dur, decays |-> d # NoDuration]
    BY DEF dur
  <2>3. new \in DecayItems
    <3>1. (d # NoDuration) \in BOOLEAN
      OBVIOUS
    <3>2. QED
      BY <1>1, <2>1, <2>2, <3>1 DEF DecayItems, States, NoTime
  <2>4. QED
    BY <2>1, <2>2, <2>3
<1>4. y \in DecayItems /\ y.parent = Gone /\ y.state = x.state /\ y.stamp = x.stamp
  BY <1>1 DEF DecayItems
<1>5. i # j
  BY DEF Unused
<1>6. r = IF CanDecay(s1, j) THEN StartTimed(s1, j) ELSE s1
  BY DEF Replaced
<1> HIDE DEF new
<1>7. /\ s0.item = [[s.item EXCEPT ![i] = y] EXCEPT ![j] = new] /\ s0.map = s.map
      /\ s0.slips = s.slips /\ s0.checkEvent = s.checkEvent /\ s0.orphans = s.orphans
      /\ s0.todo = s.todo
  BY <1>1 DEF DecayStates
<1> HIDE DEF y
<1>8. s0 \in DecayStates
  <2>1. s0.item \in [Things -> DecayItems]
    BY <1>1, <1>3, <1>4, <1>7 DEF DecayStates
  <2>2. s0 = [item |-> s0.item, map |-> s0.map, checkEvent |-> s0.checkEvent,
              orphans |-> s0.orphans, todo |-> s0.todo, slips |-> s0.slips]
    <3> DEFINE its == [s.item EXCEPT ![i].parent = Gone, ![j] = new]
    <3>1. s0 = [s EXCEPT !.item = its]
      OBVIOUS
    <3> HIDE DEF its, s0
    <3>2. QED
      BY <1>1, <3>1 DEF DecayStates
  <2> HIDE DEF s0
  <2>3. QED
    BY <1>1, <1>7, <2>1, <2>2 DEF DecayStates
<1> HIDE DEF s0
<1>9. /\ s0.item[i] = y /\ s0.item[j] = new
      /\ \A k \in Things : k # i /\ k # j => s0.item[k] = s.item[k]
  BY <1>1, <1>5, <1>7 DEF DecayStates
<1>10. \A k \in Things : Entries(s0, k) = Entries(s, k) /\ (Copied(s0, k) <=> Copied(s, k))
  BY <1>7 DEF Entries, Copied
<1>11. \A k \in Things : Marked(s, k) /\ Settles(s, k)
  BY ItemMarked DEF DecayOK
<1>12. Entries(s, j) = {} /\ \A k \in Things : s.item[k].parent # j
  BY DEF Unused, Entries
<1>13. Resting(s0, j) /\ Marked(s0, j)
  BY <1>3, <1>9, <1>10, <1>12 DEF Resting, Marked
<1>14. \A k \in Things : Marked(s0, k) /\ Settles(s0, k)
  <2>1. ASSUME NEW k \in Things, k # j PROVE Marked(s0, k) /\ Settles(s0, k)
    <3>1. s0.item[k].state = s.item[k].state /\ s0.item[k].stamp = s.item[k].stamp
      BY <1>4, <1>9, <2>1
    <3>2. QED
      BY <1>10, <1>11, <3>1 DEF Marked, Settles, Resting
  <2>2. QED
    BY <1>13, <2>1 DEF Settles
<1>15. StoppedIn(s0, Inside(s0, i), s1)
  <2>1. \A k \in Inside(s0, i) : Marked(s0, k)
    BY <1>14 DEF Inside
  <2>2. QED
    BY <1>8, <2>1, StopAllEffect
<1>16. ASSUME NEW k \in Things, k \notin Inside(s0, i) PROVE ItemOK(s0, k)
  <2>1. CASE k = j
    BY <1>13, <2>1 DEF ItemOK
  <2>2. CASE k # j
    <3>1. k # i /\ s0.item[k] = s.item[k] /\ s.item[k].parent # i /\ s.item[k].parent # j
      BY <1>9, <1>12, <1>16, <2>2 DEF Inside
    <3>2. IsRemoved(s0, k) <=> IsRemoved(s, k)
      BY <3>1, <1>9, DecayAssumption DEF IsRemoved
    <3>3. ItemOK(s, k)
      BY DEF DecayOK
    <3>4. QED
      BY <1>10, <3>1, <3>2, <3>3 DEF ItemOK, Resting, Decaying, CanDecay
  <2>3. QED
    BY <2>1, <2>2
<1>17. Covered(s0)
  BY <1>7 DEF Covered, DecayOK
<1>18. DecayOK(s1)
  <2>1. \A k \in Things : IF k \in Inside(s0, i) THEN Marked(s0, k) /\ Settles(s0, k) ELSE ItemOK(s0, k)
    BY <1>14, <1>16
  <2>2. Inside(s0, i) \in SUBSET Things
    BY DEF Inside
  <2>3. QED
    BY <2>1, <2>2, <1>8, <1>15, <1>17, StoppedOK
<1> HIDE DEF s1
<1>19. s.slips \subseteq s1.slips /\ s1.todo = s.todo
  BY <1>7, <1>15 DEF StoppedIn
<1>20. CASE CanDecay(s1, j)
  <2>1. s1.item[j].decays = new.decays
    BY <1>9, <1>15 DEF StoppedIn
  <2>2. s1.item[j].duration = new.duration
    BY <1>3, <1>9, <1>15 DEF StoppedIn, GetDuration
  <2>3. s1.item[j].duration \in Nat \ {0}
    BY <1>3, <1>20, <2>1, <2>2 DEF CanDecay
  <2>4. s1 \in DecayStates /\ Covered(s1) /\ \A k \in Things : ItemOK(s1, k)
    BY <1>18 DEF DecayOK
  <2>5. Marked(s1, j)
    BY <2>4, ItemMarked
  <2>6. Becoming(s1, r)
    BY <1>6, <1>20, <2>3, <2>4, <2>5, StartEffect
  <2>7. QED
    BY <1>19, <2>6 DEF Becoming
<1>21. CASE ~CanDecay(s1, j)
  BY <1>6, <1>18, <1>19, <1>21 DEF Becoming, DecayOK
<1>22. QED
  BY <1>20, <1>21

\* internalDecayItem() leaves the state in order, whatever the item becomes.
LEMMA DecayItemOK ==
  ASSUME NEW s, DecayOK(s), NEW i \in Things, ~IsRemoved(s, i), time \in Nat, check.it \in Nat,
         NEW r \in DecayItem(s, i)
  PROVE  Becoming(s, r)
<1>1. \/ r = s
      \/ r = Removed(s, i)
      \/ \E d \in SomeDuration : r = Transformed(s, i, d)
      \/ \E j \in Things, d \in SomeDuration : Unused(s, j) /\ r = Replaced(s, i, j, d)
  BY DEF DecayItem
<1>2. CASE r = s
  BY <1>2 DEF Becoming, DecayOK
<1>3. CASE r = Removed(s, i)
  BY <1>3, RemovedOK
<1>4. ASSUME NEW d \in SomeDuration, r = Transformed(s, i, d) PROVE Becoming(s, r)
  BY <1>4, TransformedOK
<1>5. ASSUME NEW j \in Things, NEW d \in SomeDuration, Unused(s, j), r = Replaced(s, i, j, d)
      PROVE  Becoming(s, r)
  BY <1>5, ReplacedOK
<1>6. QED
  BY <1>1, <1>2, <1>3, <1>4, <1>5

\* startDecay() leaves the state in order.
LEMMA StartDecayOK ==
  ASSUME NEW s, DecayOK(s), NEW i \in Things, ~IsRemoved(s, i), time \in Nat, check.it \in Nat,
         NEW r \in StartDecay(s, i)
  PROVE  Becoming(s, r)
<1>1. s \in DecayStates /\ Covered(s) /\ \A k \in Things : ItemOK(s, k)
  BY DEF DecayOK
<1>2. \A k \in Things : Marked(s, k) /\ Settles(s, k)
  BY <1>1, ItemMarked
<1>3. s.item[i] \in DecayItems
  BY <1>1 DEF DecayStates
<1>4. \/ r = s
      \/ r = StopDecay(s, i)
      \/ r \in DecayItem(s, i)
      \/ CanDecay(s, i) /\ s.item[i].duration > 0 /\ r = StartTimed(s, i)
  BY DEF StartDecay
<1>5. CASE r = s
  BY <1>5 DEF Becoming, DecayOK
<1>6. CASE r = StopDecay(s, i)
  <2>1. StoppedIn(s, {i}, r)
    BY <1>1, <1>2, <1>6, StopEffect
  <2>2. DecayOK(r)
    <3>1. \A k \in Things : IF k \in {i} THEN Marked(s, k) /\ Settles(s, k) ELSE ItemOK(s, k)
      BY <1>1, <1>2
    <3>2. QED
      BY <1>1, <2>1, <3>1, StoppedOK
  <2>3. QED
    BY <2>1, <2>2 DEF Becoming, StoppedIn
<1>7. CASE r \in DecayItem(s, i)
  BY <1>7, DecayItemOK
<1>8. CASE CanDecay(s, i) /\ s.item[i].duration > 0 /\ r = StartTimed(s, i)
  <2>1. s.item[i].duration \in Nat \ {0}
    BY <1>3, <1>8 DEF DecayItems, NoDuration
  <2>2. QED
    BY <1>1, <1>2, <1>8, <2>1, StartEffect
<1>9. QED
  BY <1>4, <1>5, <1>6, <1>7, <1>8

\* The variables taken from a state in order satisfy the invariant: objects that
\* nobody refers to are freed.
LEMMA BecomesInv ==
  ASSUME DecayInv, NEW r \in DecayStates, r.slips = {} => DecayOK(r),
         r.todo \subseteq check.todo, DecayBecomes(r), time' = time
  PROVE  DecayInv'
<1>1. /\ item' = [i \in Things |-> IF Unused(r, i) THEN Missing ELSE r.item[i]]
      /\ decayMap' = r.map /\ checkEvent' = r.checkEvent /\ orphans' = r.orphans
      /\ slips' = r.slips
      /\ check' = [check EXCEPT !.todo = r.todo]
  BY DEF DecayBecomes
<1>2. check.it' = check.it /\ check.todo' = r.todo /\ check.on' = check.on
      /\ check' = [on |-> check'.on, todo |-> check'.todo, it |-> check'.it]
  BY <1>1 DEF DecayInv
<1>3. Missing \in DecayItems /\ Missing.state = "idle" /\ Missing.stamp = NoTime /\ Missing.parent = Gone
  BY DEF Missing, DecayItems, States, NoTime, NoDuration
<1>4. item' \in [Things -> DecayItems]
  BY <1>1, <1>3 DEF DecayStates
<1>5. PICK q : q = DecayState'
  OBVIOUS
<1>6. q = [item |-> item', map |-> r.map, checkEvent |-> r.checkEvent, orphans |-> r.orphans,
           todo |-> r.todo, slips |-> r.slips]
  BY <1>1, <1>2, <1>5 DEF DecayState
<1>7. q \in DecayStates
  BY <1>4, <1>6 DEF DecayStates
<1>8. /\ q.item = item' /\ q.map = r.map /\ q.checkEvent = r.checkEvent /\ q.orphans = r.orphans
      /\ q.todo = r.todo /\ q.slips = r.slips
  BY <1>6
<1>9. ASSUME slips' = {}
      PROVE  DecayOK(DecayState)'
  <2>1. DecayOK(r)
    BY <1>1, <1>9
  <2>2. Covered(q)
    BY <1>8, <2>1 DEF Covered, DecayOK
  <2>3. ASSUME NEW k \in Things PROVE ItemOK(q, k)
    <3>1. Entries(q, k) = Entries(r, k) /\ (Copied(q, k) <=> Copied(r, k)) /\ ItemOK(r, k)
      BY <1>8, <2>1 DEF Entries, Copied, DecayOK
    <3>2. CASE Unused(r, k)
      <4>1. Entries(r, k) = {}
        BY <3>2 DEF Unused, Entries
      <4>2. q.item[k] = Missing
        BY <1>1, <1>8, <3>2
      <4>3. QED
        BY <1>3, <3>1, <4>1, <4>2 DEF ItemOK, Resting
    <3>3. CASE ~Unused(r, k)
      <4>1. q.item[k] = r.item[k]
        BY <1>1, <1>8, <3>3
      <4>2. r.item[k].parent \in Boxes =>
              q.item[r.item[k].parent] = r.item[r.item[k].parent]
        BY <1>1, <1>8, DecayAssumption DEF Unused
      <4>3. IsRemoved(q, k) <=> IsRemoved(r, k)
        BY <4>1, <4>2 DEF IsRemoved
      <4>4. QED
        BY <3>1, <4>1, <4>3 DEF ItemOK, Resting, Decaying, CanDecay
    <3>4. QED
      BY <3>2, <3>3
  <2>4. q \in DecayStates /\ Covered(q) /\ \A k \in Things : ItemOK(q, k)
    BY <1>7, <2>2, <2>3
  <2>5. (DecayState \in DecayStates)'
    BY <1>5, <1>7
  <2>6. Covered(DecayState)'
    BY <1>2, <1>5, <2>4 DEF Covered
  <2>7. (\A k \in Things : ItemOK(DecayState, k))'
    BY <1>5, <2>4
  <2>8. QED
    BY <2>5, <2>6, <2>7 DEF DecayOK
<1>10. (DecayState \in DecayStates)'
  BY <1>5, <1>7
<1>11. \A e \in check.todo' : e[1] <= time'
  BY <1>2 DEF DecayInv
<1>12. QED
  BY <1>2, <1>9, <1>10, <1>11 DEF DecayInv

\* At start nothing decays.
LEMMA DecayInitInv == DecayInit => DecayInv
<1> SUFFICES ASSUME DecayInit PROVE DecayInv
  OBVIOUS
<1>1. Missing \in DecayItems /\ Missing.state = "idle" /\ Missing.stamp = NoTime
  BY DEF Missing, DecayItems, States, NoTime, NoDuration
<1>2. check = NoCheck /\ check.it = NoTime /\ check.todo = {} /\ check.on = FALSE
  BY DEF DecayInit, NoCheck
<1>3. DecayState = [item |-> [i \in Things |-> Missing], map |-> {}, checkEvent |-> NoTime,
                    orphans |-> {}, todo |-> {}, slips |-> {}]
  BY <1>2 DEF DecayInit, DecayState
<1>4. DecayState \in DecayStates
  BY <1>1, <1>3 DEF DecayStates, NoTime
<1>5. DecayOK(DecayState)
  <2>1. Covered(DecayState)
    BY <1>3 DEF Covered
  <2>2. \A i \in Things : ItemOK(DecayState, i)
    BY <1>1, <1>3 DEF ItemOK, Resting, Entries
  <2>3. QED
    BY <1>4, <2>1, <2>2 DEF DecayOK
<1>6. QED
  BY <1>2, <1>4, <1>5 DEF DecayInv, DecayInit, NoCheck, NoTime

\* The variables make up a state.
LEMMA StateNow ==
  ASSUME DecayInv, slips = {}
  PROVE  /\ DecayOK(DecayState) /\ DecayState.todo = check.todo /\ DecayState.slips = {}
         /\ DecayState.item = item /\ DecayState.map = decayMap
         /\ DecayState.checkEvent = checkEvent /\ DecayState.orphans = orphans
         /\ time \in Nat /\ check.it \in Nat
BY DEF DecayInv, DecayState

\* A new item starts to decay.
LEMMA CreateInv ==
  ASSUME DecayInv, slips = {}, NEW i \in Things, NEW p \in {Tile} \cup Boxes, NEW d \in Durations,
         CreateItem(i, p, d)
  PROVE  DecayInv'
<1> DEFINE new == [parent |-> p, state |-> "pending", stamp |-> NoTime, duration |-> d,
                   decays |-> TRUE]
<1>1. PICK s : s = DecayState
  OBVIOUS
<1>2. DecayOK(s) /\ s.todo = check.todo /\ s.slips = {} /\ s.item = item /\ time \in Nat
      /\ check.it \in Nat
  BY <1>1, StateNow
<1>3. PICK r : r = [s EXCEPT !.item[i] = new]
  OBVIOUS
<1>4. new \in DecayItems /\ new.parent = p /\ new.stamp = NoTime /\ new.duration \in Nat \ {0}
      /\ new.decays
  BY DecayAssumption DEF DecayItems, States, NoTime
<1>5. DecayBecomes(StartTimed(r, i)) /\ time' = time /\ Unused(s, i)
      /\ (p = Tile \/ (p \in Boxes /\ s.item[p].parent = Tile))
  BY <1>1, <1>2, <1>3 DEF CreateItem
<1> HIDE DEF new
<1>6. s \in DecayStates
  BY <1>2 DEF DecayOK
<1>7. /\ r \in DecayStates /\ r.item = [s.item EXCEPT ![i] = new] /\ r.map = s.map
      /\ r.checkEvent = s.checkEvent /\ r.orphans = s.orphans /\ r.todo = s.todo /\ r.slips = s.slips
  BY <1>3, <1>4, <1>6 DEF DecayStates
<1>8. r.item[i] = new /\ \A k \in Things : k # i => r.item[k] = s.item[k]
  BY <1>6, <1>7 DEF DecayStates
<1>9. Entries(s, i) = {} /\ IsRemoved(s, i) /\ \A k \in Things : s.item[k].parent # i
  BY <1>5 DEF Unused, Entries
<1>10. \A k \in Things : Entries(r, k) = Entries(s, k) /\ (Copied(r, k) <=> Copied(s, k))
  BY <1>7 DEF Entries, Copied
<1>11. ASSUME NEW k \in Things, k # i PROVE ItemOK(r, k)
  <2>1. IsRemoved(r, k) <=> IsRemoved(s, k)
    BY <1>8, <1>9, <1>11, DecayAssumption DEF IsRemoved
  <2>2. ItemOK(s, k)
    BY <1>2 DEF DecayOK
  <2>3. QED
    BY <1>8, <1>10, <1>11, <2>1, <2>2 DEF ItemOK, Resting, Decaying, CanDecay
<1>12. CanDecay(r, i)
  <2>1. p \in Boxes => p # i
    BY <1>5, <1>9, DecayAssumption DEF IsRemoved, Tile, Gone
  <2>2. p \in Boxes => r.item[p].parent = Tile
    BY <1>5, <1>8, <2>1, DecayAssumption DEF Tile
  <2>3. ~IsRemoved(r, i)
    BY <1>4, <1>8, <2>2, DecayAssumption DEF IsRemoved, Tile, Gone
  <2>4. QED
    BY <1>4, <1>8, <2>3 DEF CanDecay
<1>13. Covered(r) /\ Marked(r, i) /\ r.item[i].duration \in Nat \ {0}
  BY <1>2, <1>4, <1>7, <1>8, <1>9, <1>10 DEF Covered, Marked, DecayOK
<1>14. PICK z : z = StartTimed(r, i)
  OBVIOUS
<1>15. Becoming(r, z)
  BY <1>2, <1>7, <1>11, <1>12, <1>13, <1>14, StartEffect
<1>16. z \in DecayStates /\ (z.slips = {} => DecayOK(z)) /\ z.todo \subseteq check.todo
  BY <1>2, <1>7, <1>15 DEF Becoming
<1>17. QED
  BY <1>5, <1>14, <1>16, BecomesInv

\* Starts, stops, transformations and removals by the game keep the invariant.
LEMMA GameInv ==
  ASSUME DecayInv, slips = {}, NEW i \in Things,
         \/ StartItem(i) \/ StopItem(i) \/ RemoveItem(i)
         \/ \E d \in SomeDuration : TransformItem(i, d)
  PROVE  DecayInv'
<1>1. PICK s : s = DecayState
  OBVIOUS
<1>2. DecayOK(s) /\ s.todo = check.todo /\ time \in Nat /\ check.it \in Nat
  BY <1>1, StateNow
<1>3. time' = time /\ ~IsRemoved(s, i)
      /\ \E r : Becoming(s, r) /\ DecayBecomes(r)
  <2>1. CASE StartItem(i)
    <3>1. PICK r \in StartDecay(s, i) : DecayBecomes(r)
      BY <1>1, <2>1 DEF StartItem
    <3>2. ~IsRemoved(s, i) /\ time' = time
      BY <1>1, <2>1 DEF StartItem, InWorld
    <3>3. QED
      BY <1>2, <3>1, <3>2, StartDecayOK
  <2>2. CASE StopItem(i)
    <3>1. PICK r : r = StopDecaying(s, i)
      OBVIOUS
    <3>2. ~IsRemoved(s, i) /\ time' = time /\ DecayBecomes(r)
      BY <1>1, <2>2, <3>1 DEF StopItem, InWorld
    <3>3. s \in DecayStates /\ Covered(s) /\ \A k \in Things : ItemOK(s, k)
      BY <1>2 DEF DecayOK
    <3>4. \A k \in Things : Marked(s, k) /\ Settles(s, k)
      BY <3>3, ItemMarked
    <3>5. Inside(s, i) \in SUBSET Things
      BY DEF Inside
    <3>6. \A k \in Inside(s, i) : Marked(s, k)
      BY <3>4, <3>5
    <3>7. StoppedIn(s, Inside(s, i), r)
      BY <1>2, <3>1, <3>3, <3>6, StopAllEffect
    <3>8. \A k \in Things : IF k \in Inside(s, i) THEN Marked(s, k) /\ Settles(s, k) ELSE ItemOK(s, k)
      BY <3>3, <3>4
    <3>9. DecayOK(r)
      BY <3>3, <3>5, <3>7, <3>8, StoppedOK
    <3>10. Becoming(s, r)
      BY <3>7, <3>9 DEF Becoming, StoppedIn
    <3>11. QED
      BY <3>2, <3>10
  <2>3. CASE RemoveItem(i)
    <3>1. PICK r : r = Removed(s, i)
      OBVIOUS
    <3>2. ~IsRemoved(s, i) /\ time' = time /\ DecayBecomes(r)
      BY <1>1, <2>3, <3>1 DEF RemoveItem, InWorld
    <3>3. QED
      BY <1>2, <3>1, <3>2, RemovedOK
  <2>4. ASSUME NEW d \in SomeDuration, TransformItem(i, d)
        PROVE  /\ time' = time /\ ~IsRemoved(s, i)
               /\ \E r : Becoming(s, r) /\ DecayBecomes(r)
    <3>1. PICK r : r = Transformed(s, i, d)
      OBVIOUS
    <3>2. ~IsRemoved(s, i) /\ time' = time /\ DecayBecomes(r)
      BY <1>1, <2>4, <3>1 DEF TransformItem, InWorld
    <3>3. QED
      BY <1>2, <3>1, <3>2, TransformedOK
  <2>5. QED
    BY <2>1, <2>2, <2>3, <2>4
<1>4. PICK r : Becoming(s, r) /\ DecayBecomes(r)
  BY <1>3
<1>5. r \in DecayStates /\ (r.slips = {} => DecayOK(r)) /\ r.todo \subseteq check.todo
  BY <1>2, <1>4 DEF Becoming
<1>6. QED
  BY <1>3, <1>4, <1>5, BecomesInv

\* A script sets a duration: the item is stopped and started again.
LEMMA SetDurationInv ==
  ASSUME DecayInv, slips = {}, NEW i \in Things, NEW d \in Durations, SetDuration(i, d)
  PROVE  DecayInv'
<1>1. PICK s : s = DecayState
  OBVIOUS
<1>2. DecayOK(s) /\ s.todo = check.todo /\ time \in Nat /\ check.it \in Nat
  BY <1>1, StateNow
<1> DEFINE x == s.item[i]
           y == [x EXCEPT !.state = "pending", !.duration = d]
<1>3. s \in DecayStates /\ x \in DecayItems /\ Marked(s, i) /\ d \in Nat \ {0} /\ ItemOK(s, i)
  BY <1>2, ItemMarked, DecayAssumption DEF DecayOK, DecayStates
<1>4. y \in DecayItems /\ y.parent = x.parent /\ y.stamp = x.stamp /\ y.state = "pending"
      /\ y.duration = d /\ y.decays = x.decays
  BY <1>3 DEF DecayItems, States
<1>5. PICK s0 : s0 = [s EXCEPT !.item[i] = y]
  OBVIOUS
<1>6. ~IsRemoved(s, i) /\ time' = time /\ \E r \in StartDecay(s0, i) : DecayBecomes(r)
  <2>1. s0 = [s EXCEPT !.item[i].state = "pending", !.item[i].duration = d]
    BY <1>3, <1>5 DEF DecayStates, DecayItems
  <2>2. QED
    BY <1>1, <2>1 DEF SetDuration, InWorld
<1>7. Changed(s, i, y, s0)
  BY <1>5 DEF Changed
<1> HIDE DEF y
<1>8. /\ s0 \in DecayStates /\ Covered(s0) /\ s0.item[i] = y
      /\ s0.slips = s.slips /\ s0.todo = s.todo
      /\ \A k \in Things : /\ Entries(s0, k) = Entries(s, k) /\ (Copied(s0, k) <=> Copied(s, k))
                           /\ IsRemoved(s0, k) <=> IsRemoved(s, k)
                           /\ k # i => ItemOK(s0, k)
  BY <1>2, <1>4, <1>7, ItemChanged
<1>9. PICK r \in StartDecay(s0, i) : DecayBecomes(r)
  BY <1>6
<1>10. Becoming(s0, r)
  <2>1. CASE CanDecay(s0, i)
    <3>1. r = StartTimed(s0, i)
      BY <1>3, <1>4, <1>8, <1>9, <2>1 DEF StartDecay
    <3>2. Marked(s0, i) /\ s0.item[i].duration \in Nat \ {0}
      BY <1>3, <1>4, <1>8 DEF Marked
    <3>3. QED
      BY <1>2, <1>8, <2>1, <3>1, <3>2, StartEffect
  <2>2. CASE ~CanDecay(s0, i)
    <3>1. r = s0
      BY <1>4, <1>8, <1>9, <2>2 DEF StartDecay
    <3>2. ~CanDecay(s, i)
      BY <1>4, <1>6, <1>8, <2>2 DEF CanDecay
    <3>3. ItemOK(s0, i)
      BY <1>3, <1>4, <1>8, <3>2 DEF ItemOK, Resting, Decaying
    <3>4. QED
      BY <1>8, <3>1, <3>3 DEF Becoming, DecayOK
  <2>3. QED
    BY <2>1, <2>2
<1>11. r \in DecayStates /\ (r.slips = {} => DecayOK(r)) /\ r.todo \subseteq check.todo
  BY <1>2, <1>8, <1>10 DEF Becoming
<1>12. QED
  BY <1>6, <1>9, <1>11, BecomesInv

\* An entry of the copied vector is decayed, and may start to decay again.
LEMMA DecayNextInv ==
  ASSUME DecayInv, slips = {}, NEW e, DecayNext(e)
  PROVE  DecayInv'
<1>1. PICK s : s = DecayState
  OBVIOUS
<1>2. DecayOK(s) /\ s.todo = check.todo /\ time \in Nat /\ check.it \in Nat /\ s.item = item
  BY <1>1, StateNow
<1> DEFINE i == e[2]
           x == s.item[i]
<1>3. s \in DecayStates /\ e \in s.todo /\ i \in Things /\ time' = time
  BY <1>2 DEF DecayOK, DecayStates, DecayPairs, DecayNext
<1>4. PICK t : t = [s EXCEPT !.todo = @ \ {e}]
  OBVIOUS
<1>5. PICK dur \in {NoDuration} \cup Nat :
        LET y == [x EXCEPT !.state = "idle", !.stamp = NoTime, !.duration = dur]
            r == [t EXCEPT !.item[i] = y]
        IN  \/ ~IsRemoved(s, i) /\ \E q \in DecayItem(r, i) : DecayBecomes(q)
            \/ DecayBecomes(r)
  <2> DEFINE off == [x EXCEPT !.state = "idle", !.stamp = NoTime]
  <2>1. x \in DecayItems
    BY <1>3 DEF DecayStates
  <2>2. CASE CanDecay(s, i)
    <3>1. \E q \in DecayItem([t EXCEPT !.item[i] = off], i) : DecayBecomes(q)
      BY <1>1, <1>2, <1>4, <2>2 DEF DecayNext
    <3>2. off = [x EXCEPT !.state = "idle", !.stamp = NoTime, !.duration = x.duration]
      BY <2>1 DEF DecayItems
    <3>3. x.duration \in {NoDuration} \cup Nat /\ ~IsRemoved(s, i)
      BY <2>1, <2>2 DEF DecayItems, CanDecay
    <3>4. QED
      BY <3>1, <3>2, <3>3
  <2>3. CASE ~CanDecay(s, i)
    <3>1. DecayBecomes([t EXCEPT !.item[i] = [off EXCEPT !.duration = GetDuration(x)]])
      BY <1>1, <1>2, <1>4, <2>3 DEF DecayNext
    <3>2. [off EXCEPT !.duration = GetDuration(x)]
            = [x EXCEPT !.state = "idle", !.stamp = NoTime, !.duration = GetDuration(x)]
      BY <2>1 DEF DecayItems
    <3>3. GetDuration(x) \in {NoDuration} \cup Nat
      BY <1>2, <2>1, DurationType
    <3>4. QED
      BY <3>1, <3>2, <3>3
  <2>4. QED
    BY <2>2, <2>3
<1> DEFINE y == [x EXCEPT !.state = "idle", !.stamp = NoTime, !.duration = dur]
<1>6. PICK r : r = [t EXCEPT !.item[i] = y]
  OBVIOUS
<1>7. \/ ~IsRemoved(s, i) /\ \E q \in DecayItem(r, i) : DecayBecomes(q)
      \/ DecayBecomes(r)
  BY <1>5, <1>6
<1>8. y \in DecayItems /\ y.parent = x.parent /\ y.state = "idle" /\ y.stamp = NoTime
  <2>1. x \in DecayItems
    BY <1>3 DEF DecayStates
  <2> HIDE DEF x
  <2>2. QED
    BY <1>5, <2>1 DEF DecayItems, States, NoTime
<1> HIDE DEF y
<1>9. /\ r.item = [s.item EXCEPT ![i] = y] /\ r.map = s.map /\ r.slips = s.slips
      /\ r.checkEvent = s.checkEvent /\ r.orphans = s.orphans /\ r.todo = s.todo \ {e}
  BY <1>3, <1>4, <1>6 DEF DecayStates
<1>10. r \in DecayStates
  BY <1>3, <1>4, <1>6, <1>8 DEF DecayStates
<1>11. r.item[i] = y /\ \A k \in Things : k # i => r.item[k] = s.item[k]
  BY <1>3, <1>9 DEF DecayStates
<1>12. \A k \in Things : r.item[k].parent = s.item[k].parent
  BY <1>8, <1>11
<1>13. \A k \in Things : IsRemoved(r, k) <=> IsRemoved(s, k)
  BY <1>3, <1>10, <1>12, SameWorld
<1>14. \A k \in Things : Entries(r, k) = Entries(s, k) /\ (k # i => (Copied(r, k) <=> Copied(s, k)))
  BY <1>9 DEF Entries, Copied
<1>15. Entries(s, i) = {}
  <2>1. Copied(s, i) /\ ItemOK(s, i)
    BY <1>2, <1>3 DEF Copied, DecayOK
  <2>2. QED
    BY <2>1 DEF ItemOK, Resting, Decaying
<1>16. DecayOK(r)
  <2>1. \A k \in Things : k # i => ItemOK(r, k)
    BY <1>2, <1>11, <1>13, <1>14 DEF DecayOK, ItemOK, Resting, Decaying, CanDecay
  <2>2. ItemOK(r, i)
    BY <1>3, <1>8, <1>11, <1>14, <1>15 DEF ItemOK, Resting
  <2>3. Covered(r)
    BY <1>2, <1>9 DEF Covered, DecayOK
  <2>4. QED
    BY <1>10, <2>1, <2>2, <2>3 DEF DecayOK
<1>17. \E q : Becoming(r, q) /\ DecayBecomes(q)
  <2>1. ASSUME ~IsRemoved(s, i), NEW q \in DecayItem(r, i), DecayBecomes(q)
        PROVE  Becoming(r, q)
    <3>1. ~IsRemoved(r, i)
      BY <1>3, <1>13, <2>1
    <3>2. QED
      BY <1>2, <1>3, <1>16, <2>1, <3>1, DecayItemOK
  <2>2. Becoming(r, r)
    BY <1>10, <1>16 DEF Becoming
  <2>3. QED
    BY <1>7, <2>1, <2>2
<1>18. PICK q : Becoming(r, q) /\ DecayBecomes(q)
  BY <1>17
<1>19. q \in DecayStates /\ (q.slips = {} => DecayOK(q)) /\ q.todo \subseteq check.todo
  BY <1>2, <1>9, <1>18 DEF Becoming
<1>20. QED
  BY <1>3, <1>18, <1>19, BecomesInv

\* checkDecay() copies the nodes that are due and empties them.
LEMMA CheckDecayInv ==
  ASSUME DecayInv, slips = {}, CheckDecay
  PROVE  DecayInv'
<1>1. PICK s : s = DecayState
  OBVIOUS
<1>2. DecayOK(s) /\ s.todo = {} /\ time \in Nat /\ check.it = NoTime /\ s.item = item
      /\ s.map = decayMap /\ s.checkEvent = checkEvent /\ s.orphans = orphans /\ s.slips = {}
  BY <1>1, StateNow DEF CheckDecay, DecayInv
<1>3. s \in DecayStates /\ Covered(s) /\ \A i \in Things : ItemOK(s, i)
  BY <1>2 DEF DecayOK
<1>4. PICK q : q = DecayState'
  OBVIOUS
<1> DEFINE later == {e \in decayMap : e[1] > time}
           first == IF later = {} THEN NoTime ELSE FirstDue(later)
<1>5. /\ decayMap' = later /\ check' = [on |-> TRUE, todo |-> decayMap \ later, it |-> first]
      /\ time' = time /\ item' = item /\ slips' = {}
      /\ checkEvent' \in {checkEvent, NoTime} /\ orphans' \subseteq orphans
  BY DEF CheckDecay
<1>6. decayMap \in SUBSET DecayPairs /\ checkEvent \in Nat /\ orphans \in SUBSET (Nat \ {0})
      /\ item \in [Things -> DecayItems]
  BY <1>2, <1>3 DEF DecayStates
<1>7. later \in SUBSET DecayPairs /\ decayMap \ later \in SUBSET DecayPairs
  BY <1>6
<1>8. later # {} => first \in Nat \ {0} /\ \A e \in later : first <= e[1]
  BY <1>7, FirstDueLeast
<1>9. \A e \in decayMap \ later : e[1] <= time
  BY <1>2, <1>6 DEF DecayPairs
<1>10. \A i \in Things : {e \in later : e[2] = i} \subseteq Entries(s, i)
  BY <1>2 DEF Entries
<1>11. \A i \in Things : Entries(s, i) \ {e \in later : e[2] = i} \subseteq {e \in decayMap \ later : e[2] = i}
  BY <1>2 DEF Entries
<1>12. first \in Nat
  BY <1>8 DEF NoTime
<1> HIDE DEF later, first
<1>13. check'.on = TRUE /\ check'.todo = decayMap \ later /\ check'.it = first
       /\ check' = [on |-> check'.on, todo |-> check'.todo, it |-> check'.it]
  BY <1>5
<1>14. q = [item |-> item, map |-> later, checkEvent |-> checkEvent', orphans |-> orphans',
            todo |-> decayMap \ later, slips |-> {}]
  BY <1>4, <1>5, <1>13 DEF DecayState
<1>15. q \in DecayStates
  BY <1>5, <1>6, <1>7, <1>14 DEF DecayStates, NoTime
<1>16. q.map = later /\ q.item = s.item /\ q.todo = decayMap \ later
  BY <1>2, <1>14
<1>17. ASSUME NEW i \in Things PROVE ItemOK(q, i)
  <2>1. Entries(q, i) = {e \in later : e[2] = i} /\ ItemOK(s, i) /\ ~Copied(s, i)
    BY <1>2, <1>3, <1>16 DEF Entries, Copied
  <2>2. CASE Resting(s, i)
    BY <1>10, <1>16, <2>1, <2>2 DEF ItemOK, Resting
  <2>3. CASE Decaying(s, i)
    <3>1. IsRemoved(q, i) <=> IsRemoved(s, i)
      BY <1>16 DEF IsRemoved
    <3>2. PICK e : Entries(s, i) = {e} /\ e = <<s.item[i].stamp, i>>
      BY <2>3 DEF Decaying
    <3>3. CASE e \in later
      <4>1. Entries(q, i) = Entries(s, i)
        BY <1>10, <2>1, <3>2, <3>3
      <4>2. ~Copied(q, i)
        BY <1>2, <1>16, <3>2, <3>3 DEF Copied, Entries
      <4>3. QED
        BY <1>16, <2>3, <3>1, <4>1, <4>2 DEF ItemOK, Decaying, CanDecay
    <3>4. CASE e \notin later
      <4>1. Entries(q, i) = {}
        BY <1>10, <2>1, <3>2, <3>4
      <4>2. Copied(q, i)
        BY <1>11, <1>16, <3>2, <3>4 DEF Copied
      <4>3. QED
        BY <4>1, <4>2 DEF ItemOK
    <3>5. QED
      BY <3>3, <3>4
  <2>4. QED
    BY <2>1, <2>2, <2>3 DEF ItemOK
<1>18. Covered(DecayState)'
  <2>1. DecayState'.map = later
    BY <1>4, <1>16
  <2>2. \A e \in later : first \in (orphans' \cup {checkEvent', first}) \ {NoTime} /\ first <= e[1]
    BY <1>8 DEF NoTime
  <2>3. DecayState'.orphans = orphans' /\ DecayState'.checkEvent = checkEvent'
    BY <1>4, <1>14
  <2>4. QED
    BY <1>13, <2>1, <2>2, <2>3 DEF Covered
<1>19. (DecayState \in DecayStates)' /\ (\A i \in Things : ItemOK(DecayState, i))'
  BY <1>4, <1>15, <1>17
<1>20. QED
  BY <1>2, <1>5, <1>9, <1>12, <1>13, <1>18, <1>19 DEF DecayInv, DecayOK

\* At its end the check schedules the next one for the node its iterator points to.
LEMMA CheckDoneInv ==
  ASSUME DecayInv, slips = {}, CheckDone
  PROVE  DecayInv'
<1>1. PICK s : s = DecayState
  OBVIOUS
<1>2. DecayOK(s) /\ s.todo = {} /\ time \in Nat /\ check.it \in Nat /\ s.item = item
      /\ s.map = decayMap /\ s.checkEvent = checkEvent /\ s.orphans = orphans /\ s.slips = {}
  BY <1>1, StateNow DEF CheckDone, DecayInv
<1>3. s \in DecayStates /\ Covered(s) /\ \A i \in Things : ItemOK(s, i)
  BY <1>2 DEF DecayOK
<1>4. checkEvent \in Nat /\ orphans \in SUBSET (Nat \ {0})
  BY <1>2, <1>3 DEF DecayStates
<1>5. PICK q : q = DecayState'
  OBVIOUS
<1>6. /\ check' = NoCheck /\ check'.todo = {} /\ check'.it = NoTime /\ check'.on = FALSE
      /\ time' = time /\ item' = item /\ decayMap' = decayMap /\ slips' = {}
  BY DEF CheckDone, NoCheck
<1>7. /\ checkEvent' \in Nat /\ orphans' \in SUBSET (Nat \ {0})
      /\ (orphans \cup {checkEvent, check.it}) \ {NoTime} \subseteq (orphans' \cup {checkEvent'}) \ {NoTime}
  BY <1>2, <1>4 DEF CheckDone, NoTime
<1>8. q = [item |-> item, map |-> decayMap, checkEvent |-> checkEvent', orphans |-> orphans',
           todo |-> {}, slips |-> {}]
  BY <1>5, <1>6 DEF DecayState
<1>9. q \in DecayStates
  BY <1>2, <1>3, <1>7, <1>8 DEF DecayStates
<1>10. q.map = s.map /\ q.item = s.item /\ q.todo = s.todo
       /\ q.checkEvent = checkEvent' /\ q.orphans = orphans'
  BY <1>2, <1>8
<1>11. \A i \in Things : ItemOK(q, i)
  BY <1>3, <1>10 DEF ItemOK, Resting, Decaying, Entries, Copied, CanDecay, IsRemoved
<1>12. \A e \in q.map : \E t \in (q.orphans \cup {q.checkEvent, NoTime}) \ {NoTime} : t <= e[1]
  BY <1>2, <1>3, <1>7, <1>10 DEF Covered
<1>13. Covered(DecayState)'
  BY <1>5, <1>6, <1>12 DEF Covered
<1>14. (DecayState \in DecayStates)' /\ (\A i \in Things : ItemOK(DecayState, i))'
  BY <1>5, <1>9, <1>11
<1>15. QED
  BY <1>2, <1>6, <1>13, <1>14 DEF DecayInv, DecayOK, NoCheck, NoTime

\* Every step keeps the invariant of the decay.
LEMMA DecayStepInv == ASSUME DecayInv, [DecayNextState]_decayVars PROVE DecayInv'
<1>1. CASE UNCHANGED decayVars
  BY <1>1 DEF decayVars, DecayInv, DecayState, DecayOK, DecayStates, Covered, ItemOK, Resting,
     Decaying, Entries, Copied, CanDecay, IsRemoved
<1>2. CASE slips = {} /\ AdvanceTime
  <2>1. DecayState' = DecayState /\ check' = check /\ slips' = slips /\ time' = time + 1
        /\ check.todo = {}
    BY <1>2 DEF AdvanceTime, DecayState, DecayInv
  <2>2. DecayOK(DecayState)
    BY <1>2 DEF DecayInv
  <2>3. DecayOK(DecayState)'
    BY <2>1, <2>2 DEF DecayOK, Covered
  <2>4. QED
    BY <2>1, <2>3 DEF DecayInv
<1>3. CASE DecayNextState /\ ~AdvanceTime
  <2>1. slips = {}
    BY <1>3 DEF DecayNextState
  <2>2. ASSUME NEW i \in Things,
               \/ \E p \in {Tile} \cup Boxes, d \in Durations : CreateItem(i, p, d)
               \/ StartItem(i) \/ StopItem(i) \/ RemoveItem(i)
               \/ \E d \in SomeDuration : TransformItem(i, d)
               \/ \E d \in Durations : SetDuration(i, d)
        PROVE  DecayInv'
    BY <2>1, <2>2, CreateInv, GameInv, SetDurationInv
  <2>3. QED
    BY <1>3, <2>1, <2>2, CheckDecayInv, CheckDoneInv, DecayNextInv DEF DecayNextState
<1>4. QED
  BY <1>1, <1>2, <1>3 DEF DecayNextState

\* The inductive invariant implies what the run checks.
LEMMA DecayInvOrderly == DecayInv => DecayIsOrderly
<1> SUFFICES ASSUME DecayInv PROVE DecayIsOrderly
  OBVIOUS
<1>1. /\ DecayState.item = item /\ DecayState.map = decayMap /\ DecayState.orphans = orphans
      /\ DecayState.checkEvent = checkEvent /\ DecayState.todo = check.todo
      /\ DecayState \in DecayStates
  BY DEF DecayInv, DecayState
<1>2. /\ item \in [Things -> DecayItems] /\ decayMap \in SUBSET DecayPairs /\ checkEvent \in Nat
      /\ orphans \in SUBSET (Nat \ {0})
  BY <1>1 DEF DecayStates
<1>3. DecayTypeOK
  BY <1>2 DEF DecayTypeOK, DecayInv, DecayItems, DecayPairs
<1>4. NextCheckIsScheduled
  <2>1. SUFFICES ASSUME decayMap # {}, ~check.on, slips = {}
                 PROVE  \E t \in orphans \cup ({checkEvent} \ {NoTime}) : t <= FirstDue(decayMap)
    BY DEF NextCheckIsScheduled
  <2>2. PICK e \in decayMap : e[1] = FirstDue(decayMap)
    BY <1>2, <2>1, FirstDueLeast
  <2>3. Covered(DecayState) /\ check.it = NoTime
    BY <2>1 DEF DecayInv, DecayOK
  <2>4. PICK t \in (orphans \cup {checkEvent, NoTime}) \ {NoTime} : t <= e[1]
    BY <1>1, <2>2, <2>3 DEF Covered
  <2>5. QED
    BY <2>2, <2>4
<1>5. EntryIsMarked
  <2>1. SUFFICES ASSUME slips = {}
                 PROVE  /\ \A e \in decayMap : InWorld(e[2])
                        /\ \A i \in Things :
                             \/ \E e \in check.todo : e[2] = i
                             \/ {e \in decayMap : e[2] = i} =
                                  (IF item[i].state = "decaying" THEN {<<item[i].stamp, i>>} ELSE {})
    BY DEF EntryIsMarked
  <2>2. \A i \in Things : ItemOK(DecayState, i)
    BY <2>1 DEF DecayInv, DecayOK
  <2>3. \A i \in Things : \/ \E e \in check.todo : e[2] = i
                          \/ {e \in decayMap : e[2] = i} =
                               (IF item[i].state = "decaying" THEN {<<item[i].stamp, i>>} ELSE {})
    BY <1>1, <2>2 DEF ItemOK, Resting, Decaying, Entries, Copied
  <2>4. ASSUME NEW e \in decayMap PROVE InWorld(e[2])
    <3>1. e[2] \in Things /\ e \in Entries(DecayState, e[2])
      BY <1>1, <1>2 DEF DecayPairs, Entries
    <3>2. Decaying(DecayState, e[2])
      BY <2>2, <3>1 DEF ItemOK, Resting
    <3>3. QED
      BY <3>2 DEF Decaying, CanDecay, InWorld
  <2>5. QED
    BY <2>3, <2>4
<1>6. QED
  BY <1>3, <1>4, <1>5 DEF DecayIsOrderly

\* Decay: for any things, boxes, durations and times, until one of the two slips of
\* checkDecay() happens, a check is due no later than any listed item, and an item is
\* listed once, under its own stamp, and marked.
THEOREM DecayStaysOrderly == DecaySpec => []DecayIsOrderly
BY DecayInitInv, DecayStepInv, DecayInvOrderly, PTL DEF DecaySpec
=============================================================================
