------------------------------ MODULE MCUpkeep ------------------------------
(***************************************************************************)
(* Small instances of KVStore, with several threads and failing queries,   *)
(* PlayerSave, Decay, CreatureChecks, Spawn, Raids and Containers for TLC. *)
(* They share no state in their modules, so a behaviour is one of one of   *)
(* them: part says of which, and the others stay as they are.              *)
(***************************************************************************)
EXTENDS KVStore, PlayerSave, Decay, CreatureChecks, Spawn, Raids, Containers

CONSTANTS
  k1, k2, v1, v2, t1, t2, box, torch, b1, b2, b3, b4, lair1, lair2, n1, n2, n3,
  chest, locker, bag1, bag2

VARIABLE part

PartsInit ==
  /\ Init /\ PlayerSaveInit /\ DecayInit /\ CreatureChecksInit /\ SpawnInit /\ RaidsInit
  /\ ContainersInit
  /\ \/ part = "kv"
     \/ /\ part \in {"save", "decay", "checks", "spawn", "raids", "items"}
        /\ \A k \in Keys : db[k] = Absent

PartsNext ==
  /\ UNCHANGED part
  /\ \/ part = "kv" /\ Next
     \/ part # "kv" /\ UNCHANGED vars
  /\ \/ part = "save" /\ PlayerSaveNext
     \/ part # "save" /\ UNCHANGED saveVars
  /\ \/ part = "decay" /\ DecayNextState
     \/ part # "decay" /\ UNCHANGED decayVars
  /\ \/ part = "checks" /\ CreatureChecksNext
     \/ part # "checks" /\ UNCHANGED checkVars
  /\ \/ part = "spawn" /\ SpawnNext
     \/ part # "spawn" /\ UNCHANGED spawnVars
  /\ \/ part = "raids" /\ RaidsNext
     \/ part # "raids" /\ UNCHANGED raidVars
  /\ \/ part = "items" /\ ContainersNext
     \/ part # "items" /\ UNCHANGED containerVars

PartsSpec ==
  PartsInit
    /\ [][PartsNext]_<<part, vars, saveVars, decayVars, checkVars, spawnVars, raidVars,
                       containerVars>>
=============================================================================
