------------------------------- MODULE House -------------------------------
(***************************************************************************)
(* Who owns a house, and where the things in it go: src/map/house/house.cpp*)
(* with loading and saving in src/io/iomapserialize.cpp, the start of the  *)
(* server, and the scripts that buy, leave and sell a house.               *)
(*                                                                         *)
(* The owner, the things and the warnings are kept in memory and in the    *)
(* tables, which are written at different times; the server may stop, or   *)
(* crash, in between.  With togglehouseTransferOnRestart a change of owner *)
(* is only noted in the table and made at the next start.                  *)
(*                                                                         *)
(* One house in a town; its access lists and visitors are left out.  While *)
(* the server is up a resident is online, or has just been saved; while it *)
(* starts nobody is online.  An inbox is part of what a resident has.      *)
(***************************************************************************)
EXTENDS Naturals, FiniteSets

CONSTANTS
  Residents,    \* players who may own the house
  Belongings,   \* things that can be moved into it
  MaxWarnings,  \* 7
  Nobody,       \* guid 0
  NoTransfer    \* new_owner = -1

ASSUME HouseAssumption ==
  /\ Nobody \notin Residents /\ NoTransfer \notin Residents \cup {Nobody}
  /\ IsFiniteSet(Residents) /\ MaxWarnings \in Nat

VARIABLES
  onRestart,   \* TOGGLE_HOUSE_TRANSFER_ON_SERVER_RESTART
  phase,       \* down, loaded (loadMaps), paid (setupHousesRent), up
  house,       \* the House object, with what lies on its tiles
  has,         \* what each resident has
  row,         \* tables houses, tile_store and those of the players
  heir,        \* transferHouseItemsToPlayer: who gets what lies in the house
  whose,       \* history: who moved a thing into the house last
  notices,     \* history: letters sent to the present owner, up to MaxWarnings
  losses      \* history: what cost somebody a thing, a house or a warning

houseVars == <<onRestart, phase, house, has, row, heir, whose, notices, losses>>

NoDeed == <<>>
SpentDeed == <<Nobody>>   \* a document nobody trades, but still transferItem
OpenDeeds == Residents \X Residents   \* of a house on sale: from whom to whom

\* A House after loadHousesXML().
Unowned == [owner |-> Nobody, scheduled |-> FALSE, deed |-> NoDeed, warnings |-> 0, things |-> {}]

HouseInit ==
  /\ onRestart \in BOOLEAN
  /\ phase = "up" /\ house = Unowned /\ heir = Nobody
  /\ has \in [Residents -> SUBSET Belongings]
  /\ \A i \in Belongings : Cardinality({p \in Residents : i \in has[p]}) = 1
  /\ row = [owner |-> Nobody, newOwner |-> NoTransfer, warnings |-> 0, tiles |-> {}, has |-> has]
  /\ whose = [i \in Belongings |-> Nobody]
  /\ notices = 0 /\ losses = {}

-----------------------------------------------------------------------------
(***************************************************************************)
(* The operations of House, on the house, the tables and the residents.    *)
(***************************************************************************)
HouseState == [house |-> house, row |-> row, has |-> has]

\* transferToDepot(): an online resident is saved by a later load of the pool.
TransferToDepot(s, p) ==
  [s EXCEPT !.house.things = {}, !.has[p] = @ \cup s.house.things,
            !.row.has[p] = IF phase = "up" THEN @ ELSE s.has[p] \cup s.house.things]

SetOwnerKeepingThings(s, g, updateDatabase) ==   \* mutant: the house is not emptied
  IF s.house.owner = g THEN s
  ELSE [s EXCEPT !.house.owner = g, !.house.warnings = 0,
                 !.row.owner = IF updateDatabase THEN g ELSE @,
                 !.row.newOwner = IF updateDatabase THEN NoTransfer ELSE @]

\* setOwner(): the table first, then the former owner's things, then the owner.
SetOwner(s, g, updateDatabase) ==
  LET noted == IF updateDatabase
               THEN [s EXCEPT !.row.owner = g, !.row.newOwner = NoTransfer] ELSE s
      empty == IF s.house.owner # Nobody THEN TransferToDepot(noted, s.house.owner) ELSE noted
  IN  IF s.house.owner = g THEN s
      ELSE [empty EXCEPT !.house.owner = g, !.house.warnings = 0]

\* setNewOwnerGuid(guid, false).
SetNewOwnerGuid(s, g) ==
  IF onRestart THEN [s EXCEPT !.row.newOwner = g, !.house.scheduled = TRUE]
  ELSE SetOwner(s, g, TRUE)

\* Map::save(): saveHouseInfo(), which leaves new_owner alone, and saveHouseItems().
MapSave(s) ==
  [s EXCEPT !.row.owner = s.house.owner, !.row.warnings = s.house.warnings,
            !.row.tiles = s.house.things]

\* A handler ends in state s; a new owner has had no letters yet.
Becomes(s) ==
  /\ house' = s.house /\ row' = s.row /\ has' = s.has
  /\ notices' = IF s.house.owner = house.owner THEN notices ELSE 0

Up == phase = "up" /\ UNCHANGED <<onRestart, phase, heir>>

-----------------------------------------------------------------------------
(***************************************************************************)
(* While the server is up.                                                 *)
(***************************************************************************)

\* !buyhouse: a house without an owner and without things.
BuyHouse(p) ==
  /\ Up /\ house.owner = Nobody /\ house.things = {}
  /\ Becomes(SetOwner(HouseState, p, TRUE))
  /\ UNCHANGED <<whose, losses>>

\* !leavehouse.  A document of the house that is being traded stays valid.
LeaveHouse(p) ==
  /\ Up /\ house.owner = p /\ ~(onRestart /\ house.scheduled)
  /\ Becomes(SetNewOwnerGuid(HouseState, Nobody))
  /\ losses' = IF ~onRestart /\ house.deed # NoDeed THEN losses \cup {"deed outlives"} ELSE losses
  /\ UNCHANGED whose

\* !sellhouse: startTrade() takes the document before it asks whether the house
\* is to be transferred already.
StartTrade(p, q) ==
  /\ Up /\ house.owner = p /\ q # p /\ house.deed = NoDeed
  /\ house' = [house EXCEPT !.deed = IF onRestart /\ house.scheduled THEN SpentDeed
                                     ELSE <<p, q>>]
  /\ UNCHANGED <<has, row, whose, notices, losses>>

\* ON_TRADE_CANCEL: resetTransferItem().
CancelTrade ==
  /\ Up /\ house.deed \in OpenDeeds
  /\ house' = [house EXCEPT !.deed = NoDeed]
  /\ UNCHANGED <<has, row, whose, notices, losses>>

\* ON_TRADE_TRANSFER: executeTransfer(), and the document leaves the game.
ExecuteTransfer ==
  /\ Up /\ house.deed \in OpenDeeds
  /\ IF onRestart /\ house.scheduled
     THEN /\ house' = [house EXCEPT !.deed = SpentDeed]
          /\ UNCHANGED <<has, row, notices>>
     ELSE Becomes([SetNewOwnerGuid(HouseState, house.deed[2]) EXCEPT !.house.deed = NoDeed])
  /\ UNCHANGED <<whose, losses>>

MoveIn(p, i) ==
  /\ Up /\ house.owner = p /\ i \in has[p]
  /\ has' = [has EXCEPT ![p] = @ \ {i}]
  /\ house' = [house EXCEPT !.things = @ \cup {i}]
  /\ whose' = [whose EXCEPT ![i] = p]
  /\ UNCHANGED <<row, notices, losses>>

MoveOut(p, i) ==
  /\ Up /\ house.owner = p /\ i \in house.things
  /\ has' = [has EXCEPT ![p] = @ \cup {i}]
  /\ house' = [house EXCEPT !.things = @ \ {i}]
  /\ UNCHANGED <<row, whose, notices, losses>>

\* A logout, or a scheduled save.
SavePlayer(p) ==
  /\ Up
  /\ row' = [row EXCEPT !.has[p] = has[p]]
  /\ UNCHANGED <<house, has, whose, notices, losses>>

SaveMap ==
  /\ Up
  /\ Becomes(MapSave(HouseState))
  /\ UNCHANGED <<whose, losses>>

-----------------------------------------------------------------------------
(***************************************************************************)
(* The end of the server, with a save of everything or without, and its    *)
(* start.                                                                  *)
(***************************************************************************)
Stops(saved) ==
  /\ phase' = "down" /\ house' = Unowned /\ heir' = Nobody
  /\ row' = saved /\ has' = saved.has
  /\ UNCHANGED <<onRestart, whose, notices>>

\* SaveManager::saveAll().
Shutdown ==
  /\ phase = "up"
  /\ Stops([MapSave(HouseState).row EXCEPT !.has = has])
  /\ UNCHANGED losses

\* loadHouseItems() leaves out what lies in a house without an owner.
LoadHouseItems(owner) == IF owner = Nobody THEN {} ELSE row.tiles

\* The tables are behind, or the former owner's things have not been moved and
\* the table does not say any more that they have to be.
CrashCosts ==
  \/ LoadHouseItems(row.owner) # house.things
  \/ row.has # has
  \/ heir # Nobody /\ row.newOwner = NoTransfer

Crash ==
  /\ phase # "down"
  /\ Stops(row)
  /\ losses' = IF CrashCosts THEN losses \cup {"crash"} ELSE losses

\* loadHouseInfo() and loadHouseItems().  setOwner(0) finds the house without an
\* owner and changes nothing, in the table neither.
LoadHouse ==
  LET moved == onRestart /\ row.newOwner # NoTransfer
      s == SetOwner(HouseState, IF moved THEN row.newOwner ELSE row.owner, moved)
      owner == s.house.owner
  IN
  /\ phase = "down" /\ phase' = "loaded"
  /\ heir' = IF moved THEN row.owner ELSE Nobody
  /\ house' = [s.house EXCEPT !.warnings = row.warnings, !.things = LoadHouseItems(owner)]
  /\ row' = s.row /\ has' = s.has
  /\ notices' = IF owner = row.owner THEN notices ELSE 0
  /\ losses' = losses
       \cup (IF moved /\ owner = Nobody /\ row.tiles # {} THEN {"left behind"} ELSE {})
       \cup (IF row.warnings > notices' THEN {"inherited"} ELSE {})
  /\ UNCHANGED <<onRestart, whose>>

\* The owner loses the house: it is emptied into his inbox, before the heir is
\* served.
Evict ==
  /\ Becomes(SetOwner(HouseState, Nobody, TRUE))
  /\ losses' = IF heir # Nobody /\ house.things # {} THEN losses \cup {"disinherited"} ELSE losses

\* payHouses(): nothing to pay or paid, a letter, or the house is lost for the
\* rent or for not having logged in.
PayHouses ==
  /\ phase = "loaded" /\ phase' = "paid"
  /\ \/ UNCHANGED <<house, row, has, notices, losses>>
     \/ /\ house.owner # Nobody /\ house.warnings < MaxWarnings
        /\ house' = [house EXCEPT !.warnings = @ + 1]
        /\ notices' = IF notices < MaxWarnings THEN notices + 1 ELSE notices
        /\ UNCHANGED <<row, has, losses>>
     \/ house.owner # Nobody /\ Evict
  /\ UNCHANGED <<onRestart, heir, whose>>

\* Game::transferHouseItemsToDepot().
TransferHouseItemsToDepot ==
  /\ phase = "paid" /\ phase' = "up" /\ heir' = Nobody
  /\ IF heir = Nobody THEN UNCHANGED <<house, row, has, notices>>
     ELSE Becomes(MapSave([TransferToDepot(HouseState, heir) EXCEPT !.row.newOwner = NoTransfer]))
  /\ UNCHANGED <<onRestart, whose, losses>>

HouseNext ==
  \/ CancelTrade \/ ExecuteTransfer \/ SaveMap
  \/ Shutdown \/ Crash \/ LoadHouse \/ PayHouses \/ TransferHouseItemsToDepot
  \/ \E p \in Residents :
       \/ BuyHouse(p) \/ LeaveHouse(p) \/ SavePlayer(p)
       \/ \E q \in Residents : StartTrade(p, q)
       \/ \E i \in Belongings : MoveIn(p, i) \/ MoveOut(p, i)

HouseSpec == HouseInit /\ [][HouseNext]_houseVars

-----------------------------------------------------------------------------
(***************************************************************************)
(* Properties.                                                             *)
(***************************************************************************)

\* The table names the owner the running server has, so that not even a crash
\* changes the owner, and it notes a transfer exactly while one is scheduled.
OwnerIsRecorded ==
  phase = "up" =>
    /\ row.owner = house.owner
    /\ house.scheduled <=> row.newOwner # NoTransfer

\* Everything is in one place: in the house of the one who moved it in, or with
\* him, through sales, departures, evictions and restarts.  The exceptions: a
\* crash while the tables are behind, a house left with the transfer on restart
\* (its things are never loaded), and a buyer who is evicted at that restart.
BelongingsAreKept ==
  losses \cap {"crash", "left behind", "disinherited"} = {} /\ phase = "up" =>
    \A i \in Belongings :
      LET holders == {p \in Residents : i \in has[p]} IN
      IF i \in house.things THEN holders = {} /\ whose[i] = house.owner
      ELSE \E p \in Residents : holders = {p} /\ whose[i] \in {p, Nobody}

\* A document that is being traded is the present owner's, unless he left the
\* house meanwhile.
DeedIsOwners ==
  house.deed \in OpenDeeds /\ "deed outlives" \notin losses =>
    house.deed[1] = house.owner

\* The warnings that count against an owner were sent to him, unless they came
\* to him with the row of the house.
WarningsAreOwn ==
  phase = "up" /\ "inherited" \notin losses => house.warnings <= notices

\* Owners, things, documents and warnings survive every sale, departure, rent
\* and restart, with the exceptions named above.
HouseIsKept == OwnerIsRecorded /\ BelongingsAreKept /\ DeedIsOwners /\ WarningsAreOwn
=============================================================================
