--------------------------- MODULE CreatureChecks ---------------------------
(***************************************************************************)
(* Which creatures think: addCreatureCheck, removeCreatureCheck and        *)
(* checkCreatures of src/game/game.cpp.                                    *)
(*                                                                         *)
(* The creatures are spread over EVENT_CREATURECOUNT vectors, and each     *)
(* call of checkCreatures goes through one of them.  It takes the length   *)
(* of the vector once, and then calls every creature in it: these calls    *)
(* add creatures to the vectors, the one being walked through included,    *)
(* and mark creatures to be dropped.  A round is one call; the callbacks   *)
(* of a creature are steps of their own within it.                         *)
(***************************************************************************)
EXTENDS Integers, FiniteSets, Sequences

CONSTANTS
  Beings,        \* creatures
  ListCount      \* EVENT_CREATURECOUNT

ASSUME ListCountAssumption == ListCount \in Nat \ {0}

VARIABLES
  checkLists,    \* checkCreatureLists
  creatureCheck, \* creatures whose creatureCheck is set
  inVector,      \* creatures whose inCheckCreaturesVector is set
  index,         \* the static index of checkCreatures
  round,         \* a running call: it, end, and whether a creature is being called
  thought,       \* history: how often each creature was called in this round
  expected,      \* history: creatures to be called in this round
  added          \* history: a creature was added to the vector in this round

checkVars == <<checkLists, creatureCheck, inVector, index, round, thought, expected, added>>

Lists == 0..(ListCount - 1)
NoRound == [on |-> FALSE, it |-> 0, end |-> 0, calling |-> FALSE]

CreatureChecksInit ==
  /\ checkLists = [l \in Lists |-> <<>>]
  /\ creatureCheck = {} /\ inVector = {}
  /\ index = 0 /\ round = NoRound
  /\ thought = [b \in Beings |-> 0] /\ expected = {} /\ added = FALSE

-----------------------------------------------------------------------------
\* The game acts between rounds, or a creature does when it is called.
Acting == ~round.on \/ round.calling

\* addCreatureCheck(): a creature that is still in a vector is only marked.
AddCreatureCheck(b) ==
  /\ Acting
  /\ creatureCheck' = creatureCheck \cup {b}
  /\ IF b \in inVector THEN UNCHANGED <<checkLists, inVector, added>>
     ELSE /\ inVector' = inVector \cup {b}
          /\ \E l \in Lists :
               /\ checkLists' = [checkLists EXCEPT ![l] = Append(@, b)]
               /\ added' = (added \/ (round.on /\ l = index))
  /\ UNCHANGED <<index, round, thought, expected>>

\* removeCreatureCheck(): the creature stays in its vector until it is reached.
RemoveCreatureCheck(b) ==
  /\ Acting
  /\ creatureCheck' = IF b \in inVector THEN creatureCheck \ {b} ELSE creatureCheck
  /\ expected' = expected \ {b}
  /\ UNCHANGED <<checkLists, inVector, index, round, thought, added>>

\* checkCreatures() is called.
CheckCreatures ==
  /\ ~round.on
  /\ round' = [on |-> TRUE, it |-> 1, end |-> Len(checkLists[index]), calling |-> FALSE]
  /\ thought' = [b \in Beings |-> 0]
  /\ expected' = creatureCheck \cap {checkLists[index][n] : n \in 1..Len(checkLists[index])}
  /\ added' = FALSE
  /\ UNCHANGED <<checkLists, creatureCheck, inVector, index>>

\* The creature at `it'.
Here == checkLists[index][round.it]
Reaching == round.on /\ ~round.calling /\ round.it <= round.end

\* onThink, onAttacking and executeConditions, or onDeath.
CallCreature ==
  /\ Reaching /\ Here \in creatureCheck
  /\ thought' = [thought EXCEPT ![Here] = @ + 1]
  /\ round' = [round EXCEPT !.calling = TRUE]
  /\ UNCHANGED <<checkLists, creatureCheck, inVector, index, expected, added>>

CreatureCalled ==
  /\ round.calling
  /\ round' = [round EXCEPT !.calling = FALSE, !.it = @ + 1]
  /\ UNCHANGED <<checkLists, creatureCheck, inVector, index, thought, expected, added>>

\* The last element of the vector takes the place it, and pop_back() drops it.
DropAt(list, it) ==
  [n \in 1..(Len(list) - 1) |-> IF n = it THEN list[Len(list)] ELSE list[n]]

DropCreatureSteppingOn ==   \* mutant: `it' goes on although another took the place
  /\ Reaching /\ Here \notin creatureCheck
  /\ inVector' = inVector \ {Here}
  /\ checkLists' = [checkLists EXCEPT ![index] = DropAt(@, round.it)]
  /\ round' = [round EXCEPT !.end = @ - 1, !.it = @ + 1]
  /\ UNCHANGED <<creatureCheck, index, thought, expected, added>>

\* A creature that is not to be checked is dropped, and `it' stays: another has
\* taken the place.
DropCreature ==
  /\ Reaching /\ Here \notin creatureCheck
  /\ inVector' = inVector \ {Here}
  /\ checkLists' = [checkLists EXCEPT ![index] = DropAt(@, round.it)]
  /\ round' = [round EXCEPT !.end = @ - 1]
  /\ UNCHANGED <<creatureCheck, index, thought, expected, added>>

RoundDone ==
  /\ round.on /\ ~round.calling /\ round.it > round.end
  /\ round' = NoRound
  /\ index' = (index + 1) % ListCount
  /\ UNCHANGED <<checkLists, creatureCheck, inVector, thought, expected, added>>

CreatureChecksNext ==
  \/ \E b \in Beings : AddCreatureCheck(b) \/ RemoveCreatureCheck(b)
  \/ CheckCreatures \/ CallCreature \/ CreatureCalled \/ DropCreature \/ RoundDone

CreatureChecksSpec == CreatureChecksInit /\ [][CreatureChecksNext]_checkVars

-----------------------------------------------------------------------------
(***************************************************************************)
(* Properties.                                                             *)
(***************************************************************************)

\* Flags and vectors keep their types, and the end a round took never passes
\* the vector it is an index of, whatever was dropped or added meanwhile.
ChecksTypeOK ==
  /\ checkLists \in [Lists -> Seq(Beings)]
  /\ creatureCheck \subseteq inVector /\ inVector \subseteq Beings
  /\ index \in Lists
  /\ round.on => round.end <= Len(checkLists[index])

\* Where the vectors have the creature.
Listed(b) ==
  {x \in UNION {{l} \X (1..Len(checkLists[l])) : l \in Lists} : checkLists[x[1]][x[2]] = b}

\* A creature is in one vector, once, exactly while inCheckCreaturesVector says
\* so: dropped and added again, it is neither doubled nor lost.
ListedOnce ==
  \A b \in Beings :
    Cardinality(Listed(b)) = IF b \in inVector THEN 1 ELSE 0

\* A round calls no creature twice, and every creature that was in its vector
\* and is not removed meanwhile once.  It may miss one when a creature was added
\* to that vector during the round: the newcomer, last in the vector, takes the
\* place of a dropped creature, and `end' then excludes the old last one.
EachIsCalledOnce ==
  /\ \A b \in Beings : thought[b] <= 1
  /\ round.on /\ round.it > round.end /\ ~added => \A b \in expected : thought[b] = 1

\* The vectors, the flags and a round in progress are consistent, and a round
\* calls each of its creatures once, whatever the callbacks add and remove.
RoundsAreExact == ChecksTypeOK /\ ListedOnce /\ EachIsCalledOnce
=============================================================================
