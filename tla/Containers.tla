----------------------------- MODULE Containers -----------------------------
(***************************************************************************)
(* Items in containers: internalMoveItem(), internalAddItem() and          *)
(* internalRemoveItem() of src/game/game.cpp over the queries and changes  *)
(* of src/items/containers/container.cpp.                                  *)
(*                                                                         *)
(* Roots are containers that lie on the ground; bags are containers that   *)
(* can be moved; a pile is a stackable item, all of one kind, and one unit *)
(* of it weighs 1, as does an empty bag.  Owners, quivers, inboxes, locked *)
(* containers, items that cannot be picked up and the scripts' callbacks   *)
(* are left out; an exchange of two items never arises in a container.     *)
(***************************************************************************)
EXTENDS Vectors, FiniteSets, FiniteSetsExt

CONSTANTS
  Roots, Bags,
  Paged,         \* roots with pagination
  Piles,         \* numbers: the stackable items that can exist at once
  Capacity,      \* maxSize
  StackMax,      \* getStackSize()
  MaxContainer,  \* MAX_CONTAINER
  MaxItems,      \* m_maxItems
  Nowhere,       \* the parent of an item that is in no container
  NoItem

Holders == Roots \cup Bags
Goods == Bags \cup Piles

WhereEver == -1    \* INDEX_WHEREEVER
MoveUp == 254
AddWhereEver == 255
AllUnits == 255    \* the count that the client sends with "move up"

ASSUME ContainersAssumption ==
  /\ IsFiniteSet(Bags) /\ IsFiniteSet(Piles) /\ Piles \subseteq Nat
  /\ Roots \cap Goods = {} /\ Bags \cap Piles = {} /\ Paged \subseteq Roots
  /\ Nowhere \notin Holders /\ NoItem \notin Holders \cup Goods
  /\ Capacity \in 1..(MoveUp - 2) /\ StackMax \in 1..(AllUnits - 1)
  /\ {MaxContainer, MaxItems} \subseteq Nat

VARIABLES
  within,        \* m_parent
  itemlist,      \* what a container holds
  amount,        \* getItemCount() of a pile, 0 for one that does not exist
  totalWeight,   \* the cached weight of a container's contents
  units          \* history: units that were created and neither removed nor dropped

containerVars == <<within, itemlist, amount, totalWeight, units>>

ContainersInit ==
  /\ within = [i \in Goods |-> Nowhere]
  /\ itemlist = [b \in Holders |-> <<>>]
  /\ amount = [p \in Piles |-> 0]
  /\ totalWeight = [b \in Holders |-> 0]
  /\ units = 0

-----------------------------------------------------------------------------

\* What is found from start when each bag x leads to next[x].
Reach(start, next) ==
  LET found[n \in 0..Cardinality(Bags)] ==
        IF n = 0 THEN start
        ELSE found[n - 1] \cup UNION {next[x] : x \in found[n - 1] \cap Bags}
  IN  found[Cardinality(Bags)]

\* A container and the containers it is in.
Above(b) == Reach({b}, [x \in Bags |-> {within[x]} \ {Nowhere}])

\* What ContainerIterator visits.
Inside(b) == Reach(Range(itemlist[b]), [x \in Bags |-> Range(itemlist[x])])

OwnWeight(i) == IF i \in Bags THEN 1 ELSE amount[i]
GetWeight(i) == IF i \in Bags THEN 1 + totalWeight[i] ELSE amount[i]

\* getTopParentContainer(): the ground is no container, so the walk ends one
\* container below the root.
TopParent(b) ==
  IF b \in Roots THEN b
  ELSE CHOOSE x \in Above(b) \cap Bags : within[x] \in Roots \cup {Nowhere}

QueryAddUnchained(b, index, i) ==   \* mutant: only the container itself is refused
  LET held == Inside(TopParent(b))
      added == IF i \in Bags THEN Inside(i) ELSE {}
  IN  /\ i # b
      /\ index = WhereEver /\ b \notin Paged => Len(itemlist[b]) < Capacity
      /\ i \in Bags => Cardinality(added \cap Bags) + 1 + Cardinality(held \cap Bags) <= MaxContainer
      /\ Cardinality(added) + 1 + Cardinality(held) <= MaxItems

\* Container::queryAdd().
QueryAdd(b, index, i) ==
  LET held == Inside(TopParent(b))
      added == IF i \in Bags THEN Inside(i) ELSE {}
  IN  /\ i \notin Above(b)
      /\ index = WhereEver /\ b \notin Paged => Len(itemlist[b]) < Capacity
      /\ i \in Bags => Cardinality(added \cap Bags) + 1 + Cardinality(held \cap Bags) <= MaxContainer
      /\ Cardinality(added) + 1 + Cardinality(held) <= MaxItems

NotFull(p) == p \in Piles /\ amount[p] < StackMax
Room(p) == IF NotFull(p) THEN StackMax - amount[p] ELSE 0

ItemByIndex(b, index) == IF index \in 0..(Len(itemlist[b]) - 1) THEN itemlist[b][index + 1] ELSE NoItem

FreeSlots(b) == Most(Capacity - Len(itemlist[b]), 0)

\* Container::queryMaxCount(): the queryAdd() it repeats for each pile has
\* passed before.
QueryMaxCount(b, index, i, count) ==
  CASE b \in Paged -> Most(1, count)
    [] b \notin Paged /\ i \in Bags -> FreeSlots(b)
    [] OTHER ->
         FreeSlots(b) * StackMax
         + (IF index = WhereEver
            THEN SumFunction([k \in DOMAIN itemlist[b] |->
                                IF itemlist[b][k] = i THEN 0 ELSE Room(itemlist[b][k])])
            ELSE Room(ItemByIndex(b, index)))

\* The first pile of a container that is not full.
FirstNotFull(b, i) ==
  LET open == {k \in DOMAIN itemlist[b] : itemlist[b][k] # i /\ NotFull(itemlist[b][k])}
  IN  IF open = {} THEN -1 ELSE Min(open) - 1

\* The slot that a slot named by a client stands for.
Slotted(b, index, i) ==
  CASE index = MoveUp -> [box |-> IF b \in Bags THEN within[b] ELSE b, index |-> WhereEver]
    [] index # MoveUp /\ (index = AddWhereEver \/ (index >= Capacity /\ b \notin Paged)) ->
         [box |-> b, index |-> WhereEver]
    [] OTHER ->
         IF ItemByIndex(b, index) \in Bags
         THEN [box |-> ItemByIndex(b, index), index |-> WhereEver]
         ELSE [box |-> b, index |-> index]

\* Container::queryDestination(), until it answers the container it is asked:
\* a pile that comes from another container goes to one that is not full.
QueryDestination(b, index, i) ==
  LET slot == Slotted(b, index, i)
      at == ItemByIndex(slot.box, slot.index)
      first == FirstNotFull(slot.box, i)
      stacks == /\ i \in Piles /\ within[i] # slot.box
                /\ ~(index = MoveUp /\ b \in Roots)
                /\ ~NotFull(at) /\ first >= 0
  IN  IF stacks THEN [box |-> slot.box, index |-> first, item |-> ItemByIndex(slot.box, first)]
      ELSE [box |-> slot.box, index |-> slot.index, item |-> at]

-----------------------------------------------------------------------------
FreePiles == {p \in Piles : within[p] = Nowhere}
InGame(b) == b \in Bags => within[b] # Nowhere
UnitsOf(ps) == SumFunction([p \in ps |-> amount[p]])

\* updateItemWeight(), on the weights w.
UpdateItemWeight(b, diff, w) ==
  [x \in Holders |-> IF x \in Above(b) THEN w[x] + diff ELSE w[x]]

\* removeThing() of the whole item: the lists and the weights it leaves.
TakenLists(i) == [itemlist EXCEPT ![within[i]] = Remaining(@, {i})]
TakenWeights(i) == UpdateItemWeight(within[i], -GetWeight(i), totalWeight)

\* An item that is in no container any more is destroyed with its contents.
Destroyed(i) ==
  LET gone == {i} \cup (IF i \in Bags THEN Inside(i) ELSE {})
      lists == TakenLists(i)
      weights == TakenWeights(i)
  IN  /\ within' = [x \in Goods |-> IF x \in gone THEN Nowhere ELSE within[x]]
      /\ itemlist' = [b \in Holders |-> IF b \in gone THEN <<>> ELSE lists[b]]
      /\ amount' = [p \in Piles |-> IF p \in gone THEN 0 ELSE amount[p]]
      /\ totalWeight' = [b \in Holders |-> IF b \in gone THEN 0 ELSE weights[b]]
      /\ units' = units - UnitsOf(gone \cap Piles)

\* The move of a bag.  addThing() ignores a slot past the capacity, which only
\* a container with pagination lets through: the bag has been removed by then.
MoveBag(i, dest) ==
  IF dest.index >= Capacity THEN Destroyed(i)
  ELSE /\ within' = [within EXCEPT ![i] = dest.box]
       /\ itemlist' = [TakenLists(i) EXCEPT ![dest.box] = <<i>> \o @]
       /\ totalWeight' = UpdateItemWeight(dest.box, GetWeight(i), TakenWeights(i))
       /\ UNCHANGED <<amount, units>>

\* Units that a pile takes of m that come to its slot.
Merged(m, p) == IF p \in Piles THEN Least(StackMax - amount[p], m) ELSE 0

\* Units of the clone that is added.
Split(m, n) == m - n

\* The move of m units: some are merged with the pile at the slot, and a clone
\* of the item takes the rest, if the slot lets it.
MovePile(i, dest, m) ==
  LET whole == m = amount[i]
      n == Merged(m, dest.item)
      rest == Split(m, n)
      added == rest > 0 /\ dest.index < Capacity
      free == IF whole THEN FreePiles \cup {i} ELSE FreePiles
      clone == Min(free)
      left == [amount EXCEPT ![i] = @ - m]
      merged == IF n > 0 THEN [left EXCEPT ![dest.item] = @ + n] ELSE left
      lists == IF whole THEN TakenLists(i) ELSE itemlist
      places == IF whole THEN [within EXCEPT ![i] = Nowhere] ELSE within
      weights == UpdateItemWeight(dest.box, n, UpdateItemWeight(within[i], -m, totalWeight))
  IN  IF added
      THEN /\ free # {}
           /\ amount' = [merged EXCEPT ![clone] = rest]
           /\ within' = [places EXCEPT ![clone] = dest.box]
           /\ itemlist' = [lists EXCEPT ![dest.box] = <<clone>> \o @]
           /\ totalWeight' = UpdateItemWeight(dest.box, rest, weights)
           /\ UNCHANGED units
      ELSE /\ amount' = merged /\ within' = places /\ itemlist' = lists
           /\ totalWeight' = weights
           /\ units' = units - rest

\* internalMoveItem() of item i to slot index of container b.
MoveItem(i, b, index, c) ==
  /\ within[i] # Nowhere /\ InGame(b)
  /\ \E dest \in {QueryDestination(b, index, i)} :
       LET up == i \in Piles /\ c = AllUnits /\ within[i] \in Bags /\ within[within[i]] = dest.box
           count == IF up THEN amount[i] ELSE c
           max == QueryMaxCount(dest.box, dest.index, i, count)
       IN  /\ dest.item # i
           /\ QueryAdd(dest.box, dest.index, i)
           /\ max > 0
           /\ \/ i \in Bags /\ MoveBag(i, dest)
              \/ /\ i \in Piles /\ Least(count, max) <= amount[i]
                 /\ \E m \in {Least(count, max)} : MovePile(i, dest, m)

\* internalAddItem() of a new bag.
AddBag(i, b) ==
  /\ within[i] = Nowhere /\ i # b /\ InGame(b)
  /\ QueryAdd(b, WhereEver, i) /\ QueryMaxCount(b, WhereEver, i, 1) > 0
  /\ within' = [within EXCEPT ![i] = b]
  /\ itemlist' = [itemlist EXCEPT ![b] = <<i>> \o @]
  /\ totalWeight' = UpdateItemWeight(b, GetWeight(i), totalWeight)
  /\ UNCHANGED <<amount, units>>

\* internalAddItem() of a new pile of c units, if all of it fits: the piles that
\* are not full are filled from the front, one call for each, and what remains
\* is added.
AddPile(b, c) ==
  LET list == itemlist[b]
      first == FirstNotFull(b, NoItem)
      poured == Poured([k \in DOMAIN list |-> Room(list[k])], c)
      rest == c - SumFunction(poured)
      filled == [p \in Piles |-> amount[p]
                  + SumFunction([k \in DOMAIN list |-> IF list[k] = p THEN poured[k] ELSE 0])]
  IN  /\ InGame(b) /\ FreePiles # {}
      /\ QueryAdd(b, IF first >= 0 THEN first ELSE WhereEver, NoItem)
      /\ c <= QueryMaxCount(b, WhereEver, NoItem, c)
      /\ IF rest = 0
         THEN amount' = filled /\ UNCHANGED <<within, itemlist>>
         ELSE /\ amount' = [filled EXCEPT ![Min(FreePiles)] = rest]
              /\ within' = [within EXCEPT ![Min(FreePiles)] = b]
              /\ itemlist' = [itemlist EXCEPT ![b] = <<Min(FreePiles)>> \o @]
      /\ totalWeight' = UpdateItemWeight(b, c, totalWeight)
      /\ units' = units + c

\* internalRemoveItem().
RemoveItemOf(i, c) ==
  /\ within[i] # Nowhere
  /\ i \in Piles => c <= amount[i]
  /\ IF i \in Bags \/ c = amount[i] THEN Destroyed(i)
     ELSE /\ amount' = [amount EXCEPT ![i] = @ - c]
          /\ totalWeight' = UpdateItemWeight(within[i], -c, totalWeight)
          /\ units' = units - c
          /\ UNCHANGED <<within, itemlist>>

ContainersNext ==
  \/ \E i \in Bags, b \in Holders : AddBag(i, b)
  \/ \E b \in Holders, c \in 1..StackMax : AddPile(b, c)
  \/ \E i \in Goods, c \in 1..StackMax : RemoveItemOf(i, c)
  \/ \E b \in Holders, index \in (0..Capacity) \cup {MoveUp, AddWhereEver} :
       \/ \E i \in Bags : MoveItem(i, b, index, 1)
       \/ \E i \in Piles, c \in (1..StackMax) \cup {AllUnits} : MoveItem(i, b, index, c)

ContainersSpec == ContainersInit /\ [][ContainersNext]_containerVars

-----------------------------------------------------------------------------
(***************************************************************************)
(* Properties.                                                             *)
(***************************************************************************)

\* The list of a container and the parents of its items are two records of the
\* same thing: they agree, no item is listed twice, and a container without
\* pagination holds what it has slots for.
ContainersTypeOK ==
  /\ within \in [Goods -> Holders \cup {Nowhere}]
  /\ amount \in [Piles -> 0..StackMax]
  /\ \A p \in Piles : amount[p] = 0 <=> within[p] = Nowhere
  /\ \A b \in Holders :
       /\ Range(itemlist[b]) = {i \in Goods : within[i] = b}
       /\ IsInjective(itemlist[b])
       /\ b \notin Paged => Len(itemlist[b]) <= Capacity

\* No move closes a circle: every container in the game hangs from a root.
NoneInsideItself ==
  \A b \in Bags : within[b] # Nowhere => Above(b) \cap Roots # {}

\* The weight that each container caches is the weight of what it holds, at
\* every depth, after any moves of bags between containers.
WeightIsExact ==
  \A b \in Holders :
    InGame(b) => totalWeight[b] = SumFunction([i \in Inside(b) |-> OwnWeight(i)])

\* Splitting, merging and moving piles neither makes nor loses a unit, except
\* for a slot past the capacity of a container with pagination.
UnitsAccounted == UnitsOf(Piles) = units

\* A container that lies in a root never holds more items or containers than
\* the configured limits, at any depth.
BranchesAreBounded ==
  \A b \in Bags : within[b] \in Roots =>
    /\ Cardinality(Inside(b)) <= MaxItems
    /\ Cardinality(Inside(b) \cap Bags) <= MaxContainer

\* After any moves the containers are a forest that agrees with the parents of
\* its items, with exact weights, all units, and its limits kept.
ContainersAgree ==
  /\ ContainersTypeOK /\ NoneInsideItself /\ WeightIsExact
  /\ UnitsAccounted /\ BranchesAreBounded
=============================================================================
