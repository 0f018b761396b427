------------------------------- MODULE Trade -------------------------------
(***************************************************************************)
(* Trade between players: the trade handlers of src/game/game.cpp and the  *)
(* notifications of src/creatures/players/player.cpp that close a trade    *)
(* when an offered item, its contents or one of the partners changes.      *)
(*                                                                         *)
(* All of it runs on the dispatcher thread, one handler at a time.         *)
(* TRADE_TRANSFER is only set inside playerAcceptTrade, where it turns the *)
(* notifications of its own moves off, so no state shows it.               *)
(*                                                                         *)
(* Positions lie on a line.  Items lie at GroundSpot, are carried by a     *)
(* player, or are in a bag that is one or the other; bags are not nested.  *)
(***************************************************************************)
EXTENDS Integers, FiniteSets

CONSTANTS
  Players,
  Items,
  Bags,        \* the items that are containers
  Stackable,   \* the items that merge with a stack of their kind
  Perishable,  \* the items that are used up, transformed or decay in place
  HasStack,    \* players that carry a stack with room for such an item
  Slots,       \* how many items a player carries outside his bags
  BagSize,     \* how many a bag holds
  Positions,
  Blocked,     \* pairs {a, b} of positions without a line of sight
  GroundSpot,
  Ground,
  None

ASSUME TradeAssumption ==
  /\ Bags \subseteq Items /\ Stackable \subseteq Items \ Bags
  /\ HasStack \subseteq Players /\ Perishable \subseteq Items
  /\ Slots \in Nat /\ BagSize \in Nat /\ IsFiniteSet(Items)
  /\ Positions \subseteq Int /\ GroundSpot \in Positions
  /\ {Ground, None} \cap (Players \cup Items) = {} /\ Players \cap Items = {}

VARIABLES
  present,     \* players in the game
  pos,
  loc,         \* what holds an item: Ground, a player or a bag
  face,        \* the look of an item: its count, type and attributes
  trade,       \* tradeState, tradePartner and tradeItem of each player
  tradeItems,  \* Game::tradeItems
  shown        \* history: the offer as it looked when it was made

tradeVars == <<present, pos, loc, face, trade, tradeItems, shown>>

TradeStates == {"NONE", "INITIATED", "ACKNOWLEDGE", "ACCEPT"}
NoTrade == [state |-> "NONE", partner |-> None, item |-> None]

\* The initial items are carried or on the ground.
TradeInit ==
  /\ present = Players
  /\ pos \in [Players -> {GroundSpot}]
  /\ loc \in [Items -> Players \cup {Ground}]
  /\ \A p \in Players : Cardinality({i \in Items : loc[i] = p}) <= Slots
  /\ face = [i \in Items |-> 0]
  /\ trade = [p \in Players |-> NoTrade]
  /\ tradeItems = {}
  /\ shown = [p \in Players |-> None]

-----------------------------------------------------------------------------
Distance(a, b) == IF a > b THEN a - b ELSE b - a

Contents(b) == {i \in Items : loc[i] = b}

TopParent(i, where) == IF where[i] \in Bags THEN where[where[i]] ELSE where[i]

\* The item is carried by the player or lies next to a player at position a.
InReach(p, a, i) ==
  \/ TopParent(i, loc) = p
  \/ TopParent(i, loc) = Ground /\ Distance(a, GroundSpot) <= 1

\* Where queryDestination puts an item that is not stacked: a free slot, else
\* a bag the player carries and does not offer.
Destinations(p, where, i) ==
  IF Cardinality({j \in Items : where[j] = p}) < Slots THEN {p}
  ELSE IF i \in Bags THEN {}
  ELSE {b \in Bags \ {trade[p].item} :
          where[b] = p /\ Cardinality({j \in Items : where[j] = b}) < BagSize}

\* internalAddItem(..., test = true), which may stack.
Fits(p, i) ==
  Destinations(p, loc, i) # {} \/ (i \in Stackable /\ p \in HasStack)

What(i) == <<loc[i], face[i], Contents(i), {<<j, face[j]>> : j \in Contents(i)}>>

WithPartners(P) == P \cup ({trade[p].partner : p \in P} \ {None})

\* internalCloseTrade of the players P, which closes their partners' side too.
Close(P) ==
  LET Q == WithPartners(P) IN
  /\ trade' = [p \in Players |-> IF p \in Q THEN NoTrade ELSE trade[p]]
  /\ tradeItems' = tradeItems \ {trade[p].item : p \in Q}
  /\ shown' = [p \in Players |-> IF p \in Q THEN None ELSE shown[p]]

-----------------------------------------------------------------------------

\* The item is offered, holds an offered item or is in one.
AlreadyTraded(i) ==
  \E j \in tradeItems : i = j \/ loc[j] = i \/ loc[i] = j

\* The two refusals of internalStartTrade.
CanStart(p, q) ==
  /\ \/ trade[p].state = "NONE"
     \/ trade[p].state = "ACKNOWLEDGE" /\ trade[p].partner = q
  /\ trade[q].state = "NONE" \/ trade[q].partner = p

Sees(p, q) == {pos[p], pos[q]} \notin Blocked

\* playerRequestTrade and internalStartTrade.  An item out of reach makes the
\* player walk to it and request again.
RequestTrade(p, q, i) ==
  /\ {p, q} \subseteq present /\ p # q
  /\ Distance(pos[p], pos[q]) <= 2 /\ Sees(p, q)
  /\ InReach(p, pos[p], i)
  /\ ~AlreadyTraded(i)
  /\ CanStart(p, q)
  /\ trade' = [trade EXCEPT
       ![p] = [state |-> "INITIATED", partner |-> q, item |-> i],
       ![q] = IF @.state = "NONE"
              THEN [state |-> "ACKNOWLEDGE", partner |-> p, item |-> None] ELSE @]
  /\ tradeItems' = tradeItems \cup {i}
  /\ shown' = [shown EXCEPT ![p] = What(i)]
  /\ UNCHANGED <<present, pos, loc, face>>

CanAccept(p) ==
  /\ p \in present
  /\ trade[p].state \in {"ACKNOWLEDGE", "INITIATED"}
  /\ Sees(p, trade[p].partner)

\* playerAcceptTrade before the partner has accepted.
AcceptFirst(p) ==
  /\ CanAccept(p)
  /\ trade[trade[p].partner].state # "ACCEPT"
  /\ trade' = [trade EXCEPT ![p].state = "ACCEPT"]
  /\ UNCHANGED <<present, pos, loc, face, tradeItems, shown>>

\* mutant: the second move does not wait for the first one.
ExchangeEach(p, q, i, j) ==
  LET to == Destinations(q, loc, i)
      back == Destinations(p, loc, j)
  IN  /\ to = {} /\ back # {}
      /\ \E d \in back : loc' = [loc EXCEPT ![j] = d]

\* The two moves of playerAcceptTrade.  They do not stack, and the result of
\* the second is ignored.
Exchange(p, q, i, j) ==
  \E d \in Destinations(q, loc, i) :
    LET moved == [loc EXCEPT ![i] = d]
        back == Destinations(p, moved, j)
    IN  IF back = {} THEN loc' = moved
        ELSE \E e \in back : loc' = [moved EXCEPT ![j] = e]

\* playerAcceptTrade after the partner has accepted.  A script, a missing
\* counter-offer, or a player without room or capacity for what he is to get
\* ends the trade without an exchange.
AcceptSecond(p) ==
  /\ CanAccept(p)
  /\ LET q == trade[p].partner
         i == trade[p].item
         j == trade[q].item
     IN  /\ trade[q].state = "ACCEPT"
         /\ \/ UNCHANGED loc
            \/ /\ i # None /\ j # None
               /\ Fits(q, i) /\ Fits(p, j)
               /\ Exchange(p, q, i, j)
         /\ Close({p})
  /\ UNCHANGED <<present, pos, face>>

CloseTrade(p) ==
  /\ p \in present
  /\ Close({p})
  /\ UNCHANGED <<present, pos, loc, face>>

-----------------------------------------------------------------------------
\* mutant: checkTradeState only compares the item itself.
OffersOfItself(i) == {p \in Players : trade[p].item = i}

\* checkTradeState: the players whose offer is the item or a bag around it.
OffersOf(i) == {p \in Players : trade[p].item # None /\ trade[p].item \in {i, loc[i]}}

\* onRemoveTileItem and its inventory and container forms also look for an
\* offer inside a bag that is taken away.
OffersIn(i) == {p \in Players : trade[p].item # None /\ loc[trade[p].item] = i}

\* A player moves an item; adding it to a bag notifies about the bag.
MoveItem(p, i, d) ==
  /\ p \in present
  /\ InReach(p, pos[p], i)
  /\ d # loc[i] /\ d # i
  /\ \/ d = Ground /\ Distance(pos[p], GroundSpot) <= 1
     \/ d = p /\ p \in Destinations(p, loc, i)
     \/ /\ d \in Bags /\ i \notin Bags /\ InReach(p, pos[p], d)
        /\ Cardinality(Contents(d)) < BagSize
  /\ loc' = [loc EXCEPT ![i] = d]
  /\ Close(OffersOf(i) \cup OffersIn(i) \cup {q \in Players : trade[q].item = d})
  /\ UNCHANGED <<present, pos, face>>

\* An item is used up, transformed or decays in place.
ChangeItem(i) ==
  /\ i \in Perishable /\ face[i] = 0
  /\ face' = [face EXCEPT ![i] = 1]
  /\ Close(OffersOf(i))
  /\ UNCHANGED <<present, pos, loc>>

\* What onCreatureMove looks at when the player has moved to a.
StaysNear(p, a) ==
  /\ trade[p].item # None => InReach(p, a, trade[p].item)
  /\ trade[p].partner # None => Distance(a, pos[trade[p].partner]) <= 2

Walk(p, a) ==
  /\ p \in present /\ a # pos[p]
  /\ pos' = [pos EXCEPT ![p] = a]
  /\ Close(IF StaysNear(p, a) THEN {} ELSE {p})
  /\ UNCHANGED <<present, loc, face>>

\* onRemoveCreature: logout and death.
LeaveGame(p) ==
  /\ p \in present
  /\ present' = present \ {p}
  /\ Close({p})
  /\ UNCHANGED <<pos, loc, face>>

EnterGame(p, a) ==
  /\ p \notin present
  /\ present' = present \cup {p}
  /\ pos' = [pos EXCEPT ![p] = a]
  /\ UNCHANGED <<loc, face, trade, tradeItems, shown>>

TradeNext ==
  \/ \E p \in Players :
       \/ \E q \in Players, i \in Items : RequestTrade(p, q, i)
       \/ AcceptFirst(p) \/ AcceptSecond(p) \/ CloseTrade(p)
       \/ \E i \in Items, d \in Bags \cup {p, Ground} : MoveItem(p, i, d)
       \/ \E a \in Positions : Walk(p, a) \/ EnterGame(p, a)
       \/ LeaveGame(p)
  \/ \E i \in Items : ChangeItem(i)

TradeSpec == TradeInit /\ [][TradeNext]_tradeVars

-----------------------------------------------------------------------------
(***************************************************************************)
(* Properties.                                                             *)
(***************************************************************************)

\* The trade state of the players, Game::tradeItems and the items' places keep
\* their types.
TradeTypeOK ==
  /\ present \subseteq Players
  /\ pos \in [Players -> Positions]
  /\ loc \in [Items -> Players \cup Bags \cup {Ground}]
  /\ trade \in [Players -> [state : TradeStates, partner : Players \cup {None},
                            item : Items \cup {None}]]
  /\ tradeItems \subseteq Items

\* Two players trade with each other or not at all: each is the other's
\* tradePartner, both are in the game and at most two squares apart, through
\* every request, walk, logout and cancellation.
PartnersAgree ==
  \A p \in Players :
    LET q == trade[p].partner IN
    IF q = None THEN trade[p] = NoTrade
    ELSE /\ trade[p].state # "NONE" /\ trade[q].partner = p
         /\ {p, q} \subseteq present /\ Distance(pos[p], pos[q]) <= 2

\* Game::tradeItems lists exactly the offered items, no item is offered twice,
\* and no offered bag holds another offered item: a bag cannot carry away what
\* a third player is trading.
OffersAreDisjoint ==
  /\ tradeItems = {trade[p].item : p \in Players} \ {None}
  /\ \A p, q \in Players :
       p # q /\ trade[p].item # None /\ trade[q].item # None =>
         trade[p].item # trade[q].item /\ loc[trade[p].item] # trade[q].item

\* An open offer is still what the partner was shown when it was made: the item
\* has not been moved, changed, filled or emptied since.
OfferIsAsShown ==
  \A p \in Players : trade[p].item # None => What(trade[p].item) = shown[p]

\* A carried item passes from one player to another only in an exchange that
\* gives him the other's offer: playerAcceptTrade never moves one side alone
\* (unless the offer that is given away lies on the ground).
ExchangeIsWhole ==
  [][\A p, q \in Players :
       p # q /\ (\E i \in Items : TopParent(i, loc) = p /\ TopParent(i, loc') = q) =>
         trade[q].item # None /\ TopParent(trade[q].item, loc') = p]_tradeVars

\* Whatever the players do, an open trade is one that both partners know of,
\* over offers that nobody else makes and that are still what was shown.
TradesAgree == TradeTypeOK /\ PartnersAgree /\ OffersAreDisjoint /\ OfferIsAsShown
=============================================================================
