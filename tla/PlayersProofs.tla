--------------------------- MODULE PlayersProofs ----------------------------
(***************************************************************************)
(* Proofs about what players do with each other and with their goods:      *)
(* chat, house, market, party, trade and money.  The parts share no state. *)
(***************************************************************************)
EXTENDS Trade, Chat, House, Party, Market, Bank, VectorLemmas

-----------------------------------------------------------------------------
(***************************************************************************)
(* Trade: a step either leaves an offer, its contents and its bag          *)
(* untouched or closes the trade.  With the room of slots and bags this    *)
(* also shows that an exchange is whole.                                   *)
(***************************************************************************)

\* The trade fields of a player.
TradeRecords ==
  [state : TradeStates, partner : Players \cup {None}, item : Items \cup {None}]

\* A player who has offered nothing has no item, nobody trades with himself, and
\* an offer stays with its player or on the ground.
OffersAreOwn ==
  \A p \in Players :
    /\ trade[p].partner # p
    /\ trade[p].state \in {"NONE", "ACKNOWLEDGE"} => trade[p].item = None
    /\ trade[p].item # None => TopParent(trade[p].item, loc) \in {p, Ground}

\* The inductive invariant of the trades.
TradeInv ==
  /\ TradesAgree /\ OffersAreOwn
  /\ DOMAIN face = Items /\ shown = [r \in Players |-> shown[r]]

\* The item x and what is in it are as they were, and so is who carries it.
Untouched(x) ==
  /\ loc'[x] = loc[x] /\ face'[x] = face[x]
  /\ \A j \in Items : loc'[j] = x <=> loc[j] = x
  /\ \A j \in Items : loc[j] = x => face'[j] = face[j]
  /\ loc[x] \in Bags => loc'[loc[x]] = loc[loc[x]]

\* Nobody trades at start.
LEMMA TradeInitInv == TradeInit => TradeInv
<1> SUFFICES ASSUME TradeInit PROVE TradeInv
  OBVIOUS
<1>1. \A p \in Players : trade[p] = NoTrade
  BY DEF TradeInit
<1>2. NoTrade.state = "NONE" /\ NoTrade.partner = None /\ NoTrade.item = None
  BY DEF NoTrade
<1>3. TradeTypeOK
  BY TradeAssumption DEF TradeInit, TradeTypeOK, NoTrade, TradeStates
<1>4. PartnersAgree
  BY <1>1, <1>2 DEF PartnersAgree
<1>5. OffersAreDisjoint /\ OfferIsAsShown
  BY <1>1, <1>2 DEF OffersAreDisjoint, OfferIsAsShown, TradeInit
<1>6. OffersAreOwn
  BY <1>1, <1>2, TradeAssumption DEF OffersAreOwn
<1>7. DOMAIN face = Items /\ shown = [r \in Players |-> shown[r]]
  BY DEF TradeInit
<1>8. QED
  BY <1>3, <1>4, <1>5, <1>6, <1>7 DEF TradeInv, TradesAgree

\* Closing trades takes whole pairs of partners out, and leaves those whose offers
\* and places have not changed.
LEMMA CloseKeeps ==
  ASSUME TradeInv, NEW P \in SUBSET Players, Close(P),
         loc' \in [Items -> Players \cup Bags \cup {Ground}],
         pos' \in [Players -> Positions], present' \subseteq Players, DOMAIN face' = Items,
         \A r \in Players \ WithPartners(P) :
           trade[r].partner # None =>
             /\ {r, trade[r].partner} \subseteq present'
             /\ Distance(pos'[r], pos'[trade[r].partner]) <= 2,
         \A r \in Players \ WithPartners(P) :
           trade[r].item # None => Untouched(trade[r].item)
  PROVE  TradeInv'
<1> DEFINE Q == WithPartners(P)
<1>1. /\ \A p \in Players : trade[p] \in TradeRecords
      /\ tradeItems \subseteq Items /\ None \notin Items /\ None \notin Players
  BY TradeAssumption DEF TradeInv, TradesAgree, TradeTypeOK, TradeRecords
<1>2. Q \subseteq Players
  BY <1>1 DEF WithPartners, TradeRecords
<1>3. \A r \in Players \ Q : trade[r].partner \notin Q
  <2>1. SUFFICES ASSUME NEW r \in Players, r \notin Q, trade[r].partner \in Q PROVE FALSE
    OBVIOUS
  <2>2. trade[r].partner # None
    BY <1>1, <1>2, <2>1
  <2>3. trade[trade[r].partner].partner = r
    BY <2>2 DEF TradeInv, TradesAgree, PartnersAgree
  <2>4. CASE trade[r].partner \in P
    BY <1>1, <2>1, <2>3, <2>4 DEF WithPartners
  <2>5. CASE \E p \in P : trade[r].partner = trade[p].partner /\ trade[p].partner # None
    <3>1. PICK p \in P : trade[r].partner = trade[p].partner /\ trade[p].partner # None
      BY <2>5
    <3>2. trade[trade[p].partner].partner = p
      BY <3>1 DEF TradeInv, TradesAgree, PartnersAgree
    <3>3. QED
      BY <2>1, <2>3, <3>1, <3>2 DEF WithPartners
  <2>6. QED
    BY <2>1, <2>4, <2>5 DEF WithPartners
<1>4. /\ \A p \in Q : trade'[p] = NoTrade
      /\ \A p \in Players \ Q : trade'[p] = trade[p] /\ shown'[p] = shown[p]
      /\ tradeItems' = tradeItems \ {trade[p].item : p \in Q}
      /\ shown' = [r \in Players |-> shown'[r]]
      /\ trade' \in [Players -> TradeRecords]
  <2>1. NoTrade \in TradeRecords
    BY DEF NoTrade, TradeRecords, TradeStates
  <2>2. QED
    BY <1>1, <1>2, <2>1 DEF Close
<1>5. NoTrade.state = "NONE" /\ NoTrade.partner = None /\ NoTrade.item = None
  BY DEF NoTrade
<1> HIDE DEF Q
<1>6. TradeTypeOK'
  BY <1>1, <1>4 DEF TradeTypeOK, TradeRecords
<1>7. PartnersAgree'
  <2>1. ASSUME NEW p \in Players
        PROVE  IF trade'[p].partner = None THEN trade'[p] = NoTrade
               ELSE /\ trade'[p].state # "NONE" /\ trade'[trade'[p].partner].partner = p
                    /\ {p, trade'[p].partner} \subseteq present'
                    /\ Distance(pos'[p], pos'[trade'[p].partner]) <= 2
    <3>1. CASE p \in Q
      BY <1>4, <1>5, <3>1
    <3>2. CASE p \notin Q
      <4>1. trade'[p] = trade[p]
        BY <1>4, <3>2
      <4>2. CASE trade[p].partner = None
        BY <4>1, <4>2 DEF TradeInv, TradesAgree, PartnersAgree
      <4>3. CASE trade[p].partner # None
        <5>1. /\ trade[p].partner \in Players \ Q
              /\ trade[p].state # "NONE" /\ trade[trade[p].partner].partner = p
          BY <1>1, <1>3, <3>2, <4>3 DEF TradeInv, TradesAgree, PartnersAgree, TradeRecords
        <5>2. trade'[trade[p].partner] = trade[trade[p].partner]
          BY <1>4, <5>1
        <5>3. /\ {p, trade[p].partner} \subseteq present'
              /\ Distance(pos'[p], pos'[trade[p].partner]) <= 2
          BY <3>2, <4>3 DEF Q
        <5>4. QED
          BY <4>1, <4>3, <5>1, <5>2, <5>3
      <4>4. QED
        BY <4>2, <4>3
    <3>3. QED
      BY <3>1, <3>2
  <2>2. QED
    BY <2>1 DEF PartnersAgree
<1>8. OffersAreDisjoint'
  <2>1. \A p, q \in Players : p # q /\ trade[p].item # None /\ trade[q].item # None =>
          trade[p].item # trade[q].item /\ loc[trade[p].item] # trade[q].item
    BY DEF TradeInv, TradesAgree, OffersAreDisjoint
  <2>2. tradeItems = {trade[p].item : p \in Players} \ {None}
    BY DEF TradeInv, TradesAgree, OffersAreDisjoint
  <2>3. tradeItems' = {trade'[p].item : p \in Players} \ {None}
    <3>1. ASSUME NEW x \in tradeItems' PROVE x \in {trade'[p].item : p \in Players} \ {None}
      <4>1. PICK p \in Players : x = trade[p].item
        BY <1>4, <2>2
      <4>2. p \notin Q /\ x # None
        BY <1>4, <2>2, <4>1
      <4>3. QED
        BY <1>4, <4>1, <4>2
    <3>2. ASSUME NEW p \in Players, trade'[p].item # None PROVE trade'[p].item \in tradeItems'
      <4>1. p \notin Q /\ trade'[p].item = trade[p].item
        BY <1>4, <1>5, <3>2
      <4>2. trade[p].item \in tradeItems
        BY <2>2, <3>2, <4>1
      <4>3. \A q \in Q : trade[q].item # trade[p].item
        BY <1>2, <2>1, <3>2, <4>1 DEF Q
      <4>4. QED
        BY <1>4, <4>1, <4>2, <4>3
    <3>3. QED
      BY <3>1, <3>2
  <2>4. ASSUME NEW p \in Players, NEW q \in Players, p # q, trade'[p].item # None,
               trade'[q].item # None
        PROVE  trade'[p].item # trade'[q].item /\ loc'[trade'[p].item] # trade'[q].item
    <3>1. p \notin Q /\ q \notin Q
      BY <1>4, <1>5, <2>4
    <3>2. trade'[p] = trade[p] /\ trade'[q] = trade[q]
      BY <1>4, <3>1
    <3>3. loc'[trade[p].item] = loc[trade[p].item]
      BY <2>4, <3>1, <3>2 DEF Untouched, Q
    <3>4. QED
      BY <2>1, <2>4, <3>2, <3>3
  <2>5. QED
    BY <2>3, <2>4 DEF OffersAreDisjoint
<1>9. OfferIsAsShown'
  <2>1. SUFFICES ASSUME NEW p \in Players, trade'[p].item # None
                 PROVE  What(trade[p].item)' = shown'[p]
    BY DEF OfferIsAsShown
  <2>2. p \notin Q /\ trade'[p] = trade[p] /\ shown'[p] = shown[p]
    BY <1>4, <1>5, <2>1
  <2> DEFINE x == trade[p].item
  <2>3. What(x) = shown[p]
    BY <2>1, <2>2 DEF TradeInv, TradesAgree, OfferIsAsShown
  <2>4. Untouched(x)
    BY <2>1, <2>2 DEF Q
  <2>5. {i \in Items : loc'[i] = x} = {i \in Items : loc[i] = x}
    BY <2>4 DEF Untouched
  <2>6. {<<j, face'[j]>> : j \in {i \in Items : loc'[i] = x}}
          = {<<j, face[j]>> : j \in {i \in Items : loc[i] = x}}
    BY <2>4, <2>5 DEF Untouched
  <2>7. What(trade[p].item)' = <<loc'[x], face'[x], {i \in Items : loc'[i] = x},
                        {<<j, face'[j]>> : j \in {i \in Items : loc'[i] = x}}>>
    BY <2>2 DEF What, Contents
  <2>8. What(x) = <<loc[x], face[x], {i \in Items : loc[i] = x},
                    {<<j, face[j]>> : j \in {i \in Items : loc[i] = x}}>>
    BY DEF What, Contents
  <2>9. loc'[x] = loc[x] /\ face'[x] = face[x]
    BY <2>4 DEF Untouched
  <2> HIDE DEF x
  <2>10. QED
    BY <2>2, <2>3, <2>5, <2>6, <2>7, <2>8, <2>9
<1>10. OffersAreOwn'
  <2>1. SUFFICES ASSUME NEW p \in Players
                 PROVE  /\ trade'[p].partner # p
                        /\ trade'[p].state \in {"NONE", "ACKNOWLEDGE"} => trade'[p].item = None
                        /\ trade'[p].item # None => TopParent(trade'[p].item, loc') \in {p, Ground}
    BY DEF OffersAreOwn
  <2>2. CASE p \in Q
    BY <1>1, <1>4, <1>5, <2>2
  <2>3. CASE p \notin Q
    <3>1. trade'[p] = trade[p]
      BY <1>4, <2>3
    <3>2. trade[p].item # None => TopParent(trade[p].item, loc') = TopParent(trade[p].item, loc)
      BY <2>3 DEF Untouched, TopParent, Q
    <3>3. QED
      BY <3>1, <3>2 DEF TradeInv, OffersAreOwn
  <2>4. QED
    BY <2>2, <2>3
<1>11. QED
  BY <1>4, <1>6, <1>7, <1>8, <1>9, <1>10 DEF TradeInv, TradesAgree

\* A step that only moves items of M, away from and not into x and what holds it,
\* leaves x as it was.
LEMMA MovesElsewhere ==
  ASSUME TradeInv, NEW x \in Items, NEW M \in SUBSET Items, face' = face,
         x \notin M, loc[x] \notin M,
         \A k \in Items \cup Bags : k \notin M => loc'[k] = loc[k],
         \A k \in M : loc[k] # x /\ loc'[k] # x
  PROVE  Untouched(x)
<1>1. \A j \in Items : loc'[j] = x <=> loc[j] = x
  BY DEF Untouched
<1>2. loc[x] \in Bags => loc'[loc[x]] = loc[loc[x]]
  BY TradeAssumption
<1>3. QED
  BY <1>1, <1>2 DEF Untouched

\* The types the steps need.
LEMMA TradeParts ==
  ASSUME TradeInv
  PROVE  /\ \A r \in Players : trade[r] \in TradeRecords
         /\ trade \in [Players -> TradeRecords]
         /\ loc \in [Items -> Players \cup Bags \cup {Ground}]
         /\ pos \in [Players -> Positions] /\ present \subseteq Players
         /\ DOMAIN face = Items /\ shown = [r \in Players |-> shown[r]]
         /\ tradeItems \subseteq Items
         /\ None \notin Items /\ None \notin Players /\ Bags \subseteq Items
         /\ Players \cap Items = {} /\ Ground \notin Players /\ Ground \notin Items
  BY TradeAssumption DEF TradeInv, TradesAgree, TradeTypeOK, TradeRecords

\* A player's partner is another player, in the game, who trades with him.
LEMMA PartnerFacts ==
  ASSUME TradeInv, NEW r \in Players
  PROVE  /\ trade[r].partner = None => trade[r] = NoTrade
         /\ trade[r].partner # None =>
              /\ trade[r].partner \in Players /\ trade[r].partner # r
              /\ trade[r].state # "NONE" /\ trade[trade[r].partner].partner = r
              /\ {r, trade[r].partner} \subseteq present
              /\ Distance(pos[r], pos[trade[r].partner]) <= 2
<1>1. trade[r].partner \in Players \cup {None}
  BY TradeParts DEF TradeRecords
<1>2. QED
  BY <1>1 DEF TradeInv, TradesAgree, PartnersAgree, OffersAreOwn

\* Two offers are different items, neither in the other.
LEMMA OfferFacts ==
  ASSUME TradeInv, NEW r \in Players, trade[r].item # None
  PROVE  /\ trade[r].item \in Items /\ trade[r].item \in tradeItems
         /\ TopParent(trade[r].item, loc) \in {r, Ground}
         /\ \A q \in Players \ {r} : trade[q].item # None =>
              /\ trade[q].item # trade[r].item
              /\ loc[trade[q].item] # trade[r].item /\ loc[trade[r].item] # trade[q].item
<1>1. trade[r].item \in Items \cup {None}
  BY TradeParts DEF TradeRecords
<1>2. QED
  BY <1>1 DEF TradeInv, TradesAgree, OffersAreDisjoint, OffersAreOwn

\* Closing a trade closes both sides.
LEMMA CloseTradeInv ==
  ASSUME TradeInv, NEW p \in Players, CloseTrade(p) PROVE TradeInv'
<1>1. \A r \in Players : trade[r].item # None => Untouched(trade[r].item)
  <2>1. SUFFICES ASSUME NEW r \in Players, trade[r].item # None PROVE Untouched(trade[r].item)
    OBVIOUS
  <2>2. QED
    BY OfferFacts, <2>1, MovesElsewhere DEF CloseTrade, Untouched
<1>2. \A r \in Players : trade[r].partner # None =>
        /\ {r, trade[r].partner} \subseteq present'
        /\ Distance(pos'[r], pos'[trade[r].partner]) <= 2
  BY PartnerFacts DEF CloseTrade
<1>3. Close({p}) /\ UNCHANGED <<present, pos, loc, face>>
  BY DEF CloseTrade
<1>4. QED
  BY <1>1, <1>2, <1>3, CloseKeeps, TradeParts

\* The first acceptance changes only the state of the one who accepts.
LEMMA AcceptFirstInv ==
  ASSUME TradeInv, NEW p \in Players, AcceptFirst(p) PROVE TradeInv'
<1>1. /\ trade' = [trade EXCEPT ![p].state = "ACCEPT"]
      /\ UNCHANGED <<present, pos, loc, face, tradeItems, shown>>
      /\ trade[p].state # "NONE"
  BY DEF AcceptFirst, CanAccept
<1>2. /\ trade' \in [Players -> TradeRecords]
      /\ \A r \in Players : /\ trade'[r].partner = trade[r].partner
                            /\ trade'[r].item = trade[r].item
                            /\ r # p => trade'[r] = trade[r]
      /\ trade'[p].state = "ACCEPT"
  BY <1>1, TradeParts DEF TradeRecords, TradeStates
<1>3. TradeTypeOK'
  BY <1>1, <1>2, TradeParts DEF TradeTypeOK, TradeRecords
<1>4. PartnersAgree'
  <2>1. trade[p].partner # None
    BY <1>1, PartnerFacts DEF NoTrade
  <2>2. SUFFICES ASSUME NEW r \in Players
                 PROVE  IF trade'[r].partner = None THEN trade'[r] = NoTrade
                        ELSE /\ trade'[r].state # "NONE" /\ trade'[trade'[r].partner].partner = r
                             /\ {r, trade'[r].partner} \subseteq present'
                             /\ Distance(pos'[r], pos'[trade'[r].partner]) <= 2
    BY DEF PartnersAgree
  <2>3. QED
    BY <1>1, <1>2, <2>1, PartnerFacts
<1>5. OffersAreDisjoint'
  <2>1. {trade'[r].item : r \in Players} = {trade[r].item : r \in Players}
    BY <1>2
  <2>2. QED
    BY <1>1, <1>2, <2>1 DEF OffersAreDisjoint, TradeInv, TradesAgree
<1>6. OfferIsAsShown'
  <2>1. SUFFICES ASSUME NEW r \in Players, trade[r].item # None
                 PROVE  What(trade[r].item)' = shown'[r]
    BY <1>2 DEF OfferIsAsShown
  <2>2. What(trade[r].item)' = What(trade[r].item)
    BY <1>1, <1>2 DEF What, Contents
  <2>3. QED
    BY <1>1, <2>1, <2>2 DEF OfferIsAsShown, TradeInv, TradesAgree
<1>7. OffersAreOwn'
  BY <1>1, <1>2 DEF OffersAreOwn, TradeInv, TopParent
<1>8. QED
  BY <1>1, <1>3, <1>4, <1>5, <1>6, <1>7 DEF TradeInv, TradesAgree

\* A request makes two players partners, over an item that touches no other offer.
LEMMA RequestTradeInv ==
  ASSUME TradeInv, NEW p \in Players, NEW q \in Players, NEW i \in Items,
         RequestTrade(p, q, i)
  PROVE  TradeInv'
<1> DEFINE offer == [state |-> "INITIATED", partner |-> q, item |-> i]
           asked == [state |-> "ACKNOWLEDGE", partner |-> p, item |-> None]
<1>1. /\ {p, q} \subseteq present /\ p # q /\ Distance(pos[p], pos[q]) <= 2
      /\ InReach(p, pos[p], i) /\ ~AlreadyTraded(i) /\ CanStart(p, q)
      /\ trade' = [trade EXCEPT ![p] = offer,
                                ![q] = IF @.state = "NONE" THEN asked ELSE @]
      /\ tradeItems' = tradeItems \cup {i}
      /\ shown' = [shown EXCEPT ![p] = What(i)]
      /\ UNCHANGED <<present, pos, loc, face>>
  BY DEF RequestTrade
<1>2. offer \in TradeRecords /\ asked \in TradeRecords
  BY DEF TradeRecords, TradeStates
<1>3. /\ offer.state = "INITIATED" /\ offer.partner = q /\ offer.item = i
      /\ asked.state = "ACKNOWLEDGE" /\ asked.partner = p /\ asked.item = None
  OBVIOUS
<1> HIDE DEF offer, asked
<1>4. /\ trade'[p] = offer
      /\ trade'[q] = IF trade[q].state = "NONE" THEN asked ELSE trade[q]
      /\ \A r \in Players \ {p, q} : trade'[r] = trade[r]
      /\ trade' \in [Players -> TradeRecords]
  BY <1>1, <1>2, TradeParts
<1>5. NoTrade.state = "NONE" /\ NoTrade.partner = None /\ NoTrade.item = None
  BY DEF NoTrade
<1>6. \A r \in Players : trade[r].state = "NONE" => trade[r] = NoTrade
  BY PartnerFacts
<1>7. trade[p].item = None /\ trade[p].partner \in {None, q}
  BY <1>1, <1>5, <1>6 DEF CanStart, TradeInv, OffersAreOwn
<1>8. trade[q].partner \in {None, p}
  BY <1>1, <1>5, <1>6 DEF CanStart
<1>9. \A r \in Players \ {p, q} : trade[r].partner \notin {p, q}
  BY <1>7, <1>8, PartnerFacts, TradeParts
<1>10. /\ trade'[q].partner = p /\ trade'[q].state # "NONE" /\ trade'[q].item = trade[q].item
       /\ trade'[q].state \in {"NONE", "ACKNOWLEDGE"} => trade'[q].item = None
  <2>1. CASE trade[q].state = "NONE"
    BY <1>3, <1>4, <1>5, <1>6, <2>1
  <2>2. CASE trade[q].state # "NONE"
    BY <1>1, <1>4, <2>2 DEF CanStart, TradeInv, OffersAreOwn
  <2>3. QED
    BY <2>1, <2>2
<1>11. TradeTypeOK'
  BY <1>1, <1>4, TradeParts DEF TradeTypeOK, TradeRecords
<1>12. PartnersAgree'
  <2>1. SUFFICES ASSUME NEW r \in Players
                 PROVE  IF trade'[r].partner = None THEN trade'[r] = NoTrade
                        ELSE /\ trade'[r].state # "NONE" /\ trade'[trade'[r].partner].partner = r
                             /\ {r, trade'[r].partner} \subseteq present'
                             /\ Distance(pos'[r], pos'[trade'[r].partner]) <= 2
    BY DEF PartnersAgree
  <2>2. CASE r = p
    BY <1>1, <1>3, <1>4, <1>10, <2>2, TradeParts
  <2>3. CASE r = q
    <3>1. Distance(pos[q], pos[p]) <= 2
      <4>1. pos[p] \in Int /\ pos[q] \in Int
        BY TradeParts, TradeAssumption
      <4>2. QED
        BY <1>1, <4>1 DEF Distance
    <3>2. QED
      BY <1>1, <1>3, <1>4, <1>10, <2>3, <3>1, TradeParts
  <2>4. CASE r \notin {p, q}
    BY <1>1, <1>4, <1>9, <2>4, PartnerFacts
  <2>5. QED
    BY <2>2, <2>3, <2>4
<1>13. \A j \in tradeItems : i # j /\ loc[j] # i /\ loc[i] # j
  BY <1>1 DEF AlreadyTraded
<1>14. /\ trade'[p].item = i
       /\ \A r \in Players \ {p} : trade'[r].item = trade[r].item
  BY <1>3, <1>4, <1>10
<1>15. OffersAreDisjoint'
  <2>1. tradeItems = {trade[r].item : r \in Players} \ {None}
    BY DEF TradeInv, TradesAgree, OffersAreDisjoint
  <2>2. tradeItems' = {trade'[r].item : r \in Players} \ {None}
    BY <1>1, <1>7, <1>14, <2>1, TradeParts
  <2>3. ASSUME NEW r \in Players, NEW s \in Players, r # s, trade'[r].item # None,
               trade'[s].item # None
        PROVE  trade'[r].item # trade'[s].item /\ loc'[trade'[r].item] # trade'[s].item
    <3>1. CASE r = p
      BY <1>1, <1>13, <1>14, <2>1, <2>3, <3>1
    <3>2. CASE s = p
      BY <1>1, <1>13, <1>14, <2>1, <2>3, <3>2
    <3>3. CASE r # p /\ s # p
      BY <1>1, <1>14, <2>3, <3>3, OfferFacts
    <3>4. QED
      BY <3>1, <3>2, <3>3
  <2>4. QED
    BY <2>2, <2>3 DEF OffersAreDisjoint
<1>16. OfferIsAsShown'
  <2>1. ASSUME NEW r \in Players, trade'[r].item # None
        PROVE  What(trade[r].item)' = shown'[r]
    <3>1. What(trade[r].item)' = <<loc[trade'[r].item], face[trade'[r].item],
             {k \in Items : loc[k] = trade'[r].item},
             {<<k, face[k]>> : k \in {l \in Items : loc[l] = trade'[r].item}}>>
      BY <1>1 DEF What, Contents
    <3>2. CASE r = p
      BY <1>1, <1>14, <3>1, <3>2, TradeParts DEF What, Contents
    <3>3. CASE r # p
      <4>1. trade'[r].item = trade[r].item /\ shown'[r] = shown[r]
        BY <1>1, <1>14, <3>3, TradeParts
      <4>2. What(trade[r].item) = shown[r]
        BY <2>1, <4>1 DEF TradeInv, TradesAgree, OfferIsAsShown
      <4>3. QED
        BY <3>1, <4>1, <4>2 DEF What, Contents
    <3>4. QED
      BY <3>2, <3>3
  <2>2. QED
    BY <2>1 DEF OfferIsAsShown
<1>17. OffersAreOwn'
  <2>1. SUFFICES ASSUME NEW r \in Players
                 PROVE  /\ trade'[r].partner # r
                        /\ trade'[r].state \in {"NONE", "ACKNOWLEDGE"} => trade'[r].item = None
                        /\ trade'[r].item # None => TopParent(trade'[r].item, loc') \in {r, Ground}
    BY DEF OffersAreOwn
  <2>2. CASE r = p
    BY <1>1, <1>3, <1>4, <2>2 DEF InReach
  <2>3. CASE r = q
    BY <1>1, <1>10, <2>3 DEF TradeInv, OffersAreOwn
  <2>4. CASE r \notin {p, q}
    BY <1>1, <1>4, <2>4 DEF TradeInv, OffersAreOwn
  <2>5. QED
    BY <2>2, <2>3, <2>4
<1>18. QED
  BY <1>1, <1>11, <1>12, <1>15, <1>16, <1>17, TradeParts DEF TradeInv, TradesAgree

\* The trade is closed before the state is left: nothing of the offers that remain
\* has been moved.
LEMMA AcceptSecondInv ==
  ASSUME TradeInv, NEW p \in Players, AcceptSecond(p) PROVE TradeInv'
<1> DEFINE q == trade[p].partner
           i == trade[p].item
           j == trade[q].item
<1>1. /\ Close({p}) /\ UNCHANGED <<present, pos, face>>
      /\ trade[p].state # "NONE"
      /\ \/ UNCHANGED loc
         \/ i # None /\ j # None /\ Exchange(p, q, i, j)
  BY DEF AcceptSecond, CanAccept
<1>2. q \in Players /\ q # p /\ q # None
  BY <1>1, PartnerFacts DEF NoTrade
<1>3. WithPartners({p}) = {p, q}
  BY <1>2 DEF WithPartners
<1> HIDE DEF q
<1>4. /\ loc' \in [Items -> Players \cup Bags \cup {Ground}]
      /\ \A r \in Players \ {p, q} : trade[r].item # None => Untouched(trade[r].item)
  <2>1. CASE UNCHANGED loc
    <3>1. SUFFICES ASSUME NEW r \in Players \ {p, q}, trade[r].item # None
                   PROVE  Untouched(trade[r].item)
      BY <2>1, TradeParts
    <3>2. QED
      BY <1>1, <2>1 DEF Untouched
  <2>2. CASE i # None /\ j # None /\ Exchange(p, q, i, j)
    <3>1. /\ i \in Items /\ j \in Items /\ i # j
      BY <1>2, <2>2, OfferFacts
    <3> HIDE DEF i, j
    <3>2. PICK d \in Destinations(q, loc, i) :
            \/ loc' = [loc EXCEPT ![i] = d]
            \/ \E e \in Destinations(p, [loc EXCEPT ![i] = d], j) :
                 loc' = [[loc EXCEPT ![i] = d] EXCEPT ![j] = e]
      BY <2>2 DEF Exchange
    <3>3. d = q \/ (d \in Bags /\ loc[d] = q)
      BY <3>2 DEF Destinations
    <3>4. /\ \A k \in Items \ {i, j} : loc'[k] = loc[k]
          /\ loc'[i] = d
          /\ \/ loc'[j] = loc[j]
             \/ loc'[j] = p
             \/ loc'[j] \in Bags /\ loc[loc'[j]] = p
          /\ loc' \in [Items -> Players \cup Bags \cup {Ground}]
      <4>1. CASE loc' = [loc EXCEPT ![i] = d]
        BY <1>2, <3>1, <3>3, <4>1, TradeParts
      <4>2. CASE \E e \in Destinations(p, [loc EXCEPT ![i] = d], j) :
                   loc' = [[loc EXCEPT ![i] = d] EXCEPT ![j] = e]
        <5>1. PICK e \in Destinations(p, [loc EXCEPT ![i] = d], j) :
                loc' = [[loc EXCEPT ![i] = d] EXCEPT ![j] = e]
          BY <4>2
        <5>2. e = p \/ (e \in Bags /\ [loc EXCEPT ![i] = d][e] = p)
          BY DEF Destinations
        <5>3. e = p \/ (e \in Bags /\ loc[e] = p)
          <6>1. d # p
            BY <1>2, <3>3, TradeParts
          <6>2. QED
            BY <3>1, <5>2, <6>1, TradeParts
        <5>4. QED
          BY <1>2, <3>1, <3>3, <5>1, <5>3, TradeParts
      <4>3. QED
        BY <3>2, <4>1, <4>2
    <3>5. ASSUME NEW r \in Players \ {p, q}, trade[r].item # None
          PROVE  Untouched(trade[r].item)
      <4> DEFINE x == trade[r].item
      <4>1. x \in Items /\ TopParent(x, loc) \in {r, Ground}
        BY <3>5, OfferFacts
      <4>2. x \notin {i, j} /\ loc[x] \notin {i, j} /\ loc[i] # x /\ loc[j] # x
        BY <1>2, <2>2, <3>5, OfferFacts DEF i, j
      <4> HIDE DEF x
      <4>3. loc[x] # p /\ loc[x] # q
        BY <1>2, <3>5, <4>1, TradeParts DEF TopParent
      <4>4. loc'[i] # x /\ loc'[j] # x
        BY <1>2, <3>3, <3>4, <4>1, <4>2, <4>3, TradeParts
      <4>5. \A k \in Items \cup Bags : k \notin {i, j} => loc'[k] = loc[k]
        BY <3>4, TradeParts
      <4>6. \A k \in {i, j} : loc[k] # x /\ loc'[k] # x
        BY <4>2, <4>4
      <4>7. {i, j} \in SUBSET Items /\ face' = face
        BY <1>1, <3>1
      <4>8. Untouched(x)
        BY <4>1, <4>2, <4>5, <4>6, <4>7, MovesElsewhere
      <4>9. QED
        BY <4>8 DEF x
    <3>6. QED
      BY <3>4, <3>5
  <2>3. QED
    BY <1>1, <2>1, <2>2
<1>5. \A r \in Players : trade[r].partner # None =>
        /\ {r, trade[r].partner} \subseteq present'
        /\ Distance(pos'[r], pos'[trade[r].partner]) <= 2
  BY <1>1, PartnerFacts
<1>6. /\ pos' \in [Players -> Positions] /\ present' \subseteq Players
      /\ DOMAIN face' = Items
  BY <1>1, TradeParts
<1>7. {p} \in SUBSET Players /\ Close({p})
  BY <1>1
<1>8. QED
  BY <1>3, <1>4, <1>5, <1>6, <1>7, CloseKeeps

\* A moved item closes the trades over it, what is in it and what it goes into.
LEMMA MoveItemInv ==
  ASSUME TradeInv, NEW p \in Players, NEW i \in Items, NEW d \in Bags \cup {p, Ground},
         MoveItem(p, i, d)
  PROVE  TradeInv'
<1> DEFINE P == OffersOf(i) \cup OffersIn(i) \cup {r \in Players : trade[r].item = d}
<1>1. /\ loc' = [loc EXCEPT ![i] = d] /\ Close(P) /\ UNCHANGED <<present, pos, face>>
  BY DEF MoveItem
<1>2. P \in SUBSET Players
  BY DEF OffersOf, OffersIn
<1>3. loc' \in [Items -> Players \cup Bags \cup {Ground}]
  BY <1>1, TradeParts
<1>4. ASSUME NEW r \in Players \ WithPartners(P), trade[r].item # None
      PROVE  Untouched(trade[r].item)
  <2> DEFINE x == trade[r].item
  <2>1. r \notin P
    BY <1>4 DEF WithPartners
  <2>2. x \in Items
    BY <1>4, OfferFacts
  <2>3. x # i /\ loc[i] # x /\ loc[x] # i /\ x # d
    BY <1>4, <2>1, <2>2 DEF OffersOf, OffersIn
  <2> HIDE DEF x
  <2>4. /\ \A k \in Items \cup Bags : k \notin {i} => loc'[k] = loc[k]
        /\ loc'[i] = d
    BY <1>1, TradeParts
  <2>5. \A k \in {i} : loc[k] # x /\ loc'[k] # x
    BY <2>3, <2>4
  <2>6. {i} \in SUBSET Items /\ face' = face /\ x \notin {i} /\ loc[x] \notin {i}
    BY <1>1, <2>3
  <2>7. Untouched(x)
    BY <2>2, <2>4, <2>5, <2>6, MovesElsewhere
  <2>8. QED
    BY <2>7 DEF x
<1>5. \A r \in Players : trade[r].partner # None =>
        /\ {r, trade[r].partner} \subseteq present'
        /\ Distance(pos'[r], pos'[trade[r].partner]) <= 2
  BY <1>1, PartnerFacts
<1>6. /\ pos' \in [Players -> Positions] /\ present' \subseteq Players
      /\ DOMAIN face' = Items /\ Close(P)
  BY <1>1, TradeParts
<1> HIDE DEF P
<1>7. QED
  BY <1>2, <1>3, <1>4, <1>5, <1>6, CloseKeeps

\* A changed item closes the trades over it and its bag.
LEMMA ChangeItemInv ==
  ASSUME TradeInv, NEW i \in Items, ChangeItem(i) PROVE TradeInv'
<1>1. /\ face' = [face EXCEPT ![i] = 1] /\ Close(OffersOf(i))
      /\ UNCHANGED <<present, pos, loc>>
  BY DEF ChangeItem
<1>2. OffersOf(i) \in SUBSET Players
  BY DEF OffersOf
<1>3. ASSUME NEW r \in Players \ WithPartners(OffersOf(i)), trade[r].item # None
      PROVE  Untouched(trade[r].item)
  <2>1. r \notin OffersOf(i)
    BY <1>3 DEF WithPartners
  <2>2. trade[r].item # i /\ loc[i] # trade[r].item
    BY <1>3, <2>1 DEF OffersOf
  <2>3. QED
    BY <1>1, <2>2 DEF Untouched
<1>4. \A r \in Players : trade[r].partner # None =>
        /\ {r, trade[r].partner} \subseteq present'
        /\ Distance(pos'[r], pos'[trade[r].partner]) <= 2
  BY <1>1, PartnerFacts
<1>5. /\ pos' \in [Players -> Positions] /\ present' \subseteq Players
      /\ DOMAIN face' = Items /\ loc' \in [Items -> Players \cup Bags \cup {Ground}]
  BY <1>1, TradeParts
<1>6. QED
  BY <1>1, <1>2, <1>3, <1>4, <1>5, CloseKeeps

\* A walk closes the trades that it takes out of reach.
LEMMA WalkInv ==
  ASSUME TradeInv, NEW p \in Players, NEW a \in Positions, Walk(p, a) PROVE TradeInv'
<1> DEFINE P == IF StaysNear(p, a) THEN {} ELSE {p}
<1>1. /\ pos' = [pos EXCEPT ![p] = a] /\ Close(P) /\ UNCHANGED <<present, loc, face>>
  BY DEF Walk
<1>2. P \in SUBSET Players
  OBVIOUS
<1>3. \A r \in Players : trade[r].item # None => Untouched(trade[r].item)
  BY <1>1 DEF Untouched
<1>4. pos' \in [Players -> Positions] /\ pos'[p] = a
      /\ \A r \in Players \ {p} : pos'[r] = pos[r]
  BY <1>1, TradeParts
<1>5. ASSUME NEW r \in Players \ WithPartners(P), trade[r].partner # None
      PROVE  /\ {r, trade[r].partner} \subseteq present'
             /\ Distance(pos'[r], pos'[trade[r].partner]) <= 2
  <2>1. /\ {r, trade[r].partner} \subseteq present
        /\ Distance(pos[r], pos[trade[r].partner]) <= 2
        /\ trade[r].partner \in Players /\ trade[trade[r].partner].partner = r
        /\ trade[r].partner # r
    BY <1>5, PartnerFacts
  <2>2. CASE r # p /\ trade[r].partner # p
    BY <1>1, <1>4, <2>1, <2>2
  <2>3. CASE r = p
    <3>1. StaysNear(p, a)
      BY <1>5, <2>3 DEF WithPartners
    <3>2. Distance(a, pos[trade[r].partner]) <= 2
      BY <1>5, <2>3, <3>1 DEF StaysNear
    <3>3. QED
      BY <1>1, <1>4, <2>1, <2>3, <3>2
  <2>4. CASE trade[r].partner = p
    <3>1. trade[p].partner = r /\ r # None
      BY <2>1, <2>4, TradeParts
    <3>2. StaysNear(p, a)
      BY <1>5, <3>1 DEF WithPartners
    <3>3. Distance(a, pos[r]) <= 2
      BY <3>1, <3>2 DEF StaysNear
    <3>4. a \in Int /\ pos[r] \in Int
      BY TradeParts, TradeAssumption
    <3>5. Distance(pos[r], a) <= 2
      BY <3>3, <3>4 DEF Distance
    <3>6. QED
      BY <1>1, <1>4, <2>1, <2>4, <3>5
  <2>5. QED
    BY <2>2, <2>3, <2>4
<1>6. /\ present' \subseteq Players /\ DOMAIN face' = Items
      /\ loc' \in [Items -> Players \cup Bags \cup {Ground}]
  BY <1>1, TradeParts
<1> HIDE DEF P
<1>7. QED
  BY <1>1, <1>2, <1>3, <1>4, <1>5, <1>6, CloseKeeps

\* Who leaves the game trades with nobody.
LEMMA LeaveGameInv ==
  ASSUME TradeInv, NEW p \in Players, LeaveGame(p) PROVE TradeInv'
<1>1. present' = present \ {p} /\ Close({p}) /\ UNCHANGED <<pos, loc, face>>
  BY DEF LeaveGame
<1>2. \A r \in Players : trade[r].item # None => Untouched(trade[r].item)
  BY <1>1 DEF Untouched
<1>3. ASSUME NEW r \in Players \ WithPartners({p}), trade[r].partner # None
      PROVE  /\ {r, trade[r].partner} \subseteq present'
             /\ Distance(pos'[r], pos'[trade[r].partner]) <= 2
  <2>1. r # p /\ trade[p].partner # r
    BY <1>3, TradeParts DEF WithPartners
  <2>2. trade[r].partner # p
    BY <1>3, <2>1, PartnerFacts
  <2>3. QED
    BY <1>1, <1>3, <2>1, <2>2, PartnerFacts
<1>4. /\ present' \subseteq Players /\ DOMAIN face' = Items
      /\ loc' \in [Items -> Players \cup Bags \cup {Ground}] /\ pos' \in [Players -> Positions]
      /\ {p} \in SUBSET Players
  BY <1>1, TradeParts
<1>5. QED
  BY <1>1, <1>2, <1>3, <1>4, CloseKeeps

\* Who enters the game has no trade.
LEMMA EnterGameInv ==
  ASSUME TradeInv, NEW p \in Players, NEW a \in Positions, EnterGame(p, a) PROVE TradeInv'
<1>1. /\ p \notin present /\ present' = present \cup {p} /\ pos' = [pos EXCEPT ![p] = a]
      /\ UNCHANGED <<loc, face, trade, tradeItems, shown>>
  BY DEF EnterGame
<1>2. WithPartners({}) = {}
  BY DEF WithPartners
<1>3. Close({})
  BY <1>1, <1>2, TradeParts DEF Close
<1>4. \A r \in Players : trade[r].item # None => Untouched(trade[r].item)
  BY <1>1 DEF Untouched
<1>5. ASSUME NEW r \in Players, trade[r].partner # None
      PROVE  /\ {r, trade[r].partner} \subseteq present'
             /\ Distance(pos'[r], pos'[trade[r].partner]) <= 2
  <2>1. r # p /\ trade[r].partner # p
    BY <1>1, <1>5, PartnerFacts
  <2>2. QED
    BY <1>1, <1>5, <2>1, PartnerFacts, TradeParts
<1>6. /\ present' \subseteq Players /\ DOMAIN face' = Items
      /\ loc' \in [Items -> Players \cup Bags \cup {Ground}] /\ pos' \in [Players -> Positions]
      /\ {} \in SUBSET Players
  BY <1>1, TradeParts
<1>7. QED
  BY <1>3, <1>4, <1>5, <1>6, CloseKeeps

\* Every step keeps the invariant of the trades.
LEMMA TradeNextInv ==
  ASSUME TradeInv, [TradeNext]_tradeVars PROVE TradeInv'
<1>1. CASE TradeNext
  BY <1>1, RequestTradeInv, AcceptFirstInv, AcceptSecondInv, CloseTradeInv, MoveItemInv,
     ChangeItemInv, WalkInv, LeaveGameInv, EnterGameInv DEF TradeNext
<1>2. CASE UNCHANGED tradeVars
  BY <1>2 DEF tradeVars, TradeInv, TradesAgree, TradeTypeOK, PartnersAgree,
     OffersAreDisjoint, OfferIsAsShown, What, Contents, OffersAreOwn, TopParent
<1>3. QED
  BY <1>1, <1>2

\* Trade: for any players, items, bags and positions, two players trade with each
\* other or not at all, no offer holds or is another one, and an open offer is still
\* what the partner was shown.
THEOREM TradesStayAgreed == TradeSpec => []TradesAgree
<1>1. TradeInv /\ [TradeNext]_tradeVars => TradeInv'
  BY TradeNextInv
<1>2. TradeInv => TradesAgree
  BY DEF TradeInv
<1>3. QED
  BY <1>1, <1>2, TradeInitInv, PTL DEF TradeSpec

\* How many items a player or a bag holds when the items are at w.
Held(w, h) == Cardinality({j \in Items : w[j] = h})

\* Bags are not nested, and no player or bag holds more than it has room for.
RoomIn(w) ==
  /\ \A b \in Bags : w[b] \notin Bags
  /\ \A h \in Players : Held(w, h) <= Slots
  /\ \A b \in Bags : Held(w, b) <= BagSize

\* Where an item can be.
Places == Players \cup Bags \cup {Ground}

\* With finitely many items, holders can be counted.
LEMMA HeldIsNat ==
  ASSUME NEW w, NEW h PROVE Held(w, h) \in Nat
<1>1. IsFiniteSet({j \in Items : w[j] = h})
  BY TradeAssumption, FS_Subset
<1>2. QED
  BY <1>1, FS_CardinalityType DEF Held

\* A move adds at most one item to a holder, and takes one from the old one.
LEMMA HeldAfterMove ==
  ASSUME NEW w \in [Items -> Places], NEW i \in Items, NEW d, NEW h,
         NEW v, v = [w EXCEPT ![i] = d]
  PROVE  /\ Held(v, h) <= Held(w, h) + 1
         /\ h # d => Held(v, h) <= Held(w, h)
         /\ h # d /\ w[i] = h => Held(v, h) < Held(w, h)
<1> DEFINE W == {j \in Items : w[j] = h}
           V == {j \in Items : v[j] = h}
<1>1. IsFiniteSet(W) /\ IsFiniteSet(V)
  BY TradeAssumption, FS_Subset
<1>2. \A j \in Items : v[j] = IF j = i THEN d ELSE w[j]
  OBVIOUS
<1>3. V \subseteq W \cup {i}
  BY <1>2
<1>4. h # d => V \subseteq W
  BY <1>2
<1>5. h # d /\ w[i] = h => V \subseteq W \ {i} /\ i \in W
  BY <1>2
<1>6. Held(w, h) = Cardinality(W) /\ Held(v, h) = Cardinality(V)
  BY DEF Held
<1> HIDE DEF W, V
<1>7. Cardinality(W) \in Nat /\ Cardinality(V) \in Nat
  BY <1>1, FS_CardinalityType
<1>8. Cardinality(W \cup {i}) <= Cardinality(W) + 1 /\ IsFiniteSet(W \cup {i})
  <2>1. /\ IsFiniteSet(W \cup {i})
        /\ Cardinality(W \cup {i}) = IF i \in W THEN Cardinality(W) ELSE Cardinality(W) + 1
    BY <1>1, FS_AddElement
  <2>2. QED
    BY <1>7, <2>1
<1>9. Cardinality(V) <= Cardinality(W \cup {i})
  BY <1>3, <1>8, FS_Subset
<1>10. h # d => Cardinality(V) <= Cardinality(W)
  BY <1>1, <1>4, FS_Subset
<1>11. i \in W => /\ Cardinality(W \ {i}) = Cardinality(W) - 1
                  /\ IsFiniteSet(W \ {i})
  BY <1>1, FS_RemoveElement
<1>12. h # d /\ w[i] = h => Cardinality(V) <= Cardinality(W) - 1
  BY <1>1, <1>5, <1>11, FS_Subset
<1>13. Cardinality(W \cup {i}) \in Nat
  BY <1>8, FS_CardinalityType
<1>14. QED
  BY <1>6, <1>7, <1>8, <1>9, <1>10, <1>12, <1>13

\* A move to the ground, to a free slot, or of what is not a bag to a bag that is
\* not full leaves room everywhere.
LEMMA MoveKeepsRoom ==
  ASSUME NEW w \in [Items -> Places], RoomIn(w), NEW i \in Items, NEW d,
         \/ d = Ground
         \/ d \in Players /\ Held(w, d) < Slots
         \/ d \in Bags /\ i \notin Bags /\ Held(w, d) < BagSize,
         NEW v, v = [w EXCEPT ![i] = d]
  PROVE  RoomIn(v) /\ v \in [Items -> Places]
<1>1. /\ Slots \in Nat /\ BagSize \in Nat /\ Bags \subseteq Items
      /\ Ground \notin Players /\ Ground \notin Items /\ Players \cap Items = {}
  BY TradeAssumption
<1>2. d \in Places
  BY DEF Places
<1>3. v \in [Items -> Places]
  BY <1>2
<1>4. \A b \in Bags : v[b] \notin Bags
  BY <1>1 DEF RoomIn
<1>5. \A h \in Players : Held(v, h) <= Slots
  <2>1. SUFFICES ASSUME NEW h \in Players PROVE Held(v, h) <= Slots
    OBVIOUS
  <2>2. Held(w, h) \in Nat /\ Held(v, h) \in Nat
    BY HeldIsNat
  <2>3. Held(w, h) <= Slots
    BY DEF RoomIn
  <2>4. Held(v, h) <= Held(w, h) + 1 /\ (h # d => Held(v, h) <= Held(w, h))
    BY HeldAfterMove
  <2>5. h = d => Held(w, h) < Slots
    BY <1>1
  <2>6. QED
    BY <1>1, <2>2, <2>3, <2>4, <2>5
<1>6. \A h \in Bags : Held(v, h) <= BagSize
  <2>1. SUFFICES ASSUME NEW h \in Bags PROVE Held(v, h) <= BagSize
    OBVIOUS
  <2>2. Held(w, h) \in Nat /\ Held(v, h) \in Nat
    BY HeldIsNat
  <2>3. Held(w, h) <= BagSize
    BY DEF RoomIn
  <2>4. Held(v, h) <= Held(w, h) + 1 /\ (h # d => Held(v, h) <= Held(w, h))
    BY HeldAfterMove
  <2>5. h = d => Held(w, h) < BagSize
    BY <1>1
  <2>6. QED
    BY <1>1, <2>2, <2>3, <2>4, <2>5
<1>7. QED
  BY <1>3, <1>4, <1>5, <1>6 DEF RoomIn

\* What queryDestination may answer.
LEMMA DestinationFacts ==
  ASSUME NEW p \in Players, NEW w, NEW i \in Items, NEW d \in Destinations(p, w, i)
  PROVE  \/ d = p /\ Held(w, p) < Slots
         \/ d \in Bags /\ i \notin Bags /\ Held(w, d) < BagSize /\ w[d] = p
            /\ d # trade[p].item
  BY DEF Destinations, Held

\* At start nobody carries too much.
LEMMA TradeInitRoom == TradeInit => RoomIn(loc)
<1> SUFFICES ASSUME TradeInit PROVE RoomIn(loc)
  OBVIOUS
<1>1. /\ loc \in [Items -> Players \cup {Ground}]
      /\ \A p \in Players : Held(loc, p) <= Slots
  BY DEF TradeInit, Held
<1>2. \A b \in Bags : {i \in Items : loc[i] = b} = {}
  BY <1>1, TradeAssumption
<1>3. \A b \in Bags : Held(loc, b) <= BagSize
  BY <1>2, FS_EmptySet, TradeAssumption DEF Held
<1>4. \A b \in Bags : loc[b] \notin Bags
  BY <1>1, TradeAssumption
<1>5. QED
  BY <1>1, <1>3, <1>4 DEF RoomIn

\* Every step leaves room in its limits.
LEMMA TradeNextRoom ==
  ASSUME TradeInv, RoomIn(loc), [TradeNext]_tradeVars PROVE RoomIn(loc')
<1>1. loc \in [Items -> Places]
  BY TradeParts DEF Places
<1>2. ASSUME NEW p \in Players, AcceptSecond(p) PROVE RoomIn(loc')
  <2> DEFINE q == trade[p].partner
             i == trade[p].item
             j == trade[q].item
  <2>1. /\ trade[p].state # "NONE"
        /\ \/ UNCHANGED loc
           \/ i # None /\ j # None /\ Exchange(p, q, i, j)
    BY <1>2 DEF AcceptSecond, CanAccept
  <2>2. q \in Players
    BY <2>1, PartnerFacts DEF NoTrade
  <2> HIDE DEF q
  <2>3. CASE i # None /\ j # None /\ Exchange(p, q, i, j)
    <3>1. i \in Items /\ j \in Items
      BY <2>2, <2>3, OfferFacts
    <3> HIDE DEF i, j
    <3>2. PICK d \in Destinations(q, loc, i) :
            \/ loc' = [loc EXCEPT ![i] = d]
            \/ \E e \in Destinations(p, [loc EXCEPT ![i] = d], j) :
                 loc' = [[loc EXCEPT ![i] = d] EXCEPT ![j] = e]
      BY <2>3 DEF Exchange
    <3> DEFINE moved == [loc EXCEPT ![i] = d]
    <3>3. \/ loc' = moved
          \/ \E e \in Destinations(p, moved, j) : loc' = [moved EXCEPT ![j] = e]
      BY <3>2
    <3>4. moved = [loc EXCEPT ![i] = d]
      OBVIOUS
    <3> HIDE DEF moved
    <3>5. RoomIn(moved) /\ moved \in [Items -> Places]
      BY <1>1, <2>2, <3>1, <3>4, DestinationFacts, MoveKeepsRoom
    <3>6. ASSUME NEW e \in Destinations(p, moved, j), loc' = [moved EXCEPT ![j] = e]
          PROVE  RoomIn(loc')
      BY <3>1, <3>5, <3>6, DestinationFacts, MoveKeepsRoom
    <3>7. QED
      BY <3>3, <3>5, <3>6
  <2>4. QED
    BY <2>1, <2>3
<1>3. ASSUME NEW p \in Players, NEW i \in Items, NEW d \in Bags \cup {p, Ground},
             MoveItem(p, i, d)
      PROVE  RoomIn(loc')
  <2>1. \/ d = Ground
        \/ d = p /\ p \in Destinations(p, loc, i)
        \/ d \in Bags /\ i \notin Bags /\ Held(loc, d) < BagSize
    BY <1>3 DEF MoveItem, Held, Contents
  <2>2. d = p /\ p \in Destinations(p, loc, i) => Held(loc, p) < Slots
    BY DestinationFacts, TradeParts
  <2>3. loc' = [loc EXCEPT ![i] = d]
    BY <1>3 DEF MoveItem
  <2>4. \/ d = Ground
        \/ d \in Players /\ Held(loc, d) < Slots
        \/ d \in Bags /\ i \notin Bags /\ Held(loc, d) < BagSize
    BY <2>1, <2>2
  <2>5. QED
    BY <1>1, <2>3, <2>4, MoveKeepsRoom
<1>4. CASE UNCHANGED loc
  BY <1>4
<1>5. QED
  BY <1>2, <1>3, <1>4 DEF TradeNext, tradeVars, RequestTrade, AcceptFirst, CloseTrade,
     ChangeItem, Walk, LeaveGame, EnterGame

\* When an item p carries has gone to q, there is room at p for what fitted.
LEMMA RoomForTheOther ==
  ASSUME TradeInv, RoomIn(loc), NEW p \in Players, NEW i \in Items, NEW j \in Items,
         trade[p].item = i, TopParent(i, loc) = p, Fits(p, j),
         NEW d, d # p, d \in Bags => loc[d] # p, NEW moved, moved = [loc EXCEPT ![i] = d]
  PROVE  Destinations(p, moved, j) # {}
<1>1. /\ loc \in [Items -> Places] /\ Bags \subseteq Items /\ Players \cap Items = {}
      /\ Stackable \cap Bags = {}
  BY TradeParts, TradeAssumption DEF Places
<1>2. /\ Slots \in Nat /\ BagSize \in Nat
      /\ Held(moved, p) \in Nat /\ Held(loc, p) \in Nat
      /\ Held(moved, loc[i]) \in Nat /\ Held(loc, loc[i]) \in Nat
  BY HeldIsNat, TradeAssumption
<1>3. Held(moved, p) < Slots => Destinations(p, moved, j) # {}
  BY DEF Held, Destinations
<1>4. ASSUME j \notin Bags, NEW b \in Bags, b # i, loc[b] = p, Held(moved, b) < BagSize
      PROVE  Destinations(p, moved, j) # {}
  <2>1. moved[b] = p
    BY <1>1, <1>4
  <2>2. b \in {c \in Bags \ {trade[p].item} :
                 moved[c] = p /\ Cardinality({l \in Items : moved[l] = c}) < BagSize}
    BY <1>4, <2>1 DEF Held
  <2>3. QED
    BY <1>4, <2>2 DEF Destinations
<1>5. CASE loc[i] = p
  <2>1. Held(moved, p) < Held(loc, p)
    BY <1>1, <1>5, HeldAfterMove
  <2>2. Held(loc, p) <= Slots
    BY DEF RoomIn
  <2>3. Held(moved, p) < Slots
    BY <1>2, <2>1, <2>2
  <2>4. QED
    BY <1>3, <2>3
<1>6. CASE loc[i] # p
  <2>1. loc[i] \in Bags /\ loc[loc[i]] = p
    BY <1>6 DEF TopParent
  <2>2. loc[i] # i /\ loc[i] # d /\ i \notin Bags
    BY <2>1 DEF RoomIn
  <2>3. Held(moved, p) <= Held(loc, p)
    BY <1>1, HeldAfterMove
  <2>4. Held(loc, p) < Slots => Held(moved, p) < Slots
    BY <1>2, <2>3
  <2>5. j \notin Bags => Destinations(p, moved, j) # {}
    <3>1. Held(moved, loc[i]) < Held(loc, loc[i])
      BY <1>1, <2>2, HeldAfterMove
    <3>2. Held(loc, loc[i]) <= BagSize
      BY <2>1 DEF RoomIn
    <3>3. Held(moved, loc[i]) < BagSize
      BY <1>2, <3>1, <3>2
    <3>4. QED
      BY <1>4, <2>1, <2>2, <3>3
  <2>6. Held(loc, p) < Slots \/ j \notin Bags
    <3>1. CASE Destinations(p, loc, j) # {}
      BY <3>1, DestinationFacts
    <3>2. CASE j \in Stackable
      BY <1>1, <3>2
    <3>3. QED
      BY <3>1, <3>2 DEF Fits
  <2>7. QED
    BY <1>3, <2>4, <2>5, <2>6
<1>7. QED
  BY <1>5, <1>6

\* Between two players items only move in an exchange, and then both ways.
OnlyInExchange ==
  \A p, q \in Players :
    p # q /\ (\E k \in Items : TopParent(k, loc) = p /\ TopParent(k, loc') = q) =>
      trade[q].item # None /\ TopParent(trade[q].item, loc') = p

\* The acceptance that completes a trade moves both offers or, if the first did not
\* leave its owner's hands, none that he carries.
LEMMA AcceptSecondWhole ==
  ASSUME TradeInv, RoomIn(loc), NEW p \in Players, AcceptSecond(p)
  PROVE  OnlyInExchange
<1> DEFINE q == trade[p].partner
           i == trade[p].item
           j == trade[q].item
<1>1. /\ trade[p].state # "NONE"
      /\ \/ UNCHANGED loc
         \/ i # None /\ j # None /\ Fits(p, j) /\ Exchange(p, q, i, j)
  BY DEF AcceptSecond, CanAccept
<1>2. q \in Players /\ q # p
  BY <1>1, PartnerFacts DEF NoTrade
<1> HIDE DEF q
<1>3. CASE UNCHANGED loc
  BY <1>3 DEF OnlyInExchange
<1>4. CASE i # None /\ j # None /\ Fits(p, j) /\ Exchange(p, q, i, j)
  <2>1. /\ i \in Items /\ j \in Items /\ i # j
        /\ TopParent(i, loc) \in {p, Ground} /\ TopParent(j, loc) \in {q, Ground}
    BY <1>2, <1>4, OfferFacts
  <2>2. trade[p].item = i /\ trade[q].item = j
    OBVIOUS
  <2> HIDE DEF i, j
  <2>3. PICK d \in Destinations(q, loc, i) :
          LET moved == [loc EXCEPT ![i] = d]
              back == Destinations(p, moved, j)
          IN  IF back = {} THEN loc' = moved
              ELSE \E e \in back : loc' = [moved EXCEPT ![j] = e]
    BY <1>4 DEF Exchange
  <2> DEFINE moved == [loc EXCEPT ![i] = d]
  <2>4. IF Destinations(p, moved, j) = {} THEN loc' = moved
        ELSE \E e \in Destinations(p, moved, j) : loc' = [moved EXCEPT ![j] = e]
    BY <2>3
  <2>5. moved = [loc EXCEPT ![i] = d]
    OBVIOUS
  <2> HIDE DEF moved
  <2>6. d = q \/ (d \in Bags /\ i \notin Bags /\ loc[d] = q /\ d # j)
    BY <1>2, <2>1, <2>2, DestinationFacts
  <2>7. d # p /\ (d \in Bags => loc[d] # p)
    BY <1>2, <2>6, TradeParts
  <2>8. /\ loc \in [Items -> Places] /\ d \in Places
        /\ Bags \subseteq Items /\ Players \cap Items = {} /\ Ground \notin Players
        /\ \A b \in Bags : loc[b] \notin Bags
    BY <1>2, <2>6, TradeParts DEF Places, RoomIn
  <2>9. /\ moved[i] = d /\ \A k \in Items \ {i} : moved[k] = loc[k]
        /\ moved \in [Items -> Places]
    BY <2>1, <2>5, <2>8
  <2>10. TopParent(i, moved) = q
    BY <1>2, <2>6, <2>8, <2>9 DEF TopParent
  <2>11. CASE Destinations(p, moved, j) = {}
    <3>1. loc' = moved
      BY <2>4, <2>11
    <3>2. TopParent(i, loc) # p
      BY <1>4, <2>1, <2>2, <2>5, <2>7, <2>11, RoomForTheOther
    <3>3. SUFFICES ASSUME NEW a \in Players, NEW b \in Players, a # b, NEW k \in Items,
                          TopParent(k, loc) = a, TopParent(k, moved) = b
                   PROVE  FALSE
      BY <3>1 DEF OnlyInExchange
    <3>4. TopParent(i, loc) = Ground
      BY <2>1, <3>2
    <3>5. k # i
      BY <2>8, <3>3, <3>4
    <3>6. loc[k] # i
      <4>1. SUFFICES ASSUME loc[k] = i PROVE FALSE
        OBVIOUS
      <4>2. CASE i \in Bags
        <5>1. loc[i] = a
          BY <3>3, <4>1, <4>2 DEF TopParent
        <5>2. loc[i] = Ground
          BY <2>8, <3>4, <4>2 DEF TopParent
        <5>3. QED
          BY <2>8, <5>1, <5>2
      <4>3. CASE i \notin Bags
        BY <2>1, <2>8, <3>3, <4>1, <4>3 DEF TopParent
      <4>4. QED
        BY <4>2, <4>3
    <3>7. QED
      BY <2>8, <2>9, <3>3, <3>5, <3>6 DEF TopParent
  <2>12. CASE Destinations(p, moved, j) # {}
    <3>1. PICK e \in Destinations(p, moved, j) : loc' = [moved EXCEPT ![j] = e]
      BY <2>4, <2>12
    <3>2. e = p \/ (e \in Bags /\ j \notin Bags /\ moved[e] = p)
      BY <2>1, DestinationFacts
    <3>3. /\ loc'[j] = e /\ loc'[i] = d
          /\ \A k \in Items \ {i, j} : loc'[k] = loc[k]
      BY <2>1, <2>9, <3>1
    <3>4. e \in Bags => e # j /\ loc'[e] = p
      BY <2>8, <2>9, <3>1, <3>2
    <3>5. TopParent(j, loc') = p
      BY <2>8, <3>2, <3>3, <3>4 DEF TopParent
    <3>6. TopParent(i, loc') = q
      BY <1>2, <2>6, <2>8, <3>3 DEF TopParent
    <3>7. ASSUME NEW a \in Players, NEW b \in Players, a # b, NEW k \in Items,
                 TopParent(k, loc) = a, TopParent(k, loc') = b
          PROVE  trade[b].item # None /\ TopParent(trade[b].item, loc') = a
      <4>1. CASE k = i
        <5>1. a = p /\ b = q
          BY <2>1, <2>8, <3>6, <3>7, <4>1
        <5>2. QED
          BY <1>4, <2>2, <3>5, <5>1
      <4>2. CASE k = j
        <5>1. a = q /\ b = p
          BY <2>1, <2>8, <3>5, <3>7, <4>2
        <5>2. QED
          BY <1>4, <2>2, <3>6, <5>1
      <4>3. CASE k \notin {i, j}
        <5>1. loc'[k] = loc[k]
          BY <3>3, <4>3
        <5>2. CASE loc[k] = i /\ i \in Bags
          <6>1. loc[i] = a /\ loc'[i] = b
            BY <3>7, <5>1, <5>2 DEF TopParent
          <6>2. a = p /\ b = q
            BY <2>1, <2>6, <2>8, <3>3, <5>2, <6>1 DEF TopParent
          <6>3. QED
            BY <1>4, <2>2, <3>5, <6>2
        <5>3. CASE loc[k] = j /\ j \in Bags
          <6>1. loc[j] = a /\ loc'[j] = b
            BY <3>7, <5>1, <5>3 DEF TopParent
          <6>2. a = q /\ b = p
            BY <2>1, <2>8, <3>2, <3>3, <5>3, <6>1 DEF TopParent
          <6>3. QED
            BY <1>4, <2>2, <3>6, <6>2
        <5>4. CASE ~(loc[k] \in Bags /\ loc[k] \in {i, j})
          BY <2>8, <3>3, <3>7, <5>1, <5>4 DEF TopParent
        <5>5. QED
          BY <5>2, <5>3, <5>4
      <4>4. QED
        BY <4>1, <4>2, <4>3
    <3>8. QED
      BY <3>7 DEF OnlyInExchange
  <2>13. QED
    BY <2>11, <2>12
<1>5. QED
  BY <1>1, <1>3, <1>4

\* A player moves items between himself and the ground, and to nobody else.
LEMMA MoveItemWhole ==
  ASSUME TradeInv, RoomIn(loc), NEW p \in Players, NEW i \in Items,
         NEW d \in Bags \cup {p, Ground}, MoveItem(p, i, d)
  PROVE  OnlyInExchange
<1>1. /\ loc \in [Items -> Places] /\ d \in Places
      /\ Bags \subseteq Items /\ Players \cap Items = {} /\ Ground \notin Players
      /\ Ground \notin Items /\ \A b \in Bags : loc[b] \notin Bags
  BY TradeParts DEF Places, RoomIn
<1>2. /\ loc' = [loc EXCEPT ![i] = d] /\ InReach(p, pos[p], i) /\ d # i
      /\ d \in Bags => i \notin Bags /\ InReach(p, pos[p], d)
  BY <1>1 DEF MoveItem
<1>3. loc'[i] = d /\ \A k \in Items \ {i} : loc'[k] = loc[k]
  BY <1>1, <1>2
<1>4. TopParent(i, loc) \in {p, Ground}
  BY <1>2 DEF InReach
<1>5. TopParent(i, loc') \in {p, Ground}
  <2>1. CASE d \in Bags
    <3>1. TopParent(d, loc) = loc[d]
      BY <1>1, <2>1 DEF TopParent
    <3>2. loc[d] \in {p, Ground}
      BY <1>2, <2>1, <3>1 DEF InReach
    <3>3. QED
      BY <1>1, <1>2, <1>3, <2>1, <3>2 DEF TopParent
  <2>2. CASE d \notin Bags
    BY <1>3, <2>2 DEF TopParent
  <2>3. QED
    BY <2>1, <2>2
<1>6. SUFFICES ASSUME NEW a \in Players, NEW b \in Players, a # b, NEW k \in Items,
                      TopParent(k, loc) = a, TopParent(k, loc') = b
               PROVE  FALSE
  BY DEF OnlyInExchange
<1>7. k # i
  BY <1>1, <1>4, <1>5, <1>6
<1>8. loc'[k] = loc[k]
  BY <1>3, <1>7
<1>9. loc[k] = i /\ i \in Bags
  BY <1>1, <1>3, <1>6, <1>8 DEF TopParent
<1>10. loc[i] = a /\ loc'[i] = b
  BY <1>6, <1>8, <1>9 DEF TopParent
<1>11. QED
  BY <1>1, <1>2, <1>3, <1>4, <1>6, <1>9, <1>10 DEF TopParent

\* Every step exchanges whole.
LEMMA TradeStepWhole ==
  ASSUME TradeInv, RoomIn(loc), [TradeNext]_tradeVars PROVE OnlyInExchange
<1>1. CASE UNCHANGED loc
  BY <1>1 DEF OnlyInExchange
<1>2. QED
  BY <1>1, AcceptSecondWhole, MoveItemWhole
  DEF TradeNext, tradeVars, RequestTrade, AcceptFirst, CloseTrade, ChangeItem, Walk,
      LeaveGame, EnterGame

\* Trade: whatever the sizes of slots and bags, a carried item passes to another
\* player only in an exchange that gives its owner the other offer: the second move,
\* whose result playerAcceptTrade() ignores, never fails then.
THEOREM ExchangeStaysWhole == TradeSpec => ExchangeIsWhole
<1> DEFINE Inv == TradeInv /\ RoomIn(loc)
<1>1. TradeInit => Inv
  BY TradeInitInv, TradeInitRoom
<1>2. Inv /\ [TradeNext]_tradeVars => Inv'
  BY TradeNextInv, TradeNextRoom
<1>3. Inv /\ [TradeNext]_tradeVars =>
        [\A p, q \in Players :
           p # q /\ (\E i \in Items : TopParent(i, loc) = p /\ TopParent(i, loc') = q) =>
             trade[q].item # None /\ TopParent(trade[q].item, loc') = p]_tradeVars
  BY TradeStepWhole DEF OnlyInExchange
<1> HIDE DEF Inv
<1>4. QED
  BY <1>1, <1>2, <1>3, PTL DEF TradeSpec, ExchangeIsWhole

-----------------------------------------------------------------------------
(***************************************************************************)
(* Chat: each private channel is in order by itself, and its owner has no  *)
(* other.                                                                  *)
(***************************************************************************)

\* A nonempty set of numbers has a least one, and Min() finds it.
LEMMA MinOfNumbers ==
  ASSUME NEW S, S \subseteq Nat, S # {}
  PROVE  Min(S) \in S
<1>1. IsWellFoundedOn(OpToRel(<, Nat), Nat)
  BY NatLessThanWellFounded
<1>2. PICK x \in S : \A y \in S : ~ (<<y, x>> \in OpToRel(<, Nat))
  BY <1>1, WFMin, Zenon
<1>3. \A y \in S : ~ (y < x)
  BY <1>2 DEF OpToRel
<1>4. \A y \in S : x =< y
  BY <1>3
<1>5. QED
  BY <1>4, Zenon DEF Min

\* A private channel of the running server: somebody's, who listens to it with
\* players he has invited, all of them in the game.
ChanRecord == [owner : Talkers \cup {NoOwner}, invites : SUBSET Talkers, users : SUBSET Talkers]

\* A private channel is in order when these players are in the game.
ChanOK(ch, players) ==
  /\ ch \in ChanRecord
  /\ ch.users \subseteq {ch.owner} \cup ch.invites
  /\ ch.owner = NoOwner => ch = NoPrivate
  /\ ch.owner # NoOwner => ch.owner \in ch.users
  /\ ch.users \cup ch.invites \subseteq players

\* Nobody owns two private channels.
OneEach ==
  \A m, n \in Private :
    privateChan[m].owner = privateChan[n].owner /\ privateChan[m].owner # NoOwner => m = n

\* The types, with every listener of a channel in the game.
ChatTypes ==
  /\ talking \subseteq Talkers
  /\ groupOf \in [Talkers -> Groups \cup {NoGroup}]
  /\ groupUsers \in [Groups -> [made : BOOLEAN, users : SUBSET talking]]
  /\ normalUsers \in [Normal -> SUBSET talking]
  /\ DOMAIN privateChan = Private
  /\ privateChan = [n \in Private |-> privateChan[n]]

\* The inductive invariant of the chat.
ChatInv ==
  /\ ChatTypes
  /\ \A n \in Private : ChanOK(privateChan[n], talking)
  /\ OneEach

\* The place of a channel that is not open is in order.
LEMMA NoPrivateOK == ASSUME NEW T PROVE ChanOK(NoPrivate, T) /\ NoPrivate.owner = NoOwner
BY DEF ChanOK, NoPrivate, ChanRecord

\* No channel is open at start.
LEMMA ChatInitInv == ChatInit => ChatInv
<1> SUFFICES ASSUME ChatInit PROVE ChatInv
  OBVIOUS
<1>1. ChatTypes
  BY DEF ChatInit, ChatTypes, NotCreated
<1>2. \A n \in Private : privateChan[n] = NoPrivate
  BY DEF ChatInit
<1>3. QED
  BY <1>1, <1>2, NoPrivateOK DEF ChatInv, OneEach

\* One channel changes, and nobody else's becomes its owner's.
LEMMA OneChannel ==
  ASSUME ChatInv, NEW n \in Private, NEW ch,
         privateChan' = [privateChan EXCEPT ![n] = ch],
         ChanOK(ch, talking),
         ch.owner # NoOwner => ch.owner = privateChan[n].owner \/ Owned(ch.owner) = {},
         UNCHANGED <<talking, groupOf, groupUsers, normalUsers>>
  PROVE  ChatInv'
<1>1. /\ privateChan'[n] = ch
      /\ \A m \in Private \ {n} : privateChan'[m] = privateChan[m]
      /\ DOMAIN privateChan' = Private
      /\ privateChan' = [m \in Private |-> privateChan'[m]]
  BY DEF ChatInv, ChatTypes
<1>2. ChatTypes'
  BY <1>1 DEF ChatInv, ChatTypes
<1>3. \A m \in Private : ChanOK(privateChan'[m], talking')
  BY <1>1 DEF ChatInv
<1>4. OneEach'
  BY <1>1 DEF ChatInv, OneEach, Owned
<1>5. QED
  BY <1>2, <1>3, <1>4 DEF ChatInv

\* createChannel() takes an unused id for a player without a channel.
LEMMA CreateChat ==
  ASSUME ChatInv, NEW p \in Talkers, CreatePrivateChannel(p)
  PROVE  ChatInv'
<1> DEFINE ch == [owner |-> p, invites |-> {}, users |-> {p}]
<1>1. /\ p \in talking /\ Owned(p) = {}
      /\ privateChan' = [privateChan EXCEPT ![Min(FreeNumbers)] = ch]
      /\ UNCHANGED <<talking, groupOf, groupUsers, normalUsers>>
  BY DEF CreatePrivateChannel
<1>2. Min(FreeNumbers) \in Private
  BY MinOfNumbers, ChatAssumption DEF CreatePrivateChannel, FreeNumbers
<1>3. ChanOK(ch, talking) /\ ch.owner = p
  BY <1>1, ChatAssumption DEF ChanOK, ChanRecord
<1> HIDE DEF ch
<1>4. QED
  BY <1>1, <1>2, <1>3, OneChannel

\* An invitation lets a player of the game in.
LEMMA InviteChat ==
  ASSUME ChatInv, NEW p \in Talkers, NEW q \in Talkers, ChannelInvite(p, q)
  PROVE  ChatInv'
<1>1. PICK n \in Owned(p) : privateChan' = [privateChan EXCEPT ![n].invites = @ \cup {q}]
  BY DEF ChannelInvite
<1> DEFINE ch == [privateChan[n] EXCEPT !.invites = @ \cup {q}]
<1>2. /\ n \in Private /\ privateChan[n].owner = p /\ q \in talking
      /\ ChanOK(privateChan[n], talking)
      /\ UNCHANGED <<talking, groupOf, groupUsers, normalUsers>>
  BY DEF ChannelInvite, Owned, ChatInv
<1>3. privateChan' = [privateChan EXCEPT ![n] = ch]
  BY <1>1
<1>4. ChanOK(ch, talking) /\ ch.owner = privateChan[n].owner
  BY <1>2, ChatAssumption DEF ChanOK, ChanRecord
<1> HIDE DEF ch
<1>5. QED
  BY <1>2, <1>3, <1>4, OneChannel

\* An excluded player is neither invited nor listening.
LEMMA ExcludeChat ==
  ASSUME ChatInv, NEW p \in Talkers, NEW q \in Talkers, ChannelExclude(p, q)
  PROVE  ChatInv'
<1>1. PICK n \in Owned(p) :
        privateChan' = [privateChan EXCEPT ![n].invites = @ \ {q}, ![n].users = @ \ {q}]
  BY DEF ChannelExclude
<1> DEFINE ch == [privateChan[n] EXCEPT !.invites = @ \ {q}, !.users = @ \ {q}]
<1>2. /\ n \in Private /\ privateChan[n].owner = p /\ p # q
      /\ ChanOK(privateChan[n], talking)
      /\ UNCHANGED <<talking, groupOf, groupUsers, normalUsers>>
  BY DEF ChannelExclude, Owned, ChatInv
<1>3. privateChan' = [privateChan EXCEPT ![n] = ch]
  BY <1>1, <1>2 DEF ChatInv, ChatTypes
<1>4. ChanOK(ch, talking) /\ ch.owner = privateChan[n].owner
  BY <1>2, ChatAssumption DEF ChanOK, ChanRecord
<1> HIDE DEF ch
<1>5. QED
  BY <1>2, <1>3, <1>4, OneChannel

\* The steps that touch channels of parties and of chatchannels.xml only.
LEMMA GroupChat ==
  ASSUME ChatInv, ChatTypes', talking \subseteq talking', UNCHANGED privateChan
  PROVE  ChatInv'
<1>1. \A n \in Private : ChanOK(privateChan'[n], talking')
  BY DEF ChatInv, ChanOK
<1>2. OneEach'
  BY DEF ChatInv, OneEach
<1>3. QED
  BY <1>1, <1>2 DEF ChatInv

\* addUserToChannel() adds to a private channel only who may listen.
LEMMA OpenChat ==
  ASSUME ChatInv, NEW p \in Talkers, OpenChannel(p)
  PROVE  ChatInv'
<1>1. p \in talking /\ UNCHANGED <<talking, groupOf>>
  BY DEF OpenChannel
<1>2. CASE /\ groupOf[p] # NoGroup
           /\ groupUsers' = [groupUsers EXCEPT ![groupOf[p]].users = @ \cup {p}]
           /\ UNCHANGED <<normalUsers, privateChan>>
  <2>1. ChatTypes'
    BY <1>1, <1>2 DEF ChatInv, ChatTypes
  <2>2. QED
    BY <1>1, <1>2, <2>1, GroupChat
<1>3. CASE /\ \E c \in Normal : normalUsers' = [normalUsers EXCEPT ![c] = @ \cup {p}]
           /\ UNCHANGED <<groupUsers, privateChan>>
  <2>1. ChatTypes'
    BY <1>1, <1>3 DEF ChatInv, ChatTypes
  <2>2. QED
    BY <1>1, <1>3, <2>1, GroupChat
<1>4. CASE /\ \E n \in Private :
                /\ IsInvited(privateChan[n], p)
                /\ privateChan' = [privateChan EXCEPT ![n].users = @ \cup {p}]
           /\ UNCHANGED <<groupUsers, normalUsers>>
  <2>1. PICK n \in Private :
                /\ IsInvited(privateChan[n], p)
                /\ privateChan' = [privateChan EXCEPT ![n].users = @ \cup {p}]
    BY <1>4
  <2> DEFINE ch == [privateChan[n] EXCEPT !.users = @ \cup {p}]
  <2>2. ChanOK(privateChan[n], talking)
    BY DEF ChatInv
  <2>3. privateChan' = [privateChan EXCEPT ![n] = ch]
    BY <2>1
  <2>4. ChanOK(ch, talking) /\ ch.owner = privateChan[n].owner
    BY <1>1, <2>1, <2>2, ChatAssumption DEF ChanOK, ChanRecord, IsInvited, NoPrivate
  <2> HIDE DEF ch
  <2>5. QED
    BY <1>1, <1>4, <2>3, <2>4, OneChannel
<1>5. QED
  BY <1>2, <1>3, <1>4 DEF OpenChannel

\* A channel that its owner closes is gone for everybody.
LEMMA CloseChat ==
  ASSUME ChatInv, NEW p \in Talkers, CloseChannel(p)
  PROVE  ChatInv'
<1>1. p \in talking /\ UNCHANGED <<talking, groupOf>>
  BY DEF CloseChannel
<1>2. CASE /\ groupUsers' = LeftGroupChannel(p, groupOf[p])
           /\ UNCHANGED <<normalUsers, privateChan>>
  <2>1. ChatTypes'
    BY <1>1, <1>2 DEF ChatInv, ChatTypes, LeftGroupChannel
  <2>2. QED
    BY <1>1, <1>2, <2>1, GroupChat
<1>3. CASE /\ \E c \in Normal : normalUsers' = [normalUsers EXCEPT ![c] = @ \ {p}]
           /\ UNCHANGED <<groupUsers, privateChan>>
  <2>1. ChatTypes'
    BY <1>1, <1>3 DEF ChatInv, ChatTypes
  <2>2. QED
    BY <1>1, <1>3, <2>1, GroupChat
<1>4. CASE /\ \E n \in Private : privateChan' = [privateChan EXCEPT ![n] = LeftPrivate(n, p)]
           /\ UNCHANGED <<groupUsers, normalUsers>>
  <2>1. PICK n \in Private : privateChan' = [privateChan EXCEPT ![n] = LeftPrivate(n, p)]
    BY <1>4
  <2>2. ChanOK(privateChan[n], talking)
    BY DEF ChatInv
  <2>3. CASE privateChan[n].owner = p
    <3>1. LeftPrivate(n, p) = NoPrivate
      BY <2>3 DEF LeftPrivate
    <3>2. ChanOK(LeftPrivate(n, p), talking) /\ LeftPrivate(n, p).owner = NoOwner
      BY <3>1, NoPrivateOK
    <3>3. QED
      BY <1>1, <1>4, <2>1, <3>2, OneChannel
  <2>4. CASE privateChan[n].owner # p
    <3>1. /\ ChanOK(LeftPrivate(n, p), talking)
          /\ LeftPrivate(n, p).owner = privateChan[n].owner
      BY <2>2, <2>4, ChatAssumption DEF ChanOK, ChanRecord, LeftPrivate, NoPrivate
    <3>2. QED
      BY <1>1, <1>4, <2>1, <3>1, OneChannel
  <2>5. QED
    BY <2>3, <2>4
<1>5. QED
  BY <1>2, <1>3, <1>4 DEF CloseChannel

\* removeUserFromAllChannels() leaves no trace of a player who leaves, and closes
\* the channel he owns.
LEMMA QuitChat ==
  ASSUME ChatInv, NEW p \in Talkers, NEW players,
         talking \ {p} \subseteq players, players \subseteq talking, talking' = players,
         groupOf' \in [Talkers -> Groups \cup {NoGroup}],
         RemoveUserFromAllChannels(p)
  PROVE  ChatInv'
<1>1. ChatTypes'
  BY DEF ChatInv, ChatTypes, RemoveUserFromAllChannels
<1>2. \A n \in Private :
        privateChan'[n] = IF privateChan[n].owner = p THEN NoPrivate
                          ELSE [privateChan[n] EXCEPT !.invites = @ \ {p}, !.users = @ \ {p}]
  BY DEF RemoveUserFromAllChannels
<1>3. ASSUME NEW n \in Private
      PROVE  /\ ChanOK(privateChan'[n], players)
             /\ privateChan'[n].owner \in {NoOwner, privateChan[n].owner}
  <2>1. CASE privateChan[n].owner = p
    BY <1>2, <2>1, NoPrivateOK
  <2>2. CASE privateChan[n].owner # p
    <3>1. ChanOK(privateChan[n], talking)
      BY DEF ChatInv
    <3>2. privateChan'[n] = [privateChan[n] EXCEPT !.invites = @ \ {p}, !.users = @ \ {p}]
      BY <1>2, <2>2
    <3>3. /\ privateChan'[n] \in ChanRecord
          /\ privateChan'[n].owner = privateChan[n].owner
          /\ privateChan'[n].users = privateChan[n].users \ {p}
          /\ privateChan'[n].invites = privateChan[n].invites \ {p}
      BY <3>1, <3>2 DEF ChanOK, ChanRecord
    <3>4. privateChan[n] = NoPrivate => privateChan'[n] = NoPrivate
      <4>1. privateChan[n] = NoPrivate =>
              /\ privateChan'[n].owner = NoOwner
              /\ privateChan'[n].users = {} /\ privateChan'[n].invites = {}
        BY <3>3 DEF NoPrivate
      <4>2. QED
        BY <3>3, <4>1 DEF ChanRecord, NoPrivate
    <3>5. QED
      BY <2>2, <3>1, <3>3, <3>4 DEF ChanOK
  <2>3. QED
    BY <2>1, <2>2
<1>4. OneEach'
  BY <1>3, Zenon DEF ChatInv, OneEach
<1>5. QED
  BY <1>1, <1>3, <1>4 DEF ChatInv

\* Every step keeps the invariant of the chat.
LEMMA ChatNextInv ==
  ASSUME ChatInv, [ChatNext]_chatVars
  PROVE  ChatInv'
<1>1. CASE UNCHANGED chatVars
  BY <1>1 DEF chatVars, ChatInv, ChatTypes, OneEach
<1>2. CASE ReloadChannels
  <2>1. ChatTypes'
    BY <1>2 DEF ReloadChannels, ChatInv, ChatTypes
  <2>2. QED
    BY <1>2, <2>1, GroupChat DEF ReloadChannels
<1>3. ASSUME NEW p \in Talkers,
             \/ RequestChannels(p) \/ QuitParty(p) \/ LogOn(p)
             \/ \E g \in Groups : EnterParty(p, g)
      PROVE  ChatInv'
  <2>1. CASE RequestChannels(p)
    <3>1. ChatTypes'
      BY <2>1 DEF RequestChannels, ChatInv, ChatTypes
    <3>2. QED
      BY <2>1, <3>1, GroupChat DEF RequestChannels
  <2>2. CASE QuitParty(p)
    <3>1. ChatTypes'
      BY <2>2 DEF QuitParty, LeftGroupChannel, ChatInv, ChatTypes
    <3>2. QED
      BY <2>2, <3>1, GroupChat DEF QuitParty
  <2>3. CASE LogOn(p)
    <3>1. ChatTypes'
      BY <2>3 DEF LogOn, ChatInv, ChatTypes
    <3>2. QED
      BY <2>3, <3>1, GroupChat DEF LogOn
  <2>4. CASE \E g \in Groups : EnterParty(p, g)
    <3>1. PICK g \in Groups : EnterParty(p, g)
      BY <2>4, SMTT(30)
    <3>2. ChatTypes'
      BY <3>1, SMT DEF EnterParty, ChatInv, ChatTypes
    <3>3. QED
      BY <3>1, <3>2, GroupChat DEF EnterParty
  <2>5. QED
    BY <1>3, <2>1, <2>2, <2>3, <2>4
<1>4. ASSUME NEW p \in Talkers, Reconnect(p) \/ LogOff(p)
      PROVE  ChatInv'
  <2>1. /\ talking \ {p} \subseteq talking' /\ talking' \subseteq talking
        /\ groupOf' \in [Talkers -> Groups \cup {NoGroup}]
        /\ RemoveUserFromAllChannels(p)
    BY <1>4 DEF Reconnect, LogOff, ChatInv, ChatTypes
  <2>2. QED
    BY <2>1, QuitChat
<1>5. QED
  BY <1>1, <1>2, <1>3, <1>4, CreateChat, OpenChat, CloseChat, InviteChat, ExcludeChat
     DEF ChatNext

\* The inductive invariant implies what the run checks.
LEMMA ChatInvKept == ChatInv => ChannelsAreKept
<1> SUFFICES ASSUME ChatInv PROVE ChannelsAreKept
  OBVIOUS
<1>1. PrivateStaysPrivate
  BY DEF PrivateStaysPrivate, ChatInv, ChanOK
<1>2. ASSUME NEW p \in Talkers
      PROVE  Cardinality(Owned(p)) <= 1
  <2>1. CASE Owned(p) = {}
    BY <2>1, FS_EmptySet
  <2>2. CASE Owned(p) # {}
    <3>1. PICK n \in Private : privateChan[n].owner = p
      BY <2>2 DEF Owned
    <3>2. Owned(p) = {n}
      BY <3>1, ChatAssumption DEF Owned, ChatInv, OneEach
    <3>3. Cardinality({n}) = 1
      BY FS_Singleton
    <3>4. QED
      BY <3>2, <3>3
  <2>3. QED
    BY <2>1, <2>2
<1>3. PrivateIsOwned
  BY <1>2 DEF PrivateIsOwned, ChatInv, ChanOK
<1>4. GoneIsSilent
  <2>1. \A g \in Groups : groupUsers[g].users \subseteq talking
    BY DEF ChatInv, ChatTypes
  <2>2. \A c \in Normal : normalUsers[c] \subseteq talking
    BY DEF ChatInv, ChatTypes
  <2>3. \A n \in Private : privateChan[n].users \cup privateChan[n].invites \subseteq talking
    BY DEF ChatInv, ChanOK
  <2>4. QED
    BY <2>1, <2>2, <2>3 DEF GoneIsSilent
<1>5. QED
  BY <1>1, <1>3, <1>4 DEF ChannelsAreKept

\* Chat: for any players, guilds and channel ids, only players in the game listen to
\* channels, to private ones only their owners and those they have invited, and
\* nobody owns two.
THEOREM ChatChannelsKept == ChatSpec => []ChannelsAreKept
BY ChatInitInv, ChatNextInv, ChatInvKept, PTL DEF ChatSpec

-----------------------------------------------------------------------------
(***************************************************************************)
(* Party: each Party object is in order by itself, and the players in the  *)
(* game say of it what it says of them.                                    *)
(***************************************************************************)

\* The Party objects.
PartyObjects == [leader : Folk \cup {NoLeader}, members : Seq(Folk), invites : SUBSET Folk]

\* A Party object by itself is in order.
PartyInOrder(pt) ==
  /\ pt \in PartyObjects
  /\ IsInjective(pt.members) /\ pt.leader \notin Range(pt.members)
  /\ pt.invites \cap PeopleOf(pt) = {}
  /\ (pt.leader # NoLeader) <=> ~IsEmpty(pt)

\* The players in the game say of party g what its object pt says.
PlayersAgree(g, pt, game, of, inv) ==
  \A p \in Folk : /\ (p \in game /\ of[p] = g) <=> p \in PeopleOf(pt)
                  /\ (p \in game /\ g \in inv[p]) <=> p \in pt.invites

\* The inductive invariant, of any state of the parties and the players.
PartyStateOK(ps, of, inv, game) ==
  /\ game \subseteq Folk
  /\ ps \in [Parties -> PartyObjects]
  /\ of \in [Folk -> Parties \cup {NoParty}]
  /\ inv \in [Folk -> SUBSET Parties]
  /\ \A g \in Parties : PartyInOrder(ps[g]) /\ PlayersAgree(g, ps[g], game, of, inv)

\* The inductive invariant of the parties.
PartyInv == PartyStateOK(parties, partyOf, invitations, inGame)

\* What players say of the other parties stays the same.
OthersSame(g, of, inv, of2, inv2) ==
  /\ of2 \in [Folk -> Parties \cup {NoParty}] /\ inv2 \in [Folk -> SUBSET Parties]
  /\ \A p \in Folk, h \in Parties :
       h # g => (of2[p] = h <=> of[p] = h) /\ (h \in inv2[p] <=> h \in inv[p])

\* One party changes.
LEMMA OneParty ==
  ASSUME NEW ps, NEW of, NEW inv, NEW game, PartyStateOK(ps, of, inv, game),
         NEW g \in Parties, NEW pt, PartyInOrder(pt),
         NEW of2, NEW inv2, OthersSame(g, of, inv, of2, inv2),
         PlayersAgree(g, pt, game, of2, inv2)
  PROVE  PartyStateOK([ps EXCEPT ![g] = pt], of2, inv2, game)
<1>1. ps \in [Parties -> PartyObjects] /\ game \subseteq Folk
  BY DEF PartyStateOK
<1>2. PICK ps2 : ps2 = [ps EXCEPT ![g] = pt]
  OBVIOUS
<1>3. ps2 \in [Parties -> PartyObjects] /\ ps2[g] = pt /\ \A h \in Parties : h # g => ps2[h] = ps[h]
  BY <1>1, <1>2 DEF PartyInOrder
<1>4. ASSUME NEW h \in Parties, h # g
      PROVE  PartyInOrder(ps[h]) /\ PlayersAgree(h, ps[h], game, of2, inv2)
  BY <1>4 DEF PartyStateOK, PlayersAgree, OthersSame
<1>5. \A h \in Parties : PartyInOrder(ps2[h]) /\ PlayersAgree(h, ps2[h], game, of2, inv2)
  BY <1>3, <1>4
<1>6. PartyStateOK(ps2, of2, inv2, game)
  BY <1>1, <1>3, <1>5 DEF PartyStateOK, OthersSame
<1>7. QED
  BY <1>2, <1>6

\* memberList.erase() takes the player out and leaves the others.
LEMMA EraseFacts ==
  ASSUME NEW list \in Seq(Folk), IsInjective(list), NEW p
  PROVE  /\ Erase(list, p) \in Seq(Folk) /\ IsInjective(Erase(list, p))
         /\ Range(Erase(list, p)) = Range(list) \ {p}
<1>1. CASE p \notin Range(list)
  BY <1>1 DEF Erase
<1>2. CASE p \in Range(list)
  <2>1. Len(list) \in Nat /\ DOMAIN list = 1..Len(list) /\ list \in [1..Len(list) -> Folk]
    BY LenProperties
  <2>2. PICK at : at = CHOOSE n \in 1..Len(list) : list[n] = p
    OBVIOUS
  <2>3. at \in 1..Len(list) /\ list[at] = p
    BY <1>2, <2>1, <2>2 DEF Range
  <2>4. PICK short : short = [n \in 1..(Len(list) - 1) |-> IF n < at THEN list[n] ELSE list[n + 1]]
    OBVIOUS
  <2>5. Erase(list, p) = short
    BY <1>2, <2>2, <2>4 DEF Erase
  <2>6. Len(list) - 1 \in Nat /\ \A n \in 1..(Len(list) - 1) : n \in 1..Len(list) /\ n + 1 \in 1..Len(list)
    BY <2>1, <2>3
  <2>7. short \in [1..(Len(list) - 1) -> Folk]
    BY <2>1, <2>4, <2>6
  <2>8. short \in Seq(Folk)
    <3>1. short \in UNION {[1..n -> Folk] : n \in Nat}
      BY <2>6, <2>7
    <3>2. QED
      BY <3>1, SeqDef
  <2>9. DOMAIN short = 1..(Len(list) - 1)
    BY <2>7
  <2>10. \A n \in 1..(Len(list) - 1) : \/ n < at /\ short[n] = list[n]
                                       \/ n + 1 > at /\ short[n] = list[n + 1]
    BY <2>1, <2>3, <2>4
  <2>11. IsInjective(short)
    <3>1. SUFFICES ASSUME NEW n \in 1..(Len(list) - 1), NEW m \in 1..(Len(list) - 1), short[n] = short[m]
                   PROVE  n = m
      BY <2>9 DEF IsInjective
    <3>2. \/ n < at /\ short[n] = list[n]
          \/ n + 1 > at /\ short[n] = list[n + 1]
      BY <2>10
    <3>3. \/ m < at /\ short[m] = list[m]
          \/ m + 1 > at /\ short[m] = list[m + 1]
      BY <2>10
    <3>4. \A i, j \in 1..Len(list) : list[i] = list[j] => i = j
      BY <2>1 DEF IsInjective
    <3>5. QED
      BY <2>1, <2>3, <2>6, <3>1, <3>2, <3>3, <3>4
  <2>12. ASSUME NEW x \in Range(short) PROVE x \in Range(list) /\ x # p
    <3>1. PICK n \in 1..(Len(list) - 1) : short[n] = x
      BY <2>9 DEF Range
    <3>2. PICK k \in 1..Len(list) : k # at /\ list[k] = x
      BY <2>1, <2>3, <2>6, <2>10, <3>1
    <3>3. QED
      BY <2>1, <2>3, <3>2 DEF IsInjective, Range
  <2>13. ASSUME NEW x \in Range(list), x # p PROVE x \in Range(short)
    <3>1. PICK k \in 1..Len(list) : list[k] = x
      BY <2>1 DEF Range
    <3>2. k # at
      BY <2>3, <2>13, <3>1
    <3>3. CASE k < at
      <4>1. k \in 1..(Len(list) - 1) /\ short[k] = x
        BY <2>1, <2>3, <2>4, <3>1, <3>3
      <4>2. QED
        BY <2>9, <4>1 DEF Range
    <3>4. CASE k > at
      <4>1. k - 1 \in 1..(Len(list) - 1) /\ ~(k - 1 < at) /\ (k - 1) + 1 = k
        BY <2>1, <2>3, <3>1, <3>4
      <4>2. short[k - 1] = x
        BY <2>4, <3>1, <4>1
      <4>3. QED
        BY <2>9, <4>1, <4>2 DEF Range
    <3>5. QED
      BY <2>1, <2>3, <3>1, <3>2, <3>3, <3>4
  <2>14. QED
    BY <2>5, <2>8, <2>11, <2>12, <2>13
<1>3. QED
  BY <1>1, <1>2

\* A party that has members has a leader.
LEMMA LedByOne ==
  ASSUME NEW pt, PartyInOrder(pt), NEW p \in Range(pt.members)
  PROVE  /\ pt.leader # NoLeader /\ pt.leader \in Folk /\ p \in Folk /\ p # pt.leader
         /\ PeopleOf(pt) = {pt.leader} \cup Range(pt.members) /\ pt.members # <<>>
<1>1. pt.members # <<>> /\ pt.members \in Seq(Folk) /\ pt.leader \in Folk \cup {NoLeader}
  BY EmptyRange DEF PartyInOrder, PartyObjects
<1>2. p \in Folk
  BY <1>1, RangeOfSeq
<1>3. QED
  BY <1>1, <1>2 DEF PartyInOrder, IsEmpty, PeopleOf

\* Passing the leadership changes the places in the party and not its people.
LEMMA PassFacts ==
  ASSUME NEW pt, PartyInOrder(pt), NEW p \in Range(pt.members), NEW q, q = PassLeadership(pt, p)
  PROVE  /\ PartyInOrder(q) /\ PeopleOf(q) = PeopleOf(pt) /\ q.invites = pt.invites
         /\ q.leader = p
<1>1. /\ pt \in PartyObjects /\ pt.members \in Seq(Folk) /\ IsInjective(pt.members)
      /\ pt.leader \notin Range(pt.members) /\ pt.invites \cap PeopleOf(pt) = {}
  BY DEF PartyInOrder, PartyObjects
<1>2. /\ pt.leader # NoLeader /\ pt.leader \in Folk /\ p \in Folk /\ p # pt.leader
      /\ PeopleOf(pt) = {pt.leader} \cup Range(pt.members)
  BY LedByOne
<1>3. PICK rest : rest = Erase(pt.members, p)
  OBVIOUS
<1>4. rest \in Seq(Folk) /\ IsInjective(rest) /\ Range(rest) = Range(pt.members) \ {p}
  BY <1>1, <1>3, EraseFacts
<1>5. PICK first : first = <<pt.leader>>
  OBVIOUS
<1>6. first \in Seq(Folk) /\ Range(first) = {pt.leader} /\ IsInjective(first)
  BY <1>2, <1>5 DEF Range, IsInjective
<1> DEFINE list == first \o rest
<1>7. list \in Seq(Folk) /\ IsInjective(list) /\ Range(list) = {pt.leader} \cup Range(rest)
  <2>1. Range(first) \cap Range(rest) = {}
    BY <1>1, <1>4, <1>6
  <2>2. QED
    BY <1>4, <1>6, <2>1, ConcatRange
<1>8. /\ q \in PartyObjects /\ q.leader = p /\ q.members = list /\ q.invites = pt.invites
  BY <1>1, <1>2, <1>3, <1>5, <1>7 DEF PassLeadership, PartyObjects
<1> HIDE DEF list
<1>9. p # NoLeader /\ p \notin Range(list)
  BY <1>2, <1>4, <1>7, PartyAssumption DEF PartyAssumption
<1>10. PeopleOf(q) = PeopleOf(pt)
  BY <1>2, <1>4, <1>7, <1>8, <1>9 DEF PeopleOf
<1>11. list # <<>>
  BY <1>7, EmptyRange
<1>12. PartyInOrder(q)
  BY <1>1, <1>7, <1>8, <1>9, <1>10, <1>11 DEF PartyInOrder, IsEmpty
<1>13. QED
  BY <1>8, <1>10, <1>12

\* What a player who leaves leaves behind.  When nobody can take the leader's place
\* the object still has him as its leader, and is disbanded.
LEMMA LeftFacts ==
  ASSUME NEW pt, PartyInOrder(pt), NEW p \in PeopleOf(pt), NEW q, q = LeftBy(pt, p)
  PROVE  /\ q \in PartyObjects /\ q.invites = pt.invites
         /\ {q.leader} \cup Range(q.members) \cup {p} = PeopleOf(pt)
         /\ ~MissingLeader(pt, p) /\ ~IsEmpty(q) =>
              PartyInOrder(q) /\ PeopleOf(q) = PeopleOf(pt) \ {p}
<1>1. /\ pt \in PartyObjects /\ pt.members \in Seq(Folk) /\ IsInjective(pt.members)
      /\ pt.leader \notin Range(pt.members) /\ pt.invites \cap PeopleOf(pt) = {}
      /\ pt.leader # NoLeader /\ PeopleOf(pt) = {pt.leader} \cup Range(pt.members)
  BY DEF PartyInOrder, PartyObjects, PeopleOf
<1>2. PICK passed : passed = IF p = pt.leader /\ ~MissingLeader(pt, p)
                             THEN PassLeadership(pt, Head(pt.members)) ELSE pt
  OBVIOUS
<1>3. /\ PartyInOrder(passed) /\ PeopleOf(passed) = PeopleOf(pt) /\ passed.invites = pt.invites
      /\ p = passed.leader => MissingLeader(pt, p)
  <2>1. CASE p = pt.leader /\ ~MissingLeader(pt, p)
    <3>1. pt.members # <<>>
      BY <2>1 DEF MissingLeader
    <3>2. Head(pt.members) \in Range(pt.members)
      BY <1>1, <3>1, TailRange
    <3>3. PICK h \in Range(pt.members) : h = Head(pt.members)
      BY <3>2
    <3>4. passed = PassLeadership(pt, h) /\ h # p
      BY <1>1, <1>2, <2>1, <3>3
    <3>5. QED
      BY <3>4, PassFacts
  <2>2. CASE ~(p = pt.leader /\ ~MissingLeader(pt, p))
    BY <1>2, <2>2
  <2>3. QED
    BY <2>1, <2>2
<1>4. /\ passed \in PartyObjects /\ passed.members \in Seq(Folk) /\ IsInjective(passed.members)
      /\ passed.leader \notin Range(passed.members) /\ passed.invites \cap PeopleOf(passed) = {}
      /\ passed.leader # NoLeader /\ PeopleOf(passed) = {passed.leader} \cup Range(passed.members)
  BY <1>3 DEF PartyInOrder, PartyObjects, PeopleOf
<1>5. PICK rest : rest = Erase(passed.members, p)
  OBVIOUS
<1>6. rest \in Seq(Folk) /\ IsInjective(rest) /\ Range(rest) = Range(passed.members) \ {p}
  BY <1>4, <1>5, EraseFacts
<1>7. q = [passed EXCEPT !.members = rest]
  BY <1>2, <1>5 DEF LeftBy
<1>8. q \in PartyObjects /\ q.leader = passed.leader /\ q.members = rest /\ q.invites = pt.invites
  BY <1>3, <1>4, <1>6, <1>7 DEF PartyObjects
<1>9. {q.leader} \cup Range(q.members) \cup {p} = PeopleOf(pt)
  BY <1>3, <1>4, <1>6, <1>8
<1>10. ASSUME ~MissingLeader(pt, p), ~IsEmpty(q)
       PROVE  PartyInOrder(q) /\ PeopleOf(q) = PeopleOf(pt) \ {p}
  <2>1. PeopleOf(q) = {q.leader} \cup Range(q.members)
    BY <1>4, <1>8 DEF PeopleOf
  <2>2. PeopleOf(q) = PeopleOf(pt) \ {p}
    BY <1>3, <1>4, <1>6, <1>8, <1>10, <2>1
  <2>3. q.invites \cap PeopleOf(q) = {}
    BY <1>1, <1>8, <2>2
  <2>4. q.leader # NoLeader /\ IsInjective(q.members) /\ q.leader \notin Range(q.members)
    BY <1>4, <1>6, <1>8
  <2>5. PartyInOrder(q)
    BY <1>8, <1>10, <2>3, <2>4 DEF PartyInOrder
  <2>6. QED
    BY <2>2, <2>5
<1>11. QED
  BY <1>8, <1>9, <1>10

\* A disbanded party is in order and has nobody.
LEMMA DisbandedInOrder ==
  PartyInOrder(Disbanded) /\ PeopleOf(Disbanded) = {} /\ Disbanded.invites = {}
BY EmptyRange DEF Disbanded, PartyInOrder, PartyObjects, PeopleOf, IsEmpty

\* Everybody forgets party g.
Forgotten(g, pt, of, inv, of2, inv2) ==
  /\ of2 = [p \in Folk |-> IF p \in PeopleOf(pt) THEN NoParty ELSE of[p]]
  /\ inv2 = [p \in Folk |-> IF p \in pt.invites THEN inv[p] \ {g} ELSE inv[p]]

\* disband() of a party.
LEMMA DisbandOK ==
  ASSUME NEW ps, NEW of, NEW inv, NEW game, PartyStateOK(ps, of, inv, game),
         NEW g \in Parties, NEW of2, NEW inv2, Forgotten(g, ps[g], of, inv, of2, inv2)
  PROVE  PartyStateOK([ps EXCEPT ![g] = Disbanded], of2, inv2, game)
<1>1. /\ of \in [Folk -> Parties \cup {NoParty}] /\ inv \in [Folk -> SUBSET Parties]
      /\ PlayersAgree(g, ps[g], game, of, inv)
  BY DEF PartyStateOK
<1>2. /\ \A p \in Folk : of2[p] = IF p \in PeopleOf(ps[g]) THEN NoParty ELSE of[p]
      /\ \A p \in Folk : inv2[p] = IF p \in ps[g].invites THEN inv[p] \ {g} ELSE inv[p]
  BY DEF Forgotten
<1>3. of2 \in [Folk -> Parties \cup {NoParty}] /\ inv2 \in [Folk -> SUBSET Parties]
  BY <1>1 DEF Forgotten
<1>4. ASSUME NEW p \in Folk, NEW h \in Parties, h # g
      PROVE  (of2[p] = h <=> of[p] = h) /\ (h \in inv2[p] <=> h \in inv[p])
  <2>1. (p \in PeopleOf(ps[g]) => of[p] = g) /\ NoParty # h
    BY <1>1, PartyAssumption DEF PlayersAgree, PartyAssumption
  <2>2. of2[p] = h <=> of[p] = h
    BY <1>2, <1>4, <2>1
  <2>3. h \in inv2[p] <=> h \in inv[p]
    BY <1>2, <1>4
  <2>4. QED
    BY <2>2, <2>3
<1>5. OthersSame(g, of, inv, of2, inv2)
  BY <1>3, <1>4 DEF OthersSame
<1>6. PlayersAgree(g, Disbanded, game, of2, inv2)
  BY <1>1, <1>2, DisbandedInOrder, PartyAssumption DEF PlayersAgree, PartyAssumption
<1>7. QED
  BY <1>5, <1>6, OneParty, DisbandedInOrder

\* leaveParty() of a player of the party.
LEMMA LeaveOK ==
  ASSUME NEW ps, NEW of, NEW inv, NEW game, PartyStateOK(ps, of, inv, game),
         NEW p \in game, of[p] # NoParty,
         NEW s, s.parties = ps, s.partyOf = of, s.invitations = inv,
         NEW r, r = LeaveParty(s, p)
  PROVE  /\ PartyStateOK(r.parties, r.partyOf, r.invitations, game)
         /\ r.partyOf[p] = NoParty
<1>1. /\ p \in Folk /\ game \subseteq Folk /\ ps \in [Parties -> PartyObjects]
      /\ of \in [Folk -> Parties \cup {NoParty}] /\ inv \in [Folk -> SUBSET Parties]
  BY DEF PartyStateOK
<1>2. PICK g \in Parties : g = of[p]
  BY <1>1
<1>3. PICK pt : pt = ps[g]
  OBVIOUS
<1>4. PartyInOrder(pt) /\ PlayersAgree(g, pt, game, of, inv) /\ p \in PeopleOf(pt)
  BY <1>1, <1>2, <1>3 DEF PartyStateOK, PlayersAgree
<1>5. PICK q : q = LeftBy(pt, p)
  OBVIOUS
<1>6. /\ q \in PartyObjects /\ q.invites = pt.invites
      /\ {q.leader} \cup Range(q.members) \cup {p} = PeopleOf(pt)
      /\ ~MissingLeader(pt, p) /\ ~IsEmpty(q) =>
           PartyInOrder(q) /\ PeopleOf(q) = PeopleOf(pt) \ {p}
  BY <1>4, <1>5, LeftFacts
<1>7. PICK s1 : s1 = [parties |-> [ps EXCEPT ![g] = q], partyOf |-> [of EXCEPT ![p] = NoParty],
                      invitations |-> inv]
  OBVIOUS
<1>8. r = IF MissingLeader(pt, p) \/ IsEmpty(q) THEN Disband(s1, g) ELSE s1
  BY <1>2, <1>3, <1>5, <1>7 DEF LeaveParty
<1>9. /\ s1.parties = [ps EXCEPT ![g] = q] /\ s1.partyOf = [of EXCEPT ![p] = NoParty]
      /\ s1.invitations = inv
  BY <1>7
<1>10. CASE MissingLeader(pt, p) \/ IsEmpty(q)
  <2>1. /\ r.parties = [s1.parties EXCEPT ![g] = Disbanded]
        /\ r.partyOf = [x \in Folk |-> IF x = s1.parties[g].leader \/ x \in Range(s1.parties[g].members)
                                       THEN NoParty ELSE s1.partyOf[x]]
        /\ r.invitations = [x \in Folk |-> IF x \in s1.parties[g].invites
                                           THEN s1.invitations[x] \ {g} ELSE s1.invitations[x]]
    BY <1>8, <1>10 DEF Disband
  <2>2. s1.parties[g] = q
    BY <1>1, <1>9
  <2>3. r.parties = [ps EXCEPT ![g] = Disbanded]
    BY <1>1, <1>9, <2>1
  <2>4. r.partyOf = [x \in Folk |-> IF x \in PeopleOf(pt) THEN NoParty ELSE of[x]]
    <3>1. ASSUME NEW x \in Folk
          PROVE  (IF x = q.leader \/ x \in Range(q.members) THEN NoParty ELSE s1.partyOf[x])
                   = IF x \in PeopleOf(pt) THEN NoParty ELSE of[x]
      <4>1. s1.partyOf[x] = IF x = p THEN NoParty ELSE of[x]
        BY <1>1, <1>9
      <4>2. x \in PeopleOf(pt) <=> x = q.leader \/ x \in Range(q.members) \/ x = p
        BY <1>6
      <4>3. QED
        BY <4>1, <4>2
    <3>2. QED
      BY <2>1, <2>2, <3>1
  <2>5. r.invitations = [x \in Folk |-> IF x \in pt.invites THEN inv[x] \ {g} ELSE inv[x]]
    BY <1>6, <1>9, <2>1, <2>2
  <2>6. PICK of2, inv2 : of2 = r.partyOf /\ inv2 = r.invitations
    OBVIOUS
  <2>7. Forgotten(g, ps[g], of, inv, of2, inv2)
    BY <1>3, <2>4, <2>5, <2>6 DEF Forgotten
  <2>8. PartyStateOK([ps EXCEPT ![g] = Disbanded], of2, inv2, game)
    BY <2>7, DisbandOK
  <2>9. r.partyOf[p] = NoParty
    BY <1>1, <1>4, <2>4
  <2>10. QED
    BY <2>3, <2>6, <2>8, <2>9
<1>11. CASE ~MissingLeader(pt, p) /\ ~IsEmpty(q)
  <2>1. r = s1 /\ PartyInOrder(q) /\ PeopleOf(q) = PeopleOf(pt) \ {p}
    BY <1>6, <1>8, <1>11
  <2>2. PICK of2 : of2 = [of EXCEPT ![p] = NoParty]
    OBVIOUS
  <2>3. of2 \in [Folk -> Parties \cup {NoParty}] /\ of2[p] = NoParty /\ \A x \in Folk : x # p => of2[x] = of[x]
    BY <1>1, <2>2
  <2>4. NoParty \notin Parties
    BY PartyAssumption DEF PartyAssumption
  <2>5. OthersSame(g, of, inv, of2, inv)
    BY <1>1, <1>2, <2>3, <2>4 DEF OthersSame
  <2>6. PlayersAgree(g, q, game, of2, inv)
    BY <1>4, <1>6, <2>1, <2>3, <2>4 DEF PlayersAgree
  <2>7. PartyStateOK([ps EXCEPT ![g] = q], of2, inv, game)
    BY <2>1, <2>5, <2>6, OneParty
  <2>8. QED
    BY <1>9, <2>1, <2>2, <2>3, <2>7
<1>12. QED
  BY <1>10, <1>11

\* removeInvite() of parties that have invited the player.
LEMMA RemoveInvitesOK ==
  ASSUME NEW ps, NEW of, NEW inv, NEW game, PartyStateOK(ps, of, inv, game),
         NEW p \in game, NEW gs, gs \subseteq inv[p],
         NEW s, s.parties = ps, s.partyOf = of, s.invitations = inv,
         NEW r, r = RemoveInvites(s, p, gs)
  PROVE  /\ PartyStateOK(r.parties, r.partyOf, r.invitations, game)
         /\ of[p] = NoParty => r.partyOf[p] = NoParty
         /\ r.invitations[p] = inv[p] \ gs
<1>1. /\ p \in Folk /\ game \subseteq Folk /\ ps \in [Parties -> PartyObjects]
      /\ of \in [Folk -> Parties \cup {NoParty}] /\ inv \in [Folk -> SUBSET Parties]
      /\ \A g \in Parties : PartyInOrder(ps[g]) /\ PlayersAgree(g, ps[g], game, of, inv)
  BY DEF PartyStateOK
<1>2. gs \subseteq Parties /\ NoParty \notin Parties
  BY <1>1, PartyAssumption DEF PartyAssumption
<1>3. PICK ended : ended = {g \in gs : p \in ps[g].invites /\ IsEmpty(Uninvited(ps[g], p))}
  OBVIOUS
<1>4. /\ r.parties = [g \in Parties |-> IF g \in ended THEN Disbanded
                                        ELSE IF g \in gs THEN Uninvited(ps[g], p) ELSE ps[g]]
      /\ r.partyOf = [q \in Folk |-> IF \E g \in ended : q = ps[g].leader THEN NoParty ELSE of[q]]
      /\ r.invitations = [inv EXCEPT ![p] = inv[p] \ gs]
  BY <1>3 DEF RemoveInvites
<1>5. PICK ps2, of2, inv2 : ps2 = r.parties /\ of2 = r.partyOf /\ inv2 = r.invitations
  OBVIOUS
<1>6. /\ inv2 \in [Folk -> SUBSET Parties] /\ inv2[p] = inv[p] \ gs
      /\ \A q \in Folk : q # p => inv2[q] = inv[q]
  BY <1>1, <1>4, <1>5
<1>7. ASSUME NEW g \in ended
      PROVE  /\ g \in gs /\ g \in Parties /\ PeopleOf(ps[g]) = {ps[g].leader} /\ ps[g].invites = {p}
             /\ ps[g].leader \in Folk
  <2>1. g \in gs /\ g \in Parties /\ p \in ps[g].invites /\ IsEmpty(Uninvited(ps[g], p))
    BY <1>2, <1>3
  <2>2. PartyInOrder(ps[g]) /\ ps[g] \in PartyObjects
    BY <1>1, <2>1
  <2>3. Uninvited(ps[g], p).members = ps[g].members /\ Uninvited(ps[g], p).invites = ps[g].invites \ {p}
    BY <2>2 DEF Uninvited, PartyObjects
  <2>4. ps[g].members = <<>> /\ ps[g].invites = {p}
    BY <2>1, <2>3 DEF IsEmpty
  <2>5. ps[g].leader # NoLeader /\ ps[g].leader \in Folk
    BY <2>1, <2>2 DEF PartyInOrder, PartyObjects, IsEmpty
  <2>6. QED
    BY <2>1, <2>4, <2>5, EmptyRange DEF PeopleOf
<1>8. /\ of2 \in [Folk -> Parties \cup {NoParty}]
      /\ \A q \in Folk : of2[q] = IF \E g \in ended : q = ps[g].leader THEN NoParty ELSE of[q]
  BY <1>1, <1>4, <1>5
<1>9. ASSUME NEW g \in ended, NEW q \in Folk, q = ps[g].leader PROVE of[q] = g
  BY <1>1, <1>7, <1>9 DEF PlayersAgree
<1>10. ASSUME NEW q \in Folk, NEW h \in Parties, h \notin ended PROVE of2[q] = h <=> of[q] = h
  BY <1>2, <1>8, <1>9, <1>10
<1>11. ASSUME NEW g \in ended
       PROVE  ps2[g] = Disbanded /\ PlayersAgree(g, Disbanded, game, of2, inv2)
  <2>1. ps2[g] = Disbanded
    BY <1>4, <1>5, <1>7
  <2>2. ASSUME NEW q \in game PROVE of2[q] # g
    <3>1. q \in Folk /\ (of[q] = g => q = ps[g].leader)
      BY <1>1, <1>7 DEF PlayersAgree
    <3>2. QED
      BY <1>2, <1>7, <1>8, <3>1
  <2>3. ASSUME NEW q \in game PROVE g \notin inv2[q]
    <3>1. q \in Folk /\ (g \in inv[q] => q = p)
      BY <1>1, <1>7 DEF PlayersAgree
    <3>2. QED
      BY <1>6, <1>7, <3>1
  <2>4. QED
    BY <2>1, <2>2, <2>3, DisbandedInOrder DEF PlayersAgree
<1>12. ASSUME NEW g \in gs, g \notin ended
       PROVE  PartyInOrder(ps2[g]) /\ PlayersAgree(g, ps2[g], game, of2, inv2)
  <2>1. g \in Parties /\ ps2[g] = Uninvited(ps[g], p) /\ ps[g] \in PartyObjects
    BY <1>1, <1>2, <1>4, <1>5, <1>12
  <2>2. PICK pt : pt = ps2[g]
    OBVIOUS
  <2>3. /\ pt \in PartyObjects /\ pt.leader = ps[g].leader /\ pt.members = ps[g].members
        /\ pt.invites = ps[g].invites \ {p}
    BY <2>1, <2>2 DEF Uninvited, PartyObjects
  <2>4. p \in ps[g].invites /\ ps[g].leader # NoLeader /\ ~IsEmpty(pt)
    <3>1. p \in ps[g].invites
      BY <1>1, <2>1 DEF PlayersAgree
    <3>2. ~IsEmpty(pt)
      BY <1>3, <1>12, <2>1, <2>2, <3>1
    <3>3. QED
      BY <1>1, <2>1, <3>1, <3>2 DEF PartyInOrder, IsEmpty
  <2>5. PeopleOf(pt) = PeopleOf(ps[g])
    BY <2>3 DEF PeopleOf
  <2>6. PartyInOrder(pt)
    BY <1>1, <2>1, <2>3, <2>4, <2>5 DEF PartyInOrder
  <2>7. PlayersAgree(g, ps[g], game, of, inv)
    BY <1>1, <2>1
  <2>8. \A q \in Folk : of2[q] = g <=> of[q] = g
    BY <1>10, <1>12, <2>1
  <2>9. \A q \in Folk : g \in inv2[q] <=> g \in inv[q] /\ q # p
    BY <1>6
  <2>10. PlayersAgree(g, pt, game, of2, inv2)
    BY <2>3, <2>5, <2>7, <2>8, <2>9 DEF PlayersAgree
  <2>11. QED
    BY <2>2, <2>6, <2>10
<1>13. ASSUME NEW g \in Parties, g \notin gs
       PROVE  PartyInOrder(ps2[g]) /\ PlayersAgree(g, ps2[g], game, of2, inv2)
  <2>1. g \notin ended
    BY <1>3, <1>13
  <2>2. ps2[g] = ps[g]
    BY <1>4, <1>5, <1>13, <2>1
  <2>3. \A q \in Folk : of2[q] = g <=> of[q] = g
    BY <1>10, <2>1
  <2>4. \A q \in Folk : g \in inv2[q] <=> g \in inv[q]
    BY <1>6, <1>13
  <2>5. QED
    BY <1>1, <2>2, <2>3, <2>4 DEF PlayersAgree
<1>14. \A g \in Parties : PartyInOrder(ps2[g]) /\ PlayersAgree(g, ps2[g], game, of2, inv2)
  BY <1>11, <1>12, <1>13, DisbandedInOrder
<1>15. ps2 \in [Parties -> PartyObjects]
  <2>1. \A g \in Parties : ps2[g] \in PartyObjects
    BY <1>14 DEF PartyInOrder
  <2>2. ps2 = [g \in Parties |-> ps2[g]]
    BY <1>4, <1>5
  <2>3. QED
    BY <2>1, <2>2
<1>16. PartyStateOK(ps2, of2, inv2, game)
  BY <1>1, <1>6, <1>8, <1>14, <1>15 DEF PartyStateOK
<1>17. QED
  BY <1>1, <1>5, <1>6, <1>8, <1>16

\* A player without a party and without invitations is gone from the game.
LEMMA GoneOK ==
  ASSUME NEW ps, NEW of, NEW inv, NEW game, PartyStateOK(ps, of, inv, game),
         NEW p \in game, of[p] = NoParty, inv[p] = {}
  PROVE  PartyStateOK(ps, of, inv, game \ {p})
<1>1. ASSUME NEW g \in Parties PROVE PlayersAgree(g, ps[g], game \ {p}, of, inv)
  BY PartyAssumption DEF PartyStateOK, PlayersAgree, PartyAssumption
<1>2. QED
  BY <1>1 DEF PartyStateOK

\* A new Player object without a party and without invitations comes into the game.
LEMMA ComesOK ==
  ASSUME NEW ps, NEW of, NEW inv, NEW game, PartyStateOK(ps, of, inv, game),
         NEW p \in Folk, p \notin game
  PROVE  PartyStateOK(ps, [of EXCEPT ![p] = NoParty], [inv EXCEPT ![p] = {}], game \cup {p})
<1>1. PICK of2, inv2 : of2 = [of EXCEPT ![p] = NoParty] /\ inv2 = [inv EXCEPT ![p] = {}]
  OBVIOUS
<1>2. of \in [Folk -> Parties \cup {NoParty}] /\ inv \in [Folk -> SUBSET Parties]
  BY DEF PartyStateOK
<1>3. /\ of2 \in [Folk -> Parties \cup {NoParty}] /\ inv2 \in [Folk -> SUBSET Parties]
      /\ of2[p] = NoParty /\ inv2[p] = {}
      /\ \A q \in Folk : q # p => of2[q] = of[q] /\ inv2[q] = inv[q]
  BY <1>1, <1>2
<1>4. ASSUME NEW g \in Parties PROVE PlayersAgree(g, ps[g], game \cup {p}, of2, inv2)
  <2>1. PlayersAgree(g, ps[g], game, of, inv) /\ NoParty # g
    BY PartyAssumption DEF PartyStateOK, PartyAssumption
  <2>2. p \notin PeopleOf(ps[g]) /\ p \notin ps[g].invites
    BY <2>1 DEF PlayersAgree
  <2>3. QED
    BY <1>3, <2>1, <2>2 DEF PlayersAgree
<1>5. PartyStateOK(ps, of2, inv2, game \cup {p})
  BY <1>3, <1>4 DEF PartyStateOK
<1>6. QED
  BY <1>1, <1>5

\* At start there is no party.
LEMMA PartyInitInv == PartyInit => PartyInv
<1>1. SUFFICES ASSUME PartyInit PROVE PartyInv
  OBVIOUS
<1>2. /\ inGame = Folk /\ parties \in [Parties -> PartyObjects] /\ \A g \in Parties : parties[g] = Disbanded
      /\ partyOf \in [Folk -> Parties \cup {NoParty}] /\ \A p \in Folk : partyOf[p] = NoParty
      /\ invitations \in [Folk -> SUBSET Parties] /\ \A p \in Folk : invitations[p] = {}
  BY <1>1, DisbandedInOrder DEF PartyInit, PartyInOrder
<1>3. ASSUME NEW g \in Parties
      PROVE  PlayersAgree(g, Disbanded, inGame, partyOf, invitations)
  BY <1>2, DisbandedInOrder, PartyAssumption DEF PlayersAgree, PartyAssumption
<1>4. QED
  BY <1>2, <1>3, DisbandedInOrder DEF PartyInv, PartyStateOK

\* An invitation, of a leader or of a player who becomes one.
LEMMA InviteInv ==
  ASSUME PartyInv, NEW p \in Folk, NEW q \in Folk, PlayerInviteToParty(p, q)
  PROVE  PartyInv'
<1>1. /\ p \in inGame /\ q \in inGame /\ p # q /\ partyOf[q] = NoParty /\ inGame' = inGame
  BY DEF PlayerInviteToParty
<1>2. PICK g \in Parties :
        /\ \/ partyOf[p] = NoParty /\ Unheld(g)
              /\ parties' = [parties EXCEPT ![g] =
                   [leader |-> p, members |-> <<>>, invites |-> {q}]]
              /\ partyOf' = [partyOf EXCEPT ![p] = g]
           \/ Leads(p, g) /\ q \notin parties[g].invites
              /\ parties' = [parties EXCEPT ![g].invites = @ \cup {q}]
              /\ UNCHANGED partyOf
        /\ invitations' = [invitations EXCEPT ![q] = @ \cup {g}]
  BY DEF PlayerInviteToParty
<1>3. /\ partyOf \in [Folk -> Parties \cup {NoParty}] /\ invitations \in [Folk -> SUBSET Parties]
      /\ parties \in [Parties -> PartyObjects]
      /\ PartyInOrder(parties[g]) /\ PlayersAgree(g, parties[g], inGame, partyOf, invitations)
  BY DEF PartyInv, PartyStateOK
<1>4. PICK inv2 : inv2 = invitations'
  OBVIOUS
<1>5. /\ inv2 \in [Folk -> SUBSET Parties] /\ inv2[q] = invitations[q] \cup {g}
      /\ \A x \in Folk : x # q => inv2[x] = invitations[x]
  BY <1>2, <1>3, <1>4
<1>6. NoParty \notin Parties /\ NoLeader \notin Folk
  BY PartyAssumption DEF PartyAssumption
<1>7. CASE /\ partyOf[p] = NoParty /\ Unheld(g)
           /\ parties' = [parties EXCEPT ![g] = [leader |-> p, members |-> <<>>, invites |-> {q}]]
           /\ partyOf' = [partyOf EXCEPT ![p] = g]
  <2>1. PICK of2 : of2 = partyOf'
    OBVIOUS
  <2>2. /\ of2 \in [Folk -> Parties \cup {NoParty}] /\ of2[p] = g
        /\ \A x \in Folk : x # p => of2[x] = partyOf[x]
    BY <1>3, <1>7, <2>1
  <2>3. PICK pt : pt = [leader |-> p, members |-> <<>>, invites |-> {q}]
    OBVIOUS
  <2>4. pt \in PartyObjects /\ pt.leader = p /\ pt.members = <<>> /\ pt.invites = {q}
    BY <2>3 DEF PartyObjects
  <2>5. PeopleOf(pt) = {p} /\ PartyInOrder(pt)
    BY <1>1, <1>6, <2>4, EmptyRange DEF PeopleOf, PartyInOrder, IsEmpty
  <2>6. \A x \in Folk : partyOf[x] # g /\ g \notin invitations[x]
    BY <1>7 DEF Unheld
  <2>7. OthersSame(g, partyOf, invitations, of2, inv2)
    BY <1>5, <1>6, <1>7, <2>2 DEF OthersSame
  <2>8. PlayersAgree(g, pt, inGame, of2, inv2)
    BY <1>1, <1>5, <2>2, <2>4, <2>5, <2>6 DEF PlayersAgree
  <2>9. PartyStateOK([parties EXCEPT ![g] = pt], of2, inv2, inGame)
    BY <2>5, <2>7, <2>8, OneParty DEF PartyInv
  <2>10. parties' = [parties EXCEPT ![g] = pt]
    BY <1>7, <2>3
  <2>11. QED
    BY <1>1, <1>4, <2>1, <2>9, <2>10 DEF PartyInv
<1>8. CASE /\ Leads(p, g) /\ parties' = [parties EXCEPT ![g].invites = @ \cup {q}]
           /\ UNCHANGED partyOf
  <2>1. PICK pt : pt = [parties[g] EXCEPT !.invites = @ \cup {q}]
    OBVIOUS
  <2>2. parties' = [parties EXCEPT ![g] = pt]
    BY <1>3, <1>8, <2>1
  <2>3. /\ pt \in PartyObjects /\ pt.leader = parties[g].leader /\ pt.members = parties[g].members
        /\ pt.invites = parties[g].invites \cup {q}
    BY <1>3, <2>1 DEF PartyObjects
  <2>4. PeopleOf(pt) = PeopleOf(parties[g]) /\ q \notin PeopleOf(parties[g])
    BY <1>1, <1>3, <1>6, <2>3 DEF PeopleOf, PlayersAgree
  <2>5. parties[g].leader # NoLeader
    BY <1>6, <1>8 DEF Leads
  <2>6. PartyInOrder(pt)
    BY <1>3, <2>3, <2>4, <2>5 DEF PartyInOrder, IsEmpty
  <2>7. OthersSame(g, partyOf, invitations, partyOf, inv2)
    BY <1>3, <1>5 DEF OthersSame
  <2>8. PlayersAgree(g, pt, inGame, partyOf, inv2)
    BY <1>1, <1>3, <1>5, <2>3, <2>4 DEF PlayersAgree
  <2>9. PartyStateOK([parties EXCEPT ![g] = pt], partyOf, inv2, inGame)
    BY <2>6, <2>7, <2>8, OneParty DEF PartyInv
  <2>10. QED
    BY <1>1, <1>4, <1>8, <2>2, <2>9 DEF PartyInv
<1>9. QED
  BY <1>2, <1>7, <1>8

\* An invited player joins.
LEMMA JoinInv ==
  ASSUME PartyInv, NEW p \in Folk, NEW q \in Folk, PlayerJoinParty(p, q)
  PROVE  PartyInv'
<1>1. /\ p \in inGame /\ q \in inGame /\ partyOf[p] = NoParty /\ inGame' = inGame
      /\ IsInviting(q, p)
  BY DEF PlayerJoinParty
<1>2. PICK g \in Parties : Leads(q, g) /\ p \in parties[g].invites
  BY <1>1 DEF IsInviting
<1>3. partyOf[q] = g
  BY <1>2 DEF Leads
<1>4. /\ parties' = [parties EXCEPT ![g].invites = @ \ {p}, ![g].members = Append(@, p)]
      /\ partyOf' = [partyOf EXCEPT ![p] = g]
      /\ invitations' = [invitations EXCEPT ![p] = @ \ {g}]
  BY <1>3 DEF PlayerJoinParty
<1>5. /\ partyOf \in [Folk -> Parties \cup {NoParty}] /\ invitations \in [Folk -> SUBSET Parties]
      /\ parties \in [Parties -> PartyObjects]
      /\ PartyInOrder(parties[g]) /\ PlayersAgree(g, parties[g], inGame, partyOf, invitations)
  BY DEF PartyInv, PartyStateOK
<1>6. PICK of2, inv2 : of2 = partyOf' /\ inv2 = invitations'
  OBVIOUS
<1>7. /\ of2 \in [Folk -> Parties \cup {NoParty}] /\ of2[p] = g
      /\ \A x \in Folk : x # p => of2[x] = partyOf[x]
  BY <1>4, <1>5, <1>6
<1>8. /\ inv2 \in [Folk -> SUBSET Parties] /\ inv2[p] = invitations[p] \ {g}
      /\ \A x \in Folk : x # p => inv2[x] = invitations[x]
  BY <1>4, <1>5, <1>6
<1>9. NoParty \notin Parties /\ NoLeader \notin Folk
  BY PartyAssumption DEF PartyAssumption
<1>10. PICK pt : pt = [[parties[g] EXCEPT !.invites = @ \ {p}] EXCEPT !.members = Append(@, p)]
  OBVIOUS
<1>11. parties' = [parties EXCEPT ![g] = pt]
  BY <1>4, <1>5, <1>10
<1>12. /\ parties[g].members \in Seq(Folk) /\ IsInjective(parties[g].members)
       /\ p \notin PeopleOf(parties[g]) /\ parties[g].leader # NoLeader /\ parties[g].leader = q
       /\ PeopleOf(parties[g]) = {q} \cup Range(parties[g].members)
  BY <1>1, <1>2, <1>5, <1>9 DEF PartyInOrder, PartyObjects, PeopleOf, PlayersAgree, Leads
<1>13. /\ Append(parties[g].members, p) \in Seq(Folk) /\ IsInjective(Append(parties[g].members, p))
       /\ Range(Append(parties[g].members, p)) = Range(parties[g].members) \cup {p}
  BY <1>12, AppendRange
<1>14. /\ pt \in PartyObjects /\ pt.leader = q /\ pt.members = Append(parties[g].members, p)
       /\ pt.invites = parties[g].invites \ {p}
  <2>1. PICK pt1 : pt1 = [parties[g] EXCEPT !.invites = @ \ {p}]
    OBVIOUS
  <2>2. /\ pt1 \in PartyObjects /\ pt1.leader = q /\ pt1.members = parties[g].members
        /\ pt1.invites = parties[g].invites \ {p}
    BY <1>5, <1>12, <2>1 DEF PartyObjects
  <2>3. pt = [pt1 EXCEPT !.members = Append(@, p)]
    BY <1>10, <2>1
  <2>4. QED
    BY <1>13, <2>2, <2>3 DEF PartyObjects
<1>15. PeopleOf(pt) = PeopleOf(parties[g]) \cup {p}
  BY <1>12, <1>13, <1>14 DEF PeopleOf
<1>16. pt.members # <<>>
  BY <1>13, <1>14, EmptyRange
<1>17. PartyInOrder(pt)
  BY <1>5, <1>12, <1>13, <1>14, <1>15, <1>16 DEF PartyInOrder, IsEmpty
<1>18. OthersSame(g, partyOf, invitations, of2, inv2)
  BY <1>1, <1>7, <1>8, <1>9 DEF OthersSame
<1>19. PlayersAgree(g, pt, inGame, of2, inv2)
  BY <1>1, <1>5, <1>7, <1>8, <1>14, <1>15 DEF PlayersAgree
<1>20. PartyStateOK([parties EXCEPT ![g] = pt], of2, inv2, inGame)
  BY <1>17, <1>18, <1>19, OneParty DEF PartyInv
<1>21. QED
  BY <1>1, <1>6, <1>11, <1>20 DEF PartyInv

\* The state of the parties, as the operations see it.
LEMMA PartyStateFields ==
  /\ PartyState.parties = parties /\ PartyState.partyOf = partyOf
  /\ PartyState.invitations = invitations
BY DEF PartyState

\* An invitation is revoked.
LEMMA RevokeInv ==
  ASSUME PartyInv, NEW p \in Folk, NEW q \in Folk, PlayerRevokeInvitation(p, q)
  PROVE  PartyInv'
<1>1. q \in inGame /\ IsInviting(p, q) /\ inGame' = inGame
  BY DEF PlayerRevokeInvitation
<1>2. PICK g \in Parties : Leads(p, g) /\ q \in parties[g].invites
  BY <1>1 DEF IsInviting
<1>3. partyOf[p] = g /\ {g} \subseteq invitations[q]
  BY <1>1, <1>2 DEF Leads, PartyInv, PartyStateOK, PlayersAgree
<1>4. PICK s, r : s = PartyState /\ r = RemoveInvites(s, q, {g})
  OBVIOUS
<1>5. parties' = r.parties /\ partyOf' = r.partyOf /\ invitations' = r.invitations
  BY <1>3, <1>4 DEF PlayerRevokeInvitation, PartyBecomes
<1>6. s.parties = parties /\ s.partyOf = partyOf /\ s.invitations = invitations
  BY <1>4, PartyStateFields
<1>7. PartyStateOK(r.parties, r.partyOf, r.invitations, inGame)
  BY <1>1, <1>3, <1>4, <1>6, RemoveInvitesOK DEF PartyInv
<1>8. QED
  BY <1>1, <1>5, <1>7 DEF PartyInv

\* The leadership passes.
LEMMA PassInv ==
  ASSUME PartyInv, NEW p \in Folk, NEW q \in Folk, PlayerPassLeadership(p, q)
  PROVE  PartyInv'
<1>1. p # q /\ q \in inGame /\ UNCHANGED <<inGame, partyOf, invitations>>
  BY DEF PlayerPassLeadership
<1>2. PICK g \in Parties : /\ Leads(p, g) /\ partyOf[q] = g
                           /\ parties' = [parties EXCEPT ![g] = PassLeadership(@, q)]
  BY DEF PlayerPassLeadership
<1>3. /\ partyOf \in [Folk -> Parties \cup {NoParty}] /\ invitations \in [Folk -> SUBSET Parties]
      /\ parties \in [Parties -> PartyObjects]
      /\ PartyInOrder(parties[g]) /\ PlayersAgree(g, parties[g], inGame, partyOf, invitations)
  BY DEF PartyInv, PartyStateOK
<1>4. q \in Range(parties[g].members)
  BY <1>1, <1>2, <1>3 DEF PlayersAgree, PeopleOf, Leads
<1>5. PICK old, pt : old = parties[g] /\ pt = PassLeadership(old, q)
  OBVIOUS
<1>6. PartyInOrder(pt) /\ PeopleOf(pt) = PeopleOf(old) /\ pt.invites = old.invites
  BY <1>3, <1>4, <1>5, PassFacts
<1>7. OthersSame(g, partyOf, invitations, partyOf, invitations)
  BY <1>3 DEF OthersSame
<1>8. PlayersAgree(g, pt, inGame, partyOf, invitations)
  BY <1>3, <1>5, <1>6 DEF PlayersAgree
<1>9. PartyStateOK([parties EXCEPT ![g] = pt], partyOf, invitations, inGame)
  BY <1>6, <1>7, <1>8, OneParty DEF PartyInv
<1>10. parties' = [parties EXCEPT ![g] = pt]
  BY <1>2, <1>3, <1>5
<1>11. QED
  BY <1>1, <1>9, <1>10 DEF PartyInv

\* A player leaves his party.
LEMMA LeavePartyInv ==
  ASSUME PartyInv, NEW p \in Folk, PlayerLeaveParty(p)
  PROVE  PartyInv'
<1>1. p \in inGame /\ partyOf[p] # NoParty /\ inGame' = inGame
  BY DEF PlayerLeaveParty
<1>2. PICK s, r : s = PartyState /\ r = LeaveParty(s, p)
  OBVIOUS
<1>3. parties' = r.parties /\ partyOf' = r.partyOf /\ invitations' = r.invitations
  BY <1>2 DEF PlayerLeaveParty, PartyBecomes
<1>4. s.parties = parties /\ s.partyOf = partyOf /\ s.invitations = invitations
  BY <1>2, PartyStateFields
<1>5. PartyStateOK(r.parties, r.partyOf, r.invitations, inGame)
  BY <1>1, <1>2, <1>4, LeaveOK DEF PartyInv
<1>6. QED
  BY <1>1, <1>3, <1>5 DEF PartyInv

\* A player logs out: he leaves his party and then the lists of invited players.
LEMMA LogoutPartyInv ==
  ASSUME PartyInv, NEW p \in Folk, OnRemoveCreature(p)
  PROVE  PartyInv'
<1>1. p \in inGame /\ inGame' = inGame \ {p}
  BY DEF OnRemoveCreature
<1>2. PICK s : s = PartyState
  OBVIOUS
<1>3. PICK left : left = IF partyOf[p] # NoParty THEN LeaveParty(s, p) ELSE s
  OBVIOUS
<1>4. PICK r : r = RemoveInvites(left, p, left.invitations[p])
  OBVIOUS
<1>5. parties' = r.parties /\ partyOf' = r.partyOf /\ invitations' = r.invitations
  BY <1>2, <1>3, <1>4 DEF OnRemoveCreature, PartyBecomes
<1>6. s.parties = parties /\ s.partyOf = partyOf /\ s.invitations = invitations
  BY <1>2, PartyStateFields
<1>7. /\ PartyStateOK(left.parties, left.partyOf, left.invitations, inGame)
      /\ left.partyOf[p] = NoParty
  <2>1. CASE partyOf[p] # NoParty
    BY <1>1, <1>3, <1>6, <2>1, LeaveOK DEF PartyInv
  <2>2. CASE partyOf[p] = NoParty
    BY <1>3, <1>6, <2>2 DEF PartyInv
  <2>3. QED
    BY <2>1, <2>2
<1>8. PICK ps, of, inv : ps = left.parties /\ of = left.partyOf /\ inv = left.invitations
  OBVIOUS
<1>9. /\ PartyStateOK(r.parties, r.partyOf, r.invitations, inGame)
      /\ r.partyOf[p] = NoParty /\ r.invitations[p] = inv[p] \ inv[p]
  <2>1. PICK gs : gs = inv[p]
    OBVIOUS
  <2>2. /\ PartyStateOK(ps, of, inv, inGame) /\ of[p] = NoParty /\ gs \subseteq inv[p]
        /\ left.parties = ps /\ left.partyOf = of /\ left.invitations = inv
        /\ r = RemoveInvites(left, p, gs)
    BY <1>4, <1>7, <1>8, <2>1
  <2>3. /\ PartyStateOK(r.parties, r.partyOf, r.invitations, inGame)
        /\ r.partyOf[p] = NoParty /\ r.invitations[p] = inv[p] \ gs
    BY <1>1, <2>2, RemoveInvitesOK
  <2>4. QED
    BY <2>1, <2>3
<1>10. PartyStateOK(r.parties, r.partyOf, r.invitations, inGame \ {p})
  BY <1>1, <1>9, GoneOK
<1>11. QED
  BY <1>1, <1>5, <1>10 DEF PartyInv

\* A player logs in again.
LEMMA LoginPartyInv ==
  ASSUME PartyInv, NEW p \in Folk, LoginAnew(p)
  PROVE  PartyInv'
<1>1. /\ p \notin inGame /\ inGame' = inGame \cup {p} /\ parties' = parties
      /\ partyOf' = [partyOf EXCEPT ![p] = NoParty] /\ invitations' = [invitations EXCEPT ![p] = {}]
  BY DEF LoginAnew
<1>2. PartyStateOK(parties, [partyOf EXCEPT ![p] = NoParty], [invitations EXCEPT ![p] = {}],
                   inGame \cup {p})
  BY <1>1, ComesOK DEF PartyInv
<1>3. QED
  BY <1>1, <1>2 DEF PartyInv

\* Every step keeps the invariant of the parties.
LEMMA PartyNextInv == ASSUME PartyInv, [PartyNext]_partyVars PROVE PartyInv'
<1>1. CASE UNCHANGED partyVars
  BY <1>1 DEF partyVars, PartyInv
<1>2. CASE PartyNext
  BY <1>2, InviteInv, JoinInv, RevokeInv, PassInv, LeavePartyInv, LogoutPartyInv, LoginPartyInv
     DEF PartyNext
<1>3. QED
  BY <1>1, <1>2

\* The invariant is what the run checks.
LEMMA PartyInvAgrees == PartyInv => PartiesAgree
<1>1. SUFFICES ASSUME PartyInv PROVE PartiesAgree
  OBVIOUS
<1>2. ASSUME NEW g \in Parties
      PROVE  /\ parties[g].leader \in Folk \cup {NoLeader}
             /\ parties[g].members \in Seq(Folk) /\ IsInjective(parties[g].members)
             /\ parties[g].leader \notin Range(parties[g].members)
             /\ parties[g].invites \subseteq Folk \ People(g)
             /\ (parties[g].leader # NoLeader) <=> ~IsEmpty(parties[g])
  BY <1>1 DEF PartyInv, PartyStateOK, PartyInOrder, PartyObjects, People
<1>3. PartyTypeOK
  BY <1>1, <1>2 DEF PartyInv, PartyStateOK, PartyTypeOK
<1>4. MembershipAgrees /\ InvitationsAgree
  BY <1>1 DEF PartyInv, PartyStateOK, PlayersAgree, MembershipAgrees, InvitationsAgree, People
<1>5. QED
  BY <1>3, <1>4 DEF PartiesAgree

\* Party: for any players and any number of Party objects, the party's lists and the
\* players' own records of membership and of invitations always say the same, in
\* whatever order players invite, join, pass the lead, leave, log out and return.
THEOREM PartiesStayAgreed == PartySpec => []PartiesAgree
<1>1. QED
  BY PartyInitInv, PartyNextInv, PartyInvAgrees, PTL DEF PartySpec

\* A party that loses one player at most and is led by one of its people lives on.
LEMMA KeepsPeople ==
  ASSUME NEW pt, PartyInOrder(pt), NEW new, NEW p,
         PeopleOf(pt) \subseteq PeopleOf(new) \cup {p}, new.leader \in PeopleOf(pt)
  PROVE  LivesOn(pt, new)
<1>1. PeopleOf(pt) \subseteq Folk
  BY RangeOfSeq DEF PartyInOrder, PartyObjects, PeopleOf
<1>2. new.leader # NoLeader
  BY <1>1, PartyAssumption DEF PartyAssumption
<1>3. IsFiniteSet({p}) /\ Cardinality({p}) = 1
  BY FS_Singleton
<1>4. PeopleOf(pt) \ PeopleOf(new) \subseteq {p}
  OBVIOUS
<1>5. Cardinality(PeopleOf(pt) \ PeopleOf(new)) <= 1
  BY <1>3, <1>4, FS_Subset
<1>6. QED
  BY <1>2, <1>5 DEF LivesOn

\* A party that stays as it is lives on.
LEMMA StaysAsItIs == ASSUME NEW pt, PartyInOrder(pt) PROVE LivesOn(pt, pt)
<1>1. CASE pt.leader = NoLeader
  BY <1>1 DEF LivesOn
<1>2. CASE pt.leader # NoLeader
  <2>1. pt.leader \in PeopleOf(pt)
    BY <1>2 DEF PeopleOf
  <2>2. QED
    BY <2>1, KeepsPeople
<1>3. QED
  BY <1>1, <1>2

\* Two people without invitations may be disbanded.
LEMMA EndsSmall ==
  ASSUME NEW pt, NEW a, NEW b, PeopleOf(pt) \subseteq {a, b}, pt.invites = {}
  PROVE  LivesOn(pt, Disbanded)
<1>1. IsFiniteSet({a}) /\ Cardinality({a}) = 1 /\ Cardinality({}) = 0
  BY FS_Singleton, FS_EmptySet
<1>2. /\ IsFiniteSet({a} \cup {b})
      /\ Cardinality({a} \cup {b}) = IF b \in {a} THEN Cardinality({a}) ELSE Cardinality({a}) + 1
  BY <1>1, FS_AddElement
<1>3. PICK two : two = {a} \cup {b}
  OBVIOUS
<1>4. IsFiniteSet(two) /\ Cardinality(two) \in {1, 2} /\ PeopleOf(pt) \subseteq two
  BY <1>1, <1>2, <1>3
<1>5. Cardinality(PeopleOf(pt)) <= Cardinality(two) /\ Cardinality(PeopleOf(pt)) \in Nat
  BY <1>4, FS_Subset, FS_CardinalityType
<1>6. Cardinality(PeopleOf(pt)) + Cardinality(pt.invites) <= 2
  BY <1>1, <1>4, <1>5
<1>7. Disbanded.leader = NoLeader
  BY DEF Disbanded
<1>8. QED
  BY <1>6, <1>7 DEF LivesOn

\* leaveParty() touches one party, which lives on without the player.
LEMMA LeaveLives ==
  ASSUME NEW ps, NEW of, NEW inv, NEW game, PartyStateOK(ps, of, inv, game),
         NEW p \in game, of[p] # NoParty,
         NEW s, s.parties = ps, s.partyOf = of, s.invitations = inv,
         NEW r, r = LeaveParty(s, p)
  PROVE  \A h \in Parties : /\ LivesOn(ps[h], r.parties[h])
                            /\ h # of[p] => r.parties[h] = ps[h]
                            /\ h = of[p] => h \notin r.invitations[p]
<1>1. /\ p \in Folk /\ game \subseteq Folk /\ ps \in [Parties -> PartyObjects]
      /\ of \in [Folk -> Parties \cup {NoParty}] /\ inv \in [Folk -> SUBSET Parties]
      /\ \A h \in Parties : PartyInOrder(ps[h])
  BY DEF PartyStateOK
<1>2. PICK g \in Parties : g = of[p]
  BY <1>1
<1>3. PICK pt : pt = ps[g]
  OBVIOUS
<1>4. PartyInOrder(pt) /\ PlayersAgree(g, pt, game, of, inv) /\ p \in PeopleOf(pt)
  BY <1>1, <1>2, <1>3 DEF PartyStateOK, PlayersAgree
<1>5. PICK q : q = LeftBy(pt, p)
  OBVIOUS
<1>6. /\ q \in PartyObjects /\ q.invites = pt.invites
      /\ {q.leader} \cup Range(q.members) \cup {p} = PeopleOf(pt)
      /\ ~MissingLeader(pt, p) /\ ~IsEmpty(q) =>
           PartyInOrder(q) /\ PeopleOf(q) = PeopleOf(pt) \ {p}
  BY <1>4, <1>5, LeftFacts
<1>7. PICK s1 : s1 = [parties |-> [ps EXCEPT ![g] = q], partyOf |-> [of EXCEPT ![p] = NoParty],
                      invitations |-> inv]
  OBVIOUS
<1>8. r = IF MissingLeader(pt, p) \/ IsEmpty(q) THEN Disband(s1, g) ELSE s1
  BY <1>2, <1>3, <1>5, <1>7 DEF LeaveParty
<1>9. s1.parties = [ps EXCEPT ![g] = q] /\ s1.invitations = inv
  BY <1>7
<1>10. g \notin inv[p]
  BY <1>1, <1>4 DEF PlayersAgree, PartyInOrder
<1>11. CASE MissingLeader(pt, p) \/ IsEmpty(q)
  <2>1. /\ r.parties = [s1.parties EXCEPT ![g] = Disbanded]
        /\ r.invitations = [x \in Folk |-> IF x \in s1.parties[g].invites
                                           THEN s1.invitations[x] \ {g} ELSE s1.invitations[x]]
    BY <1>8, <1>11 DEF Disband
  <2>2. /\ r.parties[g] = Disbanded /\ g \notin r.invitations[p]
        /\ \A h \in Parties : h # g => r.parties[h] = ps[h]
    BY <1>1, <1>9, <1>10, <2>1
  <2>3. LivesOn(pt, Disbanded)
    <3>1. CASE pt.members = <<>>
      <4>1. PeopleOf(pt) = {pt.leader}
        BY <1>4, <3>1, EmptyRange DEF PeopleOf
      <4>2. Disbanded.leader = NoLeader
        BY DEF Disbanded
      <4>3. QED
        BY <4>1, <4>2 DEF LivesOn
    <3>2. CASE pt.members # <<>> /\ MissingLeader(pt, p)
      <4>1. Len(pt.members) = 1 /\ pt.invites = {} /\ p = pt.leader
        BY <3>2, EmptySeq DEF MissingLeader
      <4>2. Range(pt.members) = {pt.members[1]}
        <5>1. DOMAIN pt.members = 1..1
          BY <1>4, <4>1, LenProperties DEF PartyInOrder, PartyObjects
        <5>2. 1..1 = {1}
          OBVIOUS
        <5>3. QED
          BY <5>1, <5>2 DEF Range
      <4>3. PeopleOf(pt) \subseteq {pt.leader, pt.members[1]}
        BY <4>2 DEF PeopleOf
      <4>4. QED
        BY <4>1, <4>3, EndsSmall
    <3>3. CASE IsEmpty(q)
      <4>1. Range(q.members) = {} /\ pt.invites = {}
        BY <1>6, <3>3, EmptyRange DEF IsEmpty
      <4>2. PeopleOf(pt) \subseteq {q.leader, p}
        BY <1>6, <4>1
      <4>3. QED
        BY <4>1, <4>2, EndsSmall
    <3>4. QED
      BY <1>11, <3>1, <3>2, <3>3
  <2>4. QED
    BY <1>1, <1>2, <1>3, <2>2, <2>3, StaysAsItIs
<1>12. CASE ~MissingLeader(pt, p) /\ ~IsEmpty(q)
  <2>1. /\ r.parties[g] = q /\ r.invitations = inv
        /\ \A h \in Parties : h # g => r.parties[h] = ps[h]
    BY <1>1, <1>8, <1>9, <1>12
  <2>2. LivesOn(pt, q)
    BY <1>4, <1>6, <1>12, KeepsPeople
  <2>3. QED
    BY <1>1, <1>2, <1>3, <1>10, <2>1, <2>2, StaysAsItIs
<1>13. QED
  BY <1>11, <1>12

\* removeInvite() ends only the party of a leader alone.
LEMMA RemoveInvitesLives ==
  ASSUME NEW ps, NEW of, NEW inv, NEW game, PartyStateOK(ps, of, inv, game),
         NEW p \in game, NEW gs, gs \subseteq inv[p],
         NEW s, s.parties = ps, s.partyOf = of, s.invitations = inv,
         NEW r, r = RemoveInvites(s, p, gs)
  PROVE  \A h \in Parties : /\ LivesOn(ps[h], r.parties[h])
                            /\ h \notin gs => r.parties[h] = ps[h]
<1>1. /\ ps \in [Parties -> PartyObjects] /\ \A h \in Parties : PartyInOrder(ps[h])
  BY DEF PartyStateOK
<1>2. PICK ended : ended = {g \in gs : p \in ps[g].invites /\ IsEmpty(Uninvited(ps[g], p))}
  OBVIOUS
<1>3. r.parties = [g \in Parties |-> IF g \in ended THEN Disbanded
                                     ELSE IF g \in gs THEN Uninvited(ps[g], p) ELSE ps[g]]
  BY <1>2 DEF RemoveInvites
<1>4. SUFFICES ASSUME NEW h \in Parties
               PROVE  LivesOn(ps[h], r.parties[h]) /\ (h \notin gs => r.parties[h] = ps[h])
  OBVIOUS
<1>5. PICK pt : pt = Uninvited(ps[h], p)
  OBVIOUS
<1>6. pt.leader = ps[h].leader /\ pt.members = ps[h].members /\ PeopleOf(pt) = PeopleOf(ps[h])
  BY <1>1, <1>5 DEF Uninvited, PartyObjects, PeopleOf
<1>7. CASE h \in ended
  <2>1. h \in gs /\ ps[h].members = <<>> /\ r.parties[h] = Disbanded
    BY <1>2, <1>3, <1>5, <1>6, <1>7 DEF IsEmpty
  <2>2. LivesOn(ps[h], Disbanded)
    <3>1. PeopleOf(ps[h]) \subseteq {ps[h].leader} /\ Disbanded.leader = NoLeader
      BY <2>1, EmptyRange DEF PeopleOf, Disbanded
    <3>2. ps[h].leader # NoLeader => PeopleOf(ps[h]) = {ps[h].leader}
      BY <2>1, EmptyRange DEF PeopleOf
    <3>3. QED
      BY <3>1, <3>2 DEF LivesOn
  <2>3. QED
    BY <2>1, <2>2
<1>8. CASE h \notin ended /\ h \in gs
  <2>1. r.parties[h] = pt
    BY <1>3, <1>5, <1>8
  <2>2. CASE ps[h].leader = NoLeader
    BY <1>8, <2>1, <2>2 DEF LivesOn
  <2>3. CASE ps[h].leader # NoLeader
    <3>1. pt.leader \in PeopleOf(ps[h])
      BY <1>6, <2>3 DEF PeopleOf
    <3>2. QED
      BY <1>1, <1>6, <1>8, <2>1, <3>1, KeepsPeople
  <2>4. QED
    BY <2>2, <2>3
<1>9. CASE h \notin gs
  <2>1. r.parties[h] = ps[h]
    BY <1>2, <1>3, <1>9
  <2>2. QED
    BY <1>1, <2>1, StaysAsItIs
<1>10. QED
  BY <1>7, <1>8, <1>9

\* Every step lets every party live on.
LEMMA LivesOnStep ==
  ASSUME PartyInv, PartyNext, NEW h \in Parties
  PROVE  LivesOn(parties[h], parties'[h])
<1>1. /\ parties \in [Parties -> PartyObjects] /\ \A g \in Parties : PartyInOrder(parties[g])
      /\ inGame \subseteq Folk
  BY DEF PartyInv, PartyStateOK
<1>2. CASE parties'[h] = parties[h]
  BY <1>1, <1>2, StaysAsItIs
<1>3. ASSUME NEW p \in Folk, NEW q \in Folk, PlayerInviteToParty(p, q)
      PROVE  LivesOn(parties[h], parties'[h])
  <2>1. PICK g \in Parties :
          \/ /\ Unheld(g)
             /\ parties' = [parties EXCEPT ![g] = [leader |-> p, members |-> <<>>, invites |-> {q}]]
          \/ Leads(p, g) /\ parties' = [parties EXCEPT ![g].invites = @ \cup {q}]
    BY <1>3 DEF PlayerInviteToParty
  <2>2. CASE h # g
    BY <1>1, <1>2, <2>1, <2>2
  <2>3. CASE h = g /\ Unheld(g)
    <3>1. parties[g].leader = NoLeader
      <4>1. \A x \in Folk : x \notin PeopleOf(parties[g])
        BY <2>3 DEF Unheld, PartyInv, PartyStateOK, PlayersAgree
      <4>2. QED
        BY <1>1, <4>1 DEF PartyObjects, PeopleOf
    <3>2. QED
      BY <2>3, <3>1 DEF LivesOn
  <2>4. CASE h = g /\ parties' = [parties EXCEPT ![g].invites = @ \cup {q}]
    <3>1. parties'[g].leader = parties[g].leader /\ parties'[g].members = parties[g].members
      BY <1>1, <2>4 DEF PartyObjects
    <3>2. PeopleOf(parties'[g]) = PeopleOf(parties[g])
      BY <3>1 DEF PeopleOf
    <3>3. CASE parties[g].leader = NoLeader
      BY <2>4, <3>3 DEF LivesOn
    <3>4. CASE parties[g].leader # NoLeader
      <4>1. parties'[g].leader \in PeopleOf(parties[g])
        BY <3>1, <3>4 DEF PeopleOf
      <4>2. QED
        BY <1>1, <2>4, <3>2, <4>1, KeepsPeople
    <3>5. QED
      BY <3>3, <3>4
  <2>5. QED
    BY <2>1, <2>2, <2>3, <2>4
<1>4. ASSUME NEW p \in Folk, NEW q \in Folk, PlayerJoinParty(p, q)
      PROVE  LivesOn(parties[h], parties'[h])
  <2>1. PICK g \in Parties : Leads(q, g)
    BY <1>4 DEF PlayerJoinParty, IsInviting
  <2>2. parties' = [parties EXCEPT ![g].invites = @ \ {p}, ![g].members = Append(@, p)]
    BY <1>4, <2>1 DEF PlayerJoinParty, Leads
  <2>3. CASE h # g
    BY <1>1, <1>2, <2>2, <2>3
  <2>4. CASE h = g
    <3>1. /\ parties'[g].leader = parties[g].leader
          /\ parties'[g].members = Append(parties[g].members, p)
      BY <1>1, <2>2 DEF PartyObjects
    <3>2. Range(parties'[g].members) = Range(parties[g].members) \cup {p}
      BY <1>1, <3>1, AppendRange DEF PartyObjects
    <3>3. parties[g].leader = q /\ q # NoLeader
      BY <2>1, PartyAssumption DEF Leads, PartyAssumption
    <3>4. /\ PeopleOf(parties[g]) \subseteq PeopleOf(parties'[g]) \cup {p}
          /\ parties'[g].leader \in PeopleOf(parties[g])
      BY <3>1, <3>2, <3>3 DEF PeopleOf
    <3>5. QED
      BY <1>1, <2>4, <3>4, KeepsPeople
  <2>5. QED
    BY <2>3, <2>4
<1>5. ASSUME NEW p \in Folk, NEW q \in Folk, PlayerRevokeInvitation(p, q)
      PROVE  LivesOn(parties[h], parties'[h])
  <2>1. q \in inGame /\ IsInviting(p, q)
    BY <1>5 DEF PlayerRevokeInvitation
  <2>2. PICK g \in Parties : Leads(p, g) /\ q \in parties[g].invites
    BY <2>1 DEF IsInviting
  <2>3. partyOf[p] = g /\ {g} \subseteq invitations[q]
    BY <2>1, <2>2 DEF Leads, PartyInv, PartyStateOK, PlayersAgree
  <2>4. PICK s, r : s = PartyState /\ r = RemoveInvites(s, q, {g})
    OBVIOUS
  <2>5. parties' = r.parties
    BY <1>5, <2>3, <2>4 DEF PlayerRevokeInvitation, PartyBecomes
  <2>6. s.parties = parties /\ s.partyOf = partyOf /\ s.invitations = invitations
    BY <2>4, PartyStateFields
  <2>7. LivesOn(parties[h], r.parties[h])
    BY <2>1, <2>3, <2>4, <2>6, RemoveInvitesLives DEF PartyInv
  <2>8. QED
    BY <2>5, <2>7
<1>6. ASSUME NEW p \in Folk, NEW q \in Folk, PlayerPassLeadership(p, q)
      PROVE  LivesOn(parties[h], parties'[h])
  <2>1. p # q /\ q \in inGame
    BY <1>6 DEF PlayerPassLeadership
  <2>2. PICK g \in Parties : /\ Leads(p, g) /\ partyOf[q] = g
                             /\ parties' = [parties EXCEPT ![g] = PassLeadership(@, q)]
    BY <1>6 DEF PlayerPassLeadership
  <2>3. CASE h # g
    BY <1>1, <1>2, <2>2, <2>3
  <2>4. CASE h = g
    <3>1. q \in Range(parties[g].members) /\ q \in PeopleOf(parties[g])
      BY <2>1, <2>2 DEF PartyInv, PartyStateOK, PlayersAgree, PeopleOf, Leads
    <3>2. PICK old, pt : old = parties[g] /\ pt = PassLeadership(old, q)
      OBVIOUS
    <3>3. PeopleOf(pt) = PeopleOf(old) /\ pt.leader = q
      BY <1>1, <3>1, <3>2, PassFacts
    <3>4. LivesOn(old, pt)
      BY <1>1, <3>1, <3>2, <3>3, KeepsPeople
    <3>5. parties'[g] = pt
      BY <1>1, <2>2, <3>2
    <3>6. QED
      BY <2>4, <3>2, <3>4, <3>5
  <2>5. QED
    BY <2>3, <2>4
<1>7. ASSUME NEW p \in Folk, PlayerLeaveParty(p)
      PROVE  LivesOn(parties[h], parties'[h])
  <2>1. p \in inGame /\ partyOf[p] # NoParty
    BY <1>7 DEF PlayerLeaveParty
  <2>2. PICK s, r : s = PartyState /\ r = LeaveParty(s, p)
    OBVIOUS
  <2>3. parties' = r.parties
    BY <1>7, <2>2 DEF PlayerLeaveParty, PartyBecomes
  <2>4. s.parties = parties /\ s.partyOf = partyOf /\ s.invitations = invitations
    BY <2>2, PartyStateFields
  <2>5. LivesOn(parties[h], r.parties[h])
    BY <2>1, <2>2, <2>4, LeaveLives DEF PartyInv
  <2>6. QED
    BY <2>3, <2>5
<1>8. ASSUME NEW p \in Folk, OnRemoveCreature(p)
      PROVE  LivesOn(parties[h], parties'[h])
  <2>1. p \in inGame
    BY <1>8 DEF OnRemoveCreature
  <2>2. PICK s : s = PartyState
    OBVIOUS
  <2>3. PICK left : left = IF partyOf[p] # NoParty THEN LeaveParty(s, p) ELSE s
    OBVIOUS
  <2>4. PICK ps, of, inv, gs : /\ ps = left.parties /\ of = left.partyOf /\ inv = left.invitations
                               /\ gs = inv[p]
    OBVIOUS
  <2>5. PICK r : r = RemoveInvites(left, p, gs)
    OBVIOUS
  <2>6. parties' = r.parties
    BY <1>8, <2>2, <2>3, <2>4, <2>5 DEF OnRemoveCreature, PartyBecomes
  <2>7. s.parties = parties /\ s.partyOf = partyOf /\ s.invitations = invitations
    BY <2>2, PartyStateFields
  <2>8. /\ PartyStateOK(ps, of, inv, inGame) /\ LivesOn(parties[h], ps[h])
        /\ ps[h] # parties[h] => h \notin gs
    <3>1. CASE partyOf[p] # NoParty
      <4>1. left = LeaveParty(s, p)
        BY <2>3, <3>1
      <4>2. PartyStateOK(left.parties, left.partyOf, left.invitations, inGame)
        BY <2>1, <2>7, <3>1, <4>1, LeaveOK DEF PartyInv
      <4>3. /\ LivesOn(parties[h], left.parties[h])
            /\ h # partyOf[p] => left.parties[h] = parties[h]
            /\ h = partyOf[p] => h \notin left.invitations[p]
        BY <2>1, <2>7, <3>1, <4>1, LeaveLives DEF PartyInv
      <4>4. QED
        BY <2>4, <4>2, <4>3
    <3>2. CASE partyOf[p] = NoParty
      BY <1>1, <2>3, <2>4, <2>7, <3>2, StaysAsItIs DEF PartyInv
    <3>3. QED
      BY <3>1, <3>2
  <2>9. LivesOn(ps[h], r.parties[h]) /\ (h \notin gs => r.parties[h] = ps[h])
    <3>1. gs \subseteq inv[p] /\ left.parties = ps /\ left.partyOf = of /\ left.invitations = inv
      BY <2>4
    <3>2. QED
      BY <2>1, <2>5, <2>8, <3>1, RemoveInvitesLives
  <2>10. QED
    BY <2>6, <2>8, <2>9
<1>9. ASSUME NEW p \in Folk, LoginAnew(p)
      PROVE  LivesOn(parties[h], parties'[h])
  BY <1>2, <1>9 DEF LoginAnew
<1>10. QED
  BY <1>3, <1>4, <1>5, <1>6, <1>7, <1>8, <1>9 DEF PartyNext

\* Party: whatever a handler does, a party of three people, or of two with an
\* invitation, is never disbanded, no step takes two of its people and its lead stays
\* among them.
THEOREM PartiesLiveOn == PartySpec => PartyLivesOn
<1>1. PartyInv /\ [PartyNext]_partyVars
        => [\A g \in Parties : LivesOn(parties[g], parties'[g])]_partyVars
  BY LivesOnStep
<1>2. QED
  BY <1>1, PartyInitInv, PartyNextInv, PTL DEF PartySpec, PartyLivesOn

-----------------------------------------------------------------------------
(***************************************************************************)
(* House: in each phase of the server the house in memory, its row in the  *)
(* database and the heir agree on the owner, and each thing has one place. *)
(***************************************************************************)

\* Who may own the house.
HouseOwners == Residents \cup {Nobody}

\* What the residents have.
Holdings == [Residents -> SUBSET Belongings]

\* The house in memory.
HouseRecords ==
  [owner : HouseOwners, scheduled : BOOLEAN, deed : OpenDeeds \cup {NoDeed, SpentDeed},
   warnings : Nat, things : SUBSET Belongings]

\* The tables of the database.
RowRecords ==
  [owner : HouseOwners, newOwner : HouseOwners \cup {NoTransfer}, warnings : Nat,
   tiles : SUBSET Belongings, has : Holdings]

\* What setOwner() and its helpers work on.
HouseStates == [house : HouseRecords, row : RowRecords, has : Holdings]

\* transferToDepot() empties the house into what p has.
LEMMA TransferResult ==
  ASSUME NEW s \in HouseStates, NEW p \in Residents, NEW t, t = TransferToDepot(s, p)
  PROVE  /\ t \in HouseStates
         /\ t.house = [s.house EXCEPT !.things = {}]
         /\ t.has = [s.has EXCEPT ![p] = @ \cup s.house.things]
         /\ t.row.owner = s.row.owner /\ t.row.newOwner = s.row.newOwner
         /\ t.row.warnings = s.row.warnings /\ t.row.tiles = s.row.tiles
BY DEF TransferToDepot, HouseStates, HouseRecords, RowRecords, Holdings

\* What has become of s when the house has gone to g.
Moved(s, g, t) ==
  /\ t \in HouseStates
  /\ t.house.owner = g /\ t.house.warnings = 0
  /\ t.house.scheduled = s.house.scheduled /\ t.house.deed = s.house.deed
  /\ t.house.things = IF s.house.owner = Nobody THEN s.house.things ELSE {}
  /\ t.has = IF s.house.owner = Nobody THEN s.has
             ELSE [s.has EXCEPT ![s.house.owner] = @ \cup s.house.things]
  /\ t.row.warnings = s.row.warnings /\ t.row.tiles = s.row.tiles

\* setOwner() to another owner, once the table has been dealt with.
AfterTheTable(s, noted, g) ==
  [(IF s.house.owner # Nobody THEN TransferToDepot(noted, s.house.owner) ELSE noted)
     EXCEPT !.house.owner = g, !.house.warnings = 0]

\* setOwner() to another owner empties the house for the old one.
LEMMA SetOwnerResult ==
  ASSUME NEW s \in HouseStates, NEW g \in HouseOwners, NEW noted \in HouseStates,
         noted.house = s.house, noted.has = s.has,
         noted.row.warnings = s.row.warnings, noted.row.tiles = s.row.tiles,
         NEW t, t = AfterTheTable(s, noted, g)
  PROVE  /\ Moved(s, g, t)
         /\ t.row.owner = noted.row.owner /\ t.row.newOwner = noted.row.newOwner
<1> DEFINE empty == IF s.house.owner # Nobody THEN TransferToDepot(noted, s.house.owner) ELSE noted
<1>2. t = [empty EXCEPT !.house.owner = g, !.house.warnings = 0]
  BY DEF AfterTheTable
<1>3. /\ empty \in HouseStates
      /\ empty.house.scheduled = s.house.scheduled /\ empty.house.deed = s.house.deed
      /\ empty.house.things = IF s.house.owner = Nobody THEN s.house.things ELSE {}
      /\ empty.has = IF s.house.owner = Nobody THEN s.has
                     ELSE [s.has EXCEPT ![s.house.owner] = @ \cup s.house.things]
      /\ empty.row.owner = noted.row.owner /\ empty.row.newOwner = noted.row.newOwner
      /\ empty.row.warnings = s.row.warnings /\ empty.row.tiles = s.row.tiles
  <2>1. CASE s.house.owner = Nobody
    BY <2>1
  <2>2. CASE s.house.owner # Nobody
    <3>1. s.house.owner \in Residents
      BY <2>2 DEF HouseStates, HouseRecords, HouseOwners
    <3>2. empty = TransferToDepot(noted, s.house.owner)
      BY <2>2
    <3> HIDE DEF empty
    <3>3. s.house \in HouseRecords
      BY DEF HouseStates
    <3>4. /\ empty \in HouseStates
          /\ empty.house = [noted.house EXCEPT !.things = {}]
          /\ empty.has = [noted.has EXCEPT ![s.house.owner] = @ \cup noted.house.things]
          /\ empty.row.owner = noted.row.owner /\ empty.row.newOwner = noted.row.newOwner
          /\ empty.row.warnings = noted.row.warnings /\ empty.row.tiles = noted.row.tiles
      BY <3>1, <3>2, TransferResult
    <3>5. QED
      BY <2>2, <3>3, <3>4 DEF HouseRecords
  <2>3. QED
    BY <2>1, <2>2
<1> HIDE DEF empty
<1>4. empty.house \in HouseRecords /\ empty \in HouseStates
  BY <1>3 DEF HouseStates
<1>5. /\ t.house = [empty.house EXCEPT !.owner = g, !.warnings = 0]
      /\ t.row = empty.row /\ t.has = empty.has
      /\ t \in HouseStates
  <2>1. [empty.house EXCEPT !.owner = g, !.warnings = 0] \in HouseRecords
    BY <1>4 DEF HouseRecords
  <2>2. t = [empty EXCEPT !.house = [empty.house EXCEPT !.owner = g, !.warnings = 0]]
    BY <1>2, <1>4 DEF HouseStates
  <2>3. QED
    BY <1>4, <2>1, <2>2 DEF HouseStates
<1>6. Moved(s, g, t)
  <2>1. /\ t.house.owner = g /\ t.house.warnings = 0
        /\ t.house.scheduled = empty.house.scheduled /\ t.house.deed = empty.house.deed
        /\ t.house.things = empty.house.things
    BY <1>4, <1>5 DEF HouseRecords
  <2>2. QED
    BY <1>3, <1>5, <2>1 DEF Moved
<1>7. QED
  BY <1>3, <1>5, <1>6

\* The house and its row have gone to g.
GoneTo(s, g, t) ==
  Moved(s, g, t) /\ t.row.owner = g /\ t.row.newOwner = NoTransfer

\* setOwner() with the table updated.
LEMMA SetOwnerNoted ==
  ASSUME NEW s \in HouseStates, NEW g \in HouseOwners, s.house.owner # g,
         NEW t, t = SetOwner(s, g, TRUE)
  PROVE  GoneTo(s, g, t)
<1> DEFINE noted == [s EXCEPT !.row.owner = g, !.row.newOwner = NoTransfer]
<1>1. /\ noted \in HouseStates /\ noted.house = s.house /\ noted.has = s.has
      /\ noted.row.owner = g /\ noted.row.newOwner = NoTransfer
      /\ noted.row.warnings = s.row.warnings /\ noted.row.tiles = s.row.tiles
  BY DEF HouseStates, RowRecords, HouseOwners
<1>2. t = AfterTheTable(s, noted, g)
  BY DEF SetOwner, AfterTheTable
<1> HIDE DEF noted
<1>3. QED
  BY <1>1, <1>2, SetOwnerResult DEF GoneTo

\* setOwner() at a load, which does not touch the table.
LEMMA SetOwnerSilent ==
  ASSUME NEW s \in HouseStates, NEW g \in HouseOwners, s.house.owner # g,
         NEW t, t = SetOwner(s, g, FALSE)
  PROVE  Moved(s, g, t) /\ t.row.owner = s.row.owner /\ t.row.newOwner = s.row.newOwner
<1>1. t = AfterTheTable(s, s, g)
  BY DEF SetOwner, AfterTheTable
<1>2. QED
  BY <1>1, SetOwnerResult

\* setOwner() to the present owner does nothing.
LEMMA SetOwnerSame ==
  ASSUME NEW s, NEW g, g = s.house.owner, NEW u
  PROVE  SetOwner(s, g, u) = s
BY DEF SetOwner

\* Map::save() writes the row only.
LEMMA MapSaveResult ==
  ASSUME NEW s \in HouseStates, NEW t, t = MapSave(s)
  PROVE  /\ t \in HouseStates /\ t.house = s.house /\ t.has = s.has
         /\ t.row.owner = s.house.owner /\ t.row.newOwner = s.row.newOwner
         /\ t.row.tiles = s.house.things /\ t.row.has = s.row.has
<1>1. s.house \in HouseRecords /\ s.row \in RowRecords /\ s.has \in Holdings
  BY DEF HouseStates
<1>2. t = [s EXCEPT !.row = [s.row EXCEPT !.owner = s.house.owner,
             !.warnings = s.house.warnings, !.tiles = s.house.things]]
  BY <1>1 DEF MapSave, HouseStates, RowRecords
<1>3. [s.row EXCEPT !.owner = s.house.owner, !.warnings = s.house.warnings,
                    !.tiles = s.house.things] \in RowRecords
  BY <1>1 DEF RowRecords, HouseRecords
<1>4. QED
  BY <1>1, <1>2, <1>3 DEF HouseStates, RowRecords

-----------------------------------------------------------------------------

\* The types.
HouseTypes ==
  /\ HouseState \in HouseStates
  /\ phase \in {"down", "loaded", "paid", "up"}
  /\ heir \in HouseOwners
  /\ whose \in [Belongings -> HouseOwners]
  /\ notices \in 0..MaxWarnings

\* What the house, the table and the heir say of the owner, in every phase.  The
\* house and the table disagree only at a start after the owner has left.
OwnersAgree ==
  /\ row.newOwner # NoTransfer => onRestart /\ row.owner \in Residents
  /\ phase = "down" => house = Unowned /\ heir = Nobody /\ has = row.has
  /\ phase \in {"loaded", "paid"} =>
       /\ ~house.scheduled /\ house.deed = NoDeed
       /\ \/ house.owner = row.owner /\ row.newOwner = NoTransfer
          \/ house.owner = Nobody /\ heir = row.owner /\ heir # Nobody
  /\ phase = "up" =>
       /\ heir = Nobody /\ row.owner = house.owner
       /\ house.scheduled <=> row.newOwner # NoTransfer
  /\ house.owner = Nobody => house.things = {}
  /\ onRestart => "deed outlives" \notin losses

\* Things of the house have no holder and are o's, the others one holder each.
Kept(things, hs, w, o) ==
  \A i \in Belongings :
    IF i \in things THEN {p \in Residents : i \in hs[p]} = {} /\ w[i] = o
    ELSE \E p \in Residents : {q \in Residents : i \in hs[q]} = {p} /\ w[i] \in {p, Nobody}

\* None of the events has happened that lose things.
NoThingLost == losses \cap {"crash", "left behind", "disinherited"} = {}

\* Between two starts the things are those of the row; at a start with a new
\* owner they are still the heir's.
GoodsKept ==
  NoThingLost =>
    IF phase = "down" THEN Kept(LoadHouseItems(row.owner), has, whose, row.owner)
    ELSE Kept(house.things, has, whose, IF heir # Nobody THEN heir ELSE house.owner)

\* The owner has been told of every warning that counts against him.
Warned == "inherited" \notin losses => house.warnings <= notices

\* The inductive invariant of the house.
HouseInv == HouseTypes /\ OwnersAgree /\ DeedIsOwners /\ Warned /\ GoodsKept

\* A house is emptied into what its things' owner has.
LEMMA Emptied ==
  ASSUME NEW things \in SUBSET Belongings, NEW hs \in Holdings, NEW w, NEW o \in Residents,
         Kept(things, hs, w, o), NEW hs2, hs2 = [hs EXCEPT ![o] = @ \cup things], NEW o2
  PROVE  Kept({}, hs2, w, o2)
<1>1. ASSUME NEW i \in Belongings
      PROVE  \E p \in Residents : {q \in Residents : i \in hs2[q]} = {p} /\ w[i] \in {p, Nobody}
  <2>1. \A q \in Residents : i \in hs2[q] <=> i \in hs[q] \/ (q = o /\ i \in things)
    BY DEF Holdings
  <2>2. CASE i \in things
    <3>1. {p \in Residents : i \in hs[p]} = {} /\ w[i] = o
      BY <2>2 DEF Kept
    <3>2. {q \in Residents : i \in hs2[q]} = {o}
      BY <2>1, <2>2, <3>1
    <3>3. QED
      BY <3>1, <3>2
  <2>3. CASE i \notin things
    <3>1. {q \in Residents : i \in hs2[q]} = {q \in Residents : i \in hs[q]}
      BY <2>1, <2>3
    <3>2. QED
      BY <2>3, <3>1 DEF Kept
  <2>4. QED
    BY <2>2, <2>3
<1>2. QED
  BY <1>1 DEF Kept

\* An empty house is anybody's.
LEMMA KeptNothing ==
  ASSUME NEW hs, NEW w, NEW o, Kept({}, hs, w, o), NEW o2
  PROVE  Kept({}, hs, w, o2)
BY DEF Kept

\* The house that has never been bought is in order.
LEMMA HouseInitInv == HouseInit => HouseInv
<1> SUFFICES ASSUME HouseInit PROVE HouseInv
  OBVIOUS
<1>1. /\ phase = "up" /\ house = Unowned /\ heir = Nobody /\ has \in Holdings
      /\ row = [owner |-> Nobody, newOwner |-> NoTransfer, warnings |-> 0, tiles |-> {},
                has |-> has]
      /\ whose = [i \in Belongings |-> Nobody] /\ notices = 0 /\ losses = {}
  BY DEF HouseInit, Holdings
<1>2. HouseTypes
  BY <1>1, HouseAssumption DEF HouseTypes, HouseState, HouseStates, HouseRecords, RowRecords,
     Unowned, HouseOwners
<1>3. OwnersAgree /\ Warned
  BY <1>1 DEF OwnersAgree, Unowned, Warned
<1>4. DeedIsOwners
  BY <1>1 DEF DeedIsOwners, Unowned, OpenDeeds, NoDeed
<1>5. GoodsKept
  <2>1. ASSUME NEW i \in Belongings
        PROVE  \E p \in Residents : {q \in Residents : i \in has[q]} = {p}
    <3>1. Cardinality({q \in Residents : i \in has[q]}) = 1
      BY DEF HouseInit
    <3>2. IsFiniteSet({q \in Residents : i \in has[q]})
      BY HouseAssumption, FS_Subset
    <3>3. \E p : {q \in Residents : i \in has[q]} = {p}
      BY <3>1, <3>2, FS_Singleton
    <3>4. QED
      BY <3>3
  <2>2. Kept({}, has, whose, Nobody)
    BY <1>1, <2>1 DEF Kept
  <2>3. QED
    BY <1>1, <2>2 DEF GoodsKept, Unowned
<1>6. QED
  BY <1>2, <1>3, <1>4, <1>5 DEF HouseInv

-----------------------------------------------------------------------------
\* The fields of the house and of its row.
LEMMA HouseFields ==
  ASSUME HouseTypes
  PROVE  /\ house \in HouseRecords /\ row \in RowRecords /\ has \in Holdings
         /\ house.owner \in HouseOwners /\ house.things \in SUBSET Belongings
         /\ house.warnings \in Nat /\ row.warnings \in Nat
         /\ row.owner \in HouseOwners /\ row.newOwner \in HouseOwners \cup {NoTransfer}
         /\ row.tiles \in SUBSET Belongings /\ row.has \in Holdings
         /\ HouseState.house = house /\ HouseState.row = row /\ HouseState.has = has
<1>1. /\ HouseState.house = house /\ HouseState.row = row /\ HouseState.has = has
  BY DEF HouseState
<1>2. house \in HouseRecords /\ row \in RowRecords /\ has \in Holdings
  BY <1>1 DEF HouseTypes, HouseStates
<1>3. QED
  BY <1>1, <1>2 DEF HouseRecords, RowRecords

\* The state of the house is typed when its parts are.
LEMMA StateTyped ==
  ASSUME house' \in HouseRecords, row' \in RowRecords, has' \in Holdings
  PROVE  HouseState' \in HouseStates
BY DEF HouseState, HouseStates

\* A deed that is not there, or used, is not open.
LEMMA ClosedDeeds == NoDeed \notin OpenDeeds /\ SpentDeed \notin OpenDeeds
BY DEF NoDeed, SpentDeed, OpenDeeds

\* The house of a running server gets another owner at once.
LEMMA OwnerChanges ==
  ASSUME HouseInv, Up, UNCHANGED whose, losses \subseteq losses',
         onRestart => "deed outlives" \notin losses',
         NEW g \in HouseOwners, house.owner # g, row.newOwner = NoTransfer,
         NEW t, GoneTo(HouseState, g, t),
         house' = t.house \/ house' = [t.house EXCEPT !.deed = NoDeed],
         row' = t.row, has' = t.has, notices' \in 0..MaxWarnings, Warned', DeedIsOwners'
  PROVE  HouseInv'
<1>1. /\ HouseState \in HouseStates
      /\ HouseState.house = house /\ HouseState.row = row /\ HouseState.has = has
  BY HouseFields DEF HouseInv, HouseTypes
<1>2. /\ t \in HouseStates
      /\ t.house.owner = g /\ t.house.warnings = 0
      /\ t.house.scheduled = house.scheduled
      /\ t.house.things = IF house.owner = Nobody THEN house.things ELSE {}
      /\ t.has = IF house.owner = Nobody THEN has
                 ELSE [has EXCEPT ![house.owner] = @ \cup house.things]
      /\ t.row.owner = g /\ t.row.newOwner = NoTransfer
  BY <1>1 DEF GoneTo, Moved
<1>3. t.house \in HouseRecords /\ t.row \in RowRecords /\ t.has \in Holdings
  BY <1>2 DEF HouseStates
<1>4. /\ house' \in HouseRecords
      /\ house'.owner = g /\ house'.warnings = 0 /\ house'.scheduled = house.scheduled
      /\ house'.things = t.house.things
  BY <1>2, <1>3 DEF HouseRecords
<1>5. house'.things = {}
  BY <1>2, <1>4 DEF HouseInv, OwnersAgree
<1>6. HouseTypes'
  <2>1. HouseState' \in HouseStates
    BY <1>3, <1>4, StateTyped
  <2>2. QED
    BY <2>1 DEF HouseInv, HouseTypes, Up
<1>7. OwnersAgree'
  <2>1. phase' = "up" /\ heir' = Nobody /\ onRestart' = onRestart
    BY DEF HouseInv, OwnersAgree, Up
  <2>2. ~house.scheduled
    BY DEF HouseInv, OwnersAgree, Up
  <2>3. QED
    BY <1>2, <1>4, <1>5, <2>1, <2>2 DEF OwnersAgree
<1>8. GoodsKept'
  <2>1. SUFFICES ASSUME NoThingLost' PROVE Kept({}, has', whose, g)
    BY <1>4, <1>5 DEF GoodsKept, HouseInv, OwnersAgree, Up
  <2>2. Kept(house.things, has, whose, house.owner)
    BY <2>1 DEF NoThingLost, GoodsKept, HouseInv, OwnersAgree, Up
  <2>3. CASE house.owner = Nobody
    BY <1>2, <2>2, <2>3, KeptNothing DEF HouseInv, OwnersAgree
  <2>4. CASE house.owner # Nobody
    <3>1. house.owner \in Residents /\ house.things \in SUBSET Belongings /\ has \in Holdings
      BY <2>4, HouseFields DEF HouseInv, HouseOwners
    <3>2. has' = [has EXCEPT ![house.owner] = @ \cup house.things]
      BY <1>2, <2>4
    <3>3. QED
      BY <2>2, <3>1, <3>2, Emptied
  <2>5. QED
    BY <2>3, <2>4
<1>9. QED
  BY <1>6, <1>7, <1>8 DEF HouseInv

\* A transfer is noted in the table and made at the next start.
LEMMA NotedInv ==
  ASSUME HouseInv, Up, UNCHANGED <<whose, notices, losses, has>>, onRestart,
         house.owner \in Residents, NEW g \in HouseOwners,
         house' = [house EXCEPT !.scheduled = TRUE]
           \/ house' = [house EXCEPT !.scheduled = TRUE, !.deed = NoDeed],
         row' = [row EXCEPT !.newOwner = g]
  PROVE  HouseInv'
<1>1. house \in HouseRecords /\ row \in RowRecords /\ has \in Holdings
  BY HouseFields DEF HouseInv
<1>2. /\ house' \in HouseRecords /\ house'.owner = house.owner /\ house'.things = house.things
      /\ house'.warnings = house.warnings /\ house'.scheduled
      /\ house'.deed = house.deed \/ house'.deed = NoDeed
  BY <1>1 DEF HouseRecords
<1>3. /\ row' \in RowRecords /\ row'.owner = row.owner /\ row'.newOwner = g
  BY <1>1 DEF RowRecords
<1>4. HouseTypes'
  BY <1>1, <1>2, <1>3, StateTyped DEF HouseInv, HouseTypes, Up
<1>5. g # NoTransfer /\ phase' = "up" /\ heir' = Nobody /\ heir = Nobody /\ row.owner = house.owner
  BY HouseAssumption DEF HouseOwners, Up, HouseInv, OwnersAgree
<1>6. OwnersAgree'
  BY <1>2, <1>3, <1>5 DEF OwnersAgree, HouseInv, Up
<1>7. DeedIsOwners' /\ Warned'
  BY <1>2, ClosedDeeds DEF DeedIsOwners, Warned, HouseInv
<1>8. GoodsKept'
  BY <1>2, <1>5 DEF GoodsKept, NoThingLost, HouseInv, Up
<1>9. QED
  BY <1>4, <1>6, <1>7, <1>8 DEF HouseInv

\* Buying gives an unowned house to the buyer.
LEMMA BuyInv == ASSUME HouseInv, NEW p \in Residents, BuyHouse(p) PROVE HouseInv'
<1> DEFINE t == SetOwner(HouseState, p, TRUE)
<1>1. /\ Up /\ house.owner = Nobody /\ UNCHANGED <<whose, losses>>
      /\ house' = t.house /\ row' = t.row /\ has' = t.has
      /\ notices' = IF t.house.owner = house.owner THEN notices ELSE 0
  BY DEF BuyHouse, Becomes
<1>2. row.newOwner = NoTransfer
  BY <1>1, HouseAssumption DEF HouseInv, OwnersAgree, Up
<1>3. /\ HouseState \in HouseStates /\ HouseState.house = house
  BY HouseFields DEF HouseInv, HouseTypes
<1>4. p \in HouseOwners /\ house.owner # p
  BY <1>1, HouseAssumption DEF HouseOwners
<1>g. GoneTo(HouseState, p, t)
  BY <1>3, <1>4, SetOwnerNoted, Zenon
<1> HIDE DEF t
<1>5. t.house.owner = p /\ t.house.deed = house.deed
  BY <1>3, <1>g DEF GoneTo, Moved
<1>6. DeedIsOwners'
  <2>1. "deed outlives" \notin losses => house.deed \notin OpenDeeds
    BY <1>1, HouseAssumption DEF HouseInv, DeedIsOwners, OpenDeeds
  <2>2. QED
    BY <1>1, <1>5, <2>1 DEF DeedIsOwners
<1>7. notices' = 0
  BY <1>1, <1>4, <1>5
<1>w. notices' \in 0..MaxWarnings /\ Warned'
  <2>1. house'.warnings = 0
    BY <1>1, <1>g DEF GoneTo, Moved
  <2>2. QED
    BY <1>7, <2>1, HouseAssumption DEF Warned
<1>8. onRestart => "deed outlives" \notin losses'
  BY <1>1 DEF HouseInv, OwnersAgree
<1>9. QED
  BY <1>1, <1>2, <1>4, <1>6, <1>8, <1>g, <1>w, OwnerChanges

\* Leaving gives the house up, now or at the next start.
LEMMA LeaveInv == ASSUME HouseInv, NEW p \in Residents, LeaveHouse(p) PROVE HouseInv'
<1> DEFINE t == SetOwner(HouseState, Nobody, TRUE)
<1>1. /\ Up /\ house.owner = p /\ ~(onRestart /\ house.scheduled) /\ UNCHANGED whose
      /\ Becomes(SetNewOwnerGuid(HouseState, Nobody))
      /\ losses' = IF ~onRestart /\ house.deed # NoDeed THEN losses \cup {"deed outlives"}
                   ELSE losses
  BY DEF LeaveHouse
<1>2. row.newOwner = NoTransfer /\ ~house.scheduled
  BY <1>1 DEF HouseInv, OwnersAgree, Up
<1>3. /\ HouseState \in HouseStates /\ HouseState.house = house
  BY HouseFields DEF HouseInv, HouseTypes
<1>4. CASE onRestart
  <2>1. /\ HouseState.row = row /\ HouseState.has = has
        /\ row \in RowRecords /\ house \in HouseRecords
    BY HouseFields DEF HouseInv
  <2>2. SetNewOwnerGuid(HouseState, Nobody)
          = [HouseState EXCEPT !.row.newOwner = Nobody, !.house.scheduled = TRUE]
    BY <1>4 DEF SetNewOwnerGuid
  <2>3. /\ house' = [house EXCEPT !.scheduled = TRUE] /\ has' = has
        /\ row' = [row EXCEPT !.newOwner = Nobody]
        /\ notices' = notices
    BY <1>1, <1>3, <2>1, <2>2 DEF Becomes, HouseStates, HouseRecords, RowRecords
  <2>4. QED
    <3>1. UNCHANGED <<whose, notices, losses, has>> /\ Nobody \in HouseOwners
      BY <1>1, <1>4, <2>3 DEF HouseOwners
    <3>2. QED
      BY <1>1, <1>4, <2>3, <3>1, NotedInv
<1>5. CASE ~onRestart
  <2>1. /\ house' = t.house /\ row' = t.row /\ has' = t.has
        /\ notices' = IF t.house.owner = house.owner THEN notices ELSE 0
    BY <1>1, <1>5 DEF SetNewOwnerGuid, Becomes
  <2>2. Nobody \in HouseOwners /\ house.owner # Nobody
    BY <1>1, HouseAssumption DEF HouseOwners
  <2>3. GoneTo(HouseState, Nobody, t)
    BY <1>3, <2>2, SetOwnerNoted, Zenon
  <2> HIDE DEF t
  <2>4. t.house.owner = Nobody /\ t.house.deed = house.deed /\ t.house.warnings = 0
    BY <1>3, <2>3 DEF GoneTo, Moved
  <2>5. DeedIsOwners'
    BY <1>1, <1>5, <2>1, <2>4, ClosedDeeds DEF DeedIsOwners
  <2>6. notices' = 0 /\ house'.warnings = 0
    BY <2>1, <2>2, <2>4
  <2>7. notices' \in 0..MaxWarnings /\ Warned'
    BY <2>6, HouseAssumption DEF Warned
  <2>8. losses \subseteq losses'
    BY <1>1
  <2>9. QED
    BY <1>1, <1>2, <1>5, <2>1, <2>2, <2>3, <2>5, <2>7, <2>8, OwnerChanges
<1>6. QED
  BY <1>4, <1>5

\* A document is written, given back or spent.
LEMMA DeedInv ==
  ASSUME HouseInv, Up, NEW d \in OpenDeeds \cup {NoDeed, SpentDeed},
         d \in OpenDeeds => d[1] = house.owner,
         house' = [house EXCEPT !.deed = d], UNCHANGED <<has, row, whose, notices, losses>>
  PROVE  HouseInv'
<1>1. house \in HouseRecords /\ row \in RowRecords /\ has \in Holdings
  BY HouseFields DEF HouseInv
<1>2. /\ house' \in HouseRecords /\ house'.owner = house.owner /\ house'.things = house.things
      /\ house'.warnings = house.warnings /\ house'.scheduled = house.scheduled
      /\ house'.deed = d
  BY <1>1 DEF HouseRecords
<1>3. HouseTypes'
  BY <1>1, <1>2, StateTyped DEF HouseInv, HouseTypes, Up
<1>4. OwnersAgree'
  BY <1>2 DEF HouseInv, OwnersAgree, Up
<1>5. DeedIsOwners' /\ Warned'
  BY <1>2 DEF DeedIsOwners, Warned, HouseInv
<1>6. GoodsKept'
  BY <1>2 DEF GoodsKept, NoThingLost, HouseInv, Up
<1>7. QED
  BY <1>3, <1>4, <1>5, <1>6 DEF HouseInv

\* Offering the house makes a deed and moves nothing.
LEMMA StartTradeInv ==
  ASSUME HouseInv, NEW p \in Residents, NEW q \in Residents, StartTrade(p, q)
  PROVE  HouseInv'
<1> DEFINE d == IF onRestart /\ house.scheduled THEN SpentDeed ELSE <<p, q>>
<1>1. /\ Up /\ house.owner = p /\ house' = [house EXCEPT !.deed = d]
      /\ UNCHANGED <<has, row, whose, notices, losses>>
  BY DEF StartTrade
<1>2. <<p, q>> \in OpenDeeds /\ <<p, q>>[1] = p
  BY DEF OpenDeeds
<1>3. d \in OpenDeeds \cup {NoDeed, SpentDeed} /\ (d \in OpenDeeds => d[1] = house.owner)
  BY <1>1, <1>2, ClosedDeeds
<1> HIDE DEF d
<1>4. QED
  BY <1>1, <1>3, DeedInv

\* Cancelling the trade voids the deed.
LEMMA CancelInv == ASSUME HouseInv, CancelTrade PROVE HouseInv'
<1>1. /\ Up /\ house' = [house EXCEPT !.deed = NoDeed]
      /\ UNCHANGED <<has, row, whose, notices, losses>>
  BY DEF CancelTrade
<1>2. QED
  BY <1>1, ClosedDeeds, DeedInv

\* The deed's transfer gives the house to the buyer, now or at the next start.
LEMMA ExecuteInv == ASSUME HouseInv, ExecuteTransfer PROVE HouseInv'
<1> DEFINE g == house.deed[2]
           t == SetOwner(HouseState, g, TRUE)
<1>1. Up /\ house.deed \in OpenDeeds /\ UNCHANGED <<whose, losses>>
  BY DEF ExecuteTransfer
<1>2. /\ HouseState \in HouseStates
      /\ HouseState.house = house /\ HouseState.row = row /\ HouseState.has = has
      /\ house \in HouseRecords /\ row \in RowRecords /\ has \in Holdings
  BY HouseFields DEF HouseInv, HouseTypes
<1>3. g \in Residents /\ g \in HouseOwners /\ house.deed[1] \in Residents
  BY <1>1 DEF OpenDeeds, HouseOwners
<1>4. CASE onRestart /\ house.scheduled
  <2>1. house' = [house EXCEPT !.deed = SpentDeed] /\ UNCHANGED <<has, row, notices>>
    BY <1>4 DEF ExecuteTransfer
  <2>2. QED
    BY <1>1, <2>1, ClosedDeeds, DeedInv
<1>5. CASE onRestart /\ ~house.scheduled
  <2>1. Becomes([SetNewOwnerGuid(HouseState, g) EXCEPT !.house.deed = NoDeed])
    BY <1>5 DEF ExecuteTransfer
  <2>2. SetNewOwnerGuid(HouseState, g)
          = [HouseState EXCEPT !.row.newOwner = g, !.house.scheduled = TRUE]
    BY <1>5 DEF SetNewOwnerGuid
  <2> HIDE DEF g
  <2>3. /\ house' = [house EXCEPT !.scheduled = TRUE, !.deed = NoDeed] /\ has' = has
        /\ row' = [row EXCEPT !.newOwner = g]
        /\ notices' = notices
    <3> DEFINE m == SetNewOwnerGuid(HouseState, g)
    <3>1. /\ m.house = [house EXCEPT !.scheduled = TRUE] /\ m.has = has
          /\ m.row = [row EXCEPT !.newOwner = g] /\ m \in HouseStates
      <4>1. /\ [house EXCEPT !.scheduled = TRUE] \in HouseRecords
            /\ [row EXCEPT !.newOwner = g] \in RowRecords
        BY <1>2, <1>3 DEF HouseRecords, RowRecords
      <4>2. m = [HouseState EXCEPT !.row = [row EXCEPT !.newOwner = g],
                                   !.house = [house EXCEPT !.scheduled = TRUE]]
        BY <1>2, <2>2 DEF HouseStates
      <4>3. QED
        BY <1>2, <4>1, <4>2 DEF HouseStates
    <3> HIDE DEF m
    <3>2. /\ house' = [m.house EXCEPT !.deed = NoDeed] /\ row' = m.row /\ has' = m.has
          /\ notices' = IF house'.owner = house.owner THEN notices ELSE 0
      BY <2>1, <3>1 DEF Becomes, HouseStates, m
    <3>3. QED
      BY <1>2, <3>1, <3>2 DEF HouseRecords
  <2>4. house.owner \in Residents
    BY <1>1, <1>3, <1>5 DEF HouseInv, OwnersAgree, DeedIsOwners
  <2>5. QED
    BY <1>1, <1>3, <1>5, <2>3, <2>4, NotedInv
<1>6. CASE ~onRestart
  <2>0. Becomes([t EXCEPT !.house.deed = NoDeed])
    BY <1>6 DEF ExecuteTransfer, SetNewOwnerGuid
  <2>1. row.newOwner = NoTransfer
    BY <1>6 DEF HouseInv, OwnersAgree
  <2>2. CASE house.owner = g
    <3>1. t = HouseState
      BY <1>2, <2>2 DEF SetOwner
    <3> HIDE DEF t
    <3>2. /\ house' = [house EXCEPT !.deed = NoDeed] /\ UNCHANGED <<has, row, notices>>
      BY <1>2, <2>0, <3>1 DEF Becomes, HouseStates, HouseRecords
    <3>3. QED
      BY <1>1, <3>2, ClosedDeeds, DeedInv
  <2>3. CASE house.owner # g
    <3>1. GoneTo(HouseState, g, t)
      BY <1>2, <1>3, <2>3, SetOwnerNoted, Zenon
    <3> HIDE DEF t, g
    <3>2. t.house \in HouseRecords /\ t.house.owner = g /\ t.house.warnings = 0 /\ t \in HouseStates
      BY <3>1 DEF GoneTo, Moved, HouseStates
    <3>3. /\ house' = [t.house EXCEPT !.deed = NoDeed] /\ row' = t.row /\ has' = t.has
          /\ notices' = IF house'.owner = house.owner THEN notices ELSE 0
      BY <2>0, <3>2 DEF Becomes, HouseStates
    <3>4. house'.owner = g /\ house'.warnings = 0 /\ house'.deed = NoDeed
      BY <3>2, <3>3 DEF HouseRecords
    <3>5. notices' = 0
      BY <2>3, <3>3, <3>4
    <3>6. /\ notices' \in 0..MaxWarnings /\ Warned'
          /\ DeedIsOwners'
      <4>1. notices' \in 0..MaxWarnings /\ Warned'
        BY <3>4, <3>5, HouseAssumption DEF Warned
      <4>2. DeedIsOwners'
        BY <3>4, ClosedDeeds DEF DeedIsOwners
      <4>3. QED
        BY <4>1, <4>2
    <3>7. onRestart => "deed outlives" \notin losses'
      BY <1>6
    <3>8. QED
      BY <1>1, <1>3, <2>1, <2>3, <3>1, <3>3, <3>6, <3>7, OwnerChanges
  <2>4. QED
    BY <2>2, <2>3
<1>7. QED
  BY <1>4, <1>5, <1>6

\* Things are moved by the owner, who is the one they belong to.
LEMMA MoveInv ==
  ASSUME HouseInv, NEW p \in Residents, NEW i \in Belongings, MoveIn(p, i) \/ MoveOut(p, i)
  PROVE  HouseInv'
<1>1. house \in HouseRecords /\ row \in RowRecords /\ has \in Holdings
  BY HouseFields DEF HouseInv
<1>2. /\ Up /\ house.owner = p /\ UNCHANGED <<row, notices, losses>>
  BY DEF MoveIn, MoveOut
<1>3. /\ house' \in HouseRecords /\ house'.owner = p /\ house'.deed = house.deed
      /\ house'.warnings = house.warnings /\ house'.scheduled = house.scheduled
      /\ has' \in Holdings
  BY <1>1, <1>2 DEF MoveIn, MoveOut, HouseRecords, Holdings
<1>4. whose' \in [Belongings -> HouseOwners]
  BY DEF MoveIn, MoveOut, HouseInv, HouseTypes, HouseOwners
<1>5. HouseTypes'
  BY <1>1, <1>2, <1>3, <1>4, StateTyped DEF HouseInv, HouseTypes, Up
<1>6. OwnersAgree'
  BY <1>2, <1>3, HouseAssumption DEF HouseInv, OwnersAgree, Up
<1>7. DeedIsOwners' /\ Warned'
  BY <1>2, <1>3 DEF DeedIsOwners, Warned, HouseInv
<1>8. GoodsKept'
  <2>0. phase' = "up" /\ heir' = Nobody
    BY <1>2 DEF HouseInv, OwnersAgree, Up
  <2>1. SUFFICES ASSUME NoThingLost' PROVE Kept(house'.things, has', whose', p)
    BY <1>3, <2>0 DEF GoodsKept
  <2>2. Kept(house.things, has, whose, p)
    BY <1>2, <2>1 DEF NoThingLost, GoodsKept, HouseInv, OwnersAgree, Up
  <2>3. CASE MoveIn(p, i)
    <3>1. /\ i \in has[p] /\ has' = [has EXCEPT ![p] = @ \ {i}]
          /\ house'.things = house.things \cup {i} /\ whose' = [whose EXCEPT ![i] = p]
      BY <1>1, <2>3 DEF MoveIn, HouseRecords
    <3>2. {q \in Residents : i \in has[q]} = {p}
      BY <2>2, <3>1 DEF Kept
    <3>3. {q \in Residents : i \in has'[q]} = {} /\ whose'[i] = p
      BY <1>1, <3>1, <3>2 DEF Holdings, HouseInv, HouseTypes
    <3>4. ASSUME NEW j \in Belongings, j # i
          PROVE  /\ {q \in Residents : j \in has'[q]} = {q \in Residents : j \in has[q]}
                 /\ whose'[j] = whose[j] /\ (j \in house'.things <=> j \in house.things)
      BY <1>1, <3>1, <3>4 DEF Holdings, HouseInv, HouseTypes
    <3>5. QED
      BY <2>2, <3>1, <3>3, <3>4 DEF Kept
  <2>4. CASE MoveOut(p, i)
    <3>1. /\ i \in house.things /\ has' = [has EXCEPT ![p] = @ \cup {i}]
          /\ house'.things = house.things \ {i} /\ whose' = whose
      BY <1>1, <2>4 DEF MoveOut, HouseRecords
    <3>2. {q \in Residents : i \in has[q]} = {} /\ whose[i] = p
      BY <2>2, <3>1 DEF Kept
    <3>3. {q \in Residents : i \in has'[q]} = {p}
      BY <1>1, <3>1, <3>2 DEF Holdings
    <3>4. ASSUME NEW j \in Belongings, j # i
          PROVE  /\ {q \in Residents : j \in has'[q]} = {q \in Residents : j \in has[q]}
                 /\ (j \in house'.things <=> j \in house.things)
      BY <1>1, <3>1, <3>4 DEF Holdings
    <3>5. QED
      BY <2>2, <3>1, <3>2, <3>3, <3>4 DEF Kept
  <2>5. QED
    BY <2>3, <2>4
<1>9. QED
  BY <1>5, <1>6, <1>7, <1>8 DEF HouseInv

\* A save while the server is up changes neither what the house nor what the row
\* says of the owner.
LEMMA SaveInv ==
  ASSUME HouseInv, SaveMap \/ \E p \in Residents : SavePlayer(p)
  PROVE  HouseInv'
<1>1. /\ HouseState \in HouseStates /\ HouseState.house = house /\ HouseState.row = row
      /\ HouseState.has = has /\ house \in HouseRecords /\ row \in RowRecords /\ has \in Holdings
  BY HouseFields DEF HouseInv, HouseTypes
<1>2. /\ Up /\ UNCHANGED <<house, has, whose, notices, losses>>
      /\ row' \in RowRecords /\ row'.owner = row.owner /\ row'.newOwner = row.newOwner
  <2>1. CASE SaveMap
    <3> DEFINE t == MapSave(HouseState)
    <3>1. /\ Up /\ house' = t.house /\ row' = t.row /\ has' = t.has /\ UNCHANGED <<whose, losses>>
          /\ notices' = IF t.house.owner = house.owner THEN notices ELSE 0
      BY <2>1 DEF SaveMap, Becomes
    <3> HIDE DEF t
    <3>2. /\ t \in HouseStates /\ t.house = house /\ t.has = has
          /\ t.row.owner = house.owner /\ t.row.newOwner = row.newOwner
      BY <1>1, MapSaveResult DEF t
    <3>3. house.owner = row.owner
      BY <3>1 DEF HouseInv, OwnersAgree, Up
    <3>4. QED
      BY <3>1, <3>2, <3>3 DEF HouseStates
  <2>2. CASE \E p \in Residents : SavePlayer(p)
    <3>1. PICK p \in Residents : row' = [row EXCEPT !.has[p] = has[p]]
      BY <2>2 DEF SavePlayer
    <3>2. row' \in RowRecords /\ row'.owner = row.owner /\ row'.newOwner = row.newOwner
      BY <1>1, <3>1 DEF RowRecords, Holdings
    <3>3. QED
      BY <2>2, <3>2 DEF SavePlayer
  <2>3. QED
    BY <2>1, <2>2
<1>3. HouseTypes'
  BY <1>1, <1>2, StateTyped DEF HouseInv, HouseTypes, Up
<1>4. OwnersAgree'
  BY <1>2 DEF HouseInv, OwnersAgree, Up
<1>5. DeedIsOwners' /\ Warned'
  BY <1>2 DEF HouseInv, DeedIsOwners, Warned
<1>6. GoodsKept'
  BY <1>2 DEF HouseInv, GoodsKept, NoThingLost, Up
<1>7. QED
  BY <1>3, <1>4, <1>5, <1>6 DEF HouseInv

\* An owner without warnings has been told of them all.
LEMMA NotWarned ==
  ASSUME house'.warnings = 0, notices' \in 0..MaxWarnings
  PROVE  Warned'
BY HouseAssumption DEF Warned

\* The server stops: what has been written is all that is left.
LEMMA StopsInv ==
  ASSUME HouseInv, NEW saved \in RowRecords, Stops(saved), losses \subseteq losses',
         onRestart => "deed outlives" \notin losses',
         saved.newOwner # NoTransfer => onRestart /\ saved.owner \in Residents,
         NoThingLost' => Kept(IF saved.owner = Nobody THEN {} ELSE saved.tiles,
                              saved.has, whose, saved.owner)
  PROVE  HouseInv'
<1>1. /\ phase' = "down" /\ house' = Unowned /\ heir' = Nobody /\ row' = saved
      /\ has' = saved.has /\ UNCHANGED <<onRestart, whose, notices>>
  BY DEF Stops
<1>2. Unowned \in HouseRecords /\ Unowned.owner = Nobody /\ Unowned.warnings = 0
      /\ Unowned.deed = NoDeed /\ Unowned.things = {}
  BY DEF Unowned, HouseRecords, HouseOwners
<1>3. HouseTypes'
  <2>1. HouseState' \in HouseStates
    <3>1. saved.has \in Holdings
      BY DEF RowRecords
    <3>2. QED
      BY <1>1, <1>2, <3>1, StateTyped
  <2>2. QED
    BY <1>1, <2>1 DEF HouseInv, HouseTypes, HouseOwners
<1>4. OwnersAgree'
  BY <1>1, <1>2 DEF OwnersAgree
<1>5. DeedIsOwners'
  BY <1>1, <1>2, ClosedDeeds DEF DeedIsOwners
<1>6. Warned'
  <2>1. notices' \in 0..MaxWarnings /\ house'.warnings = 0
    BY <1>1, <1>2 DEF HouseInv, HouseTypes
  <2>2. QED
    BY <2>1, NotWarned
<1>7. GoodsKept'
  BY <1>1 DEF GoodsKept, LoadHouseItems
<1>8. QED
  BY <1>3, <1>4, <1>5, <1>6, <1>7 DEF HouseInv

\* A clean shutdown writes what is in memory.
LEMMA ShutdownInv == ASSUME HouseInv, Shutdown PROVE HouseInv'
<1> DEFINE t == MapSave(HouseState)
           saved == [t.row EXCEPT !.has = has]
<1>1. phase = "up" /\ Stops(saved) /\ losses' = losses
  BY DEF Shutdown
<1>2. /\ HouseState \in HouseStates /\ HouseState.house = house /\ HouseState.row = row
      /\ HouseState.has = has /\ house \in HouseRecords /\ row \in RowRecords /\ has \in Holdings
  BY HouseFields DEF HouseInv, HouseTypes
<1>3. /\ t \in HouseStates /\ t.row.owner = house.owner /\ t.row.newOwner = row.newOwner
      /\ t.row.tiles = house.things
  BY <1>2, MapSaveResult
<1> HIDE DEF t
<1>4. /\ saved \in RowRecords /\ saved.owner = house.owner /\ saved.newOwner = row.newOwner
      /\ saved.tiles = house.things /\ saved.has = has
  BY <1>2, <1>3 DEF HouseStates, RowRecords
<1> HIDE DEF saved
<1>5. /\ row.owner = house.owner /\ heir = Nobody
      /\ saved.newOwner # NoTransfer => onRestart /\ saved.owner \in Residents
      /\ onRestart => "deed outlives" \notin losses'
      /\ house.owner = Nobody => house.things = {}
  BY <1>1, <1>4 DEF HouseInv, OwnersAgree
<1>6. NoThingLost' => Kept(IF saved.owner = Nobody THEN {} ELSE saved.tiles, saved.has, whose,
                           saved.owner)
  BY <1>1, <1>4, <1>5 DEF HouseInv, GoodsKept, NoThingLost
<1>7. QED
  BY <1>1, <1>4, <1>5, <1>6, StopsInv

\* After a crash the tables of the last save are all there is.
LEMMA CrashInv == ASSUME HouseInv, Crash PROVE HouseInv'
<1>1. /\ phase # "down" /\ Stops(row)
      /\ losses' = IF CrashCosts THEN losses \cup {"crash"} ELSE losses
  BY DEF Crash
<1>2. row \in RowRecords
  BY HouseFields DEF HouseInv
<1>3. /\ row.newOwner # NoTransfer => onRestart /\ row.owner \in Residents
      /\ onRestart => "deed outlives" \notin losses'
  BY <1>1 DEF HouseInv, OwnersAgree
<1>4. ASSUME NoThingLost'
      PROVE  Kept(IF row.owner = Nobody THEN {} ELSE row.tiles, row.has, whose, row.owner)
  <2>1. ~CrashCosts /\ losses' = losses
    BY <1>1, <1>4 DEF NoThingLost
  <2>2. /\ (IF row.owner = Nobody THEN {} ELSE row.tiles) = house.things
        /\ row.has = has /\ (heir = Nobody \/ row.newOwner # NoTransfer)
    BY <2>1 DEF CrashCosts, LoadHouseItems
  <2>3. Kept(house.things, has, whose, IF heir # Nobody THEN heir ELSE house.owner)
    BY <1>1, <1>4, <2>1 DEF NoThingLost, HouseInv, GoodsKept
  <2>4. CASE heir = Nobody
    BY <1>1, <2>2, <2>3, <2>4 DEF HouseInv, HouseTypes, OwnersAgree
  <2>5. CASE heir # Nobody
    <3>1. heir = row.owner
      BY <1>1, <2>2, <2>5 DEF HouseInv, HouseTypes, OwnersAgree
    <3>2. QED
      BY <2>2, <2>3, <2>5, <3>1
  <2>6. QED
    BY <2>4, <2>5
<1>5. losses \subseteq losses'
  BY <1>1
<1>6. QED
  BY <1>1, <1>2, <1>3, <1>4, <1>5, StopsInv

\* The owner is loaded: the one of the row, or the one it notes.
LEMMA LoadInv == ASSUME HouseInv, LoadHouse PROVE HouseInv'
<1> DEFINE moved == onRestart /\ row.newOwner # NoTransfer
           g == IF moved THEN row.newOwner ELSE row.owner
           t == SetOwner(HouseState, g, moved)
<1>1. /\ phase = "down" /\ phase' = "loaded"
      /\ heir' = IF moved THEN row.owner ELSE Nobody
      /\ house' = [t.house EXCEPT !.warnings = row.warnings,
                                  !.things = LoadHouseItems(t.house.owner)]
      /\ row' = t.row /\ has' = t.has
      /\ notices' = IF t.house.owner = row.owner THEN notices ELSE 0
      /\ losses' = losses
           \cup (IF moved /\ t.house.owner = Nobody /\ row.tiles # {} THEN {"left behind"} ELSE {})
           \cup (IF row.warnings > notices' THEN {"inherited"} ELSE {})
      /\ UNCHANGED <<onRestart, whose>>
  BY DEF LoadHouse
<1>2. /\ HouseState \in HouseStates /\ HouseState.house = house /\ HouseState.row = row
      /\ HouseState.has = has /\ row \in RowRecords /\ has \in Holdings
      /\ row.owner \in HouseOwners /\ row.newOwner \in HouseOwners \cup {NoTransfer}
      /\ row.tiles \in SUBSET Belongings /\ row.warnings \in Nat
  BY HouseFields DEF HouseInv, HouseTypes
<1>3. house = Unowned /\ house.owner = Nobody /\ ~house.scheduled /\ house.deed = NoDeed
      /\ house.things = {} /\ house \in HouseRecords
  <2>1. house = Unowned /\ house \in HouseRecords
    BY <1>1, HouseFields DEF HouseInv, OwnersAgree
  <2>2. QED
    BY <2>1 DEF Unowned
<1>4. moved => row.owner \in Residents /\ row.newOwner \in HouseOwners
  BY <1>2 DEF HouseInv, OwnersAgree
<1>5. g \in HouseOwners
  BY <1>2, <1>4
<1>6. /\ t.house \in HouseRecords /\ t.row \in RowRecords /\ t.has = has
      /\ t.house.owner = g /\ ~t.house.scheduled /\ t.house.deed = NoDeed
      /\ \/ t.row.owner = g /\ t.row.newOwner = NoTransfer
         \/ /\ t.row.owner = row.owner /\ t.row.newOwner = row.newOwner
            /\ moved => g = Nobody
  <2>1. CASE g = Nobody
    <3>1. t = HouseState
      <4>1. g = HouseState.house.owner
        BY <1>2, <1>3, <2>1, Zenon
      <4> HIDE DEF g, moved
      <4>2. QED
        BY <4>1, SetOwnerSame, Zenon
    <3> HIDE DEF t, g, moved
    <3>2. QED
      BY <1>2, <1>3, <2>1, <3>1
  <2>2. CASE g # Nobody /\ moved
    <3>1. t = SetOwner(HouseState, g, TRUE)
      BY <2>2, Zenon
    <3>2. HouseState.house.owner # g
      BY <1>2, <1>3, <2>2, Zenon
    <3> HIDE DEF t, g, moved
    <3>3. GoneTo(HouseState, g, t)
      BY <1>2, <1>5, <3>1, <3>2, SetOwnerNoted
    <3>4. QED
      BY <1>2, <1>3, <3>3 DEF GoneTo, Moved, HouseStates
  <2>3. CASE g # Nobody /\ ~moved
    <3>1. t = SetOwner(HouseState, g, FALSE)
      BY <2>3, Zenon
    <3>2. HouseState.house.owner # g
      BY <1>2, <1>3, <2>3, Zenon
    <3> HIDE DEF t, g, moved
    <3>3. Moved(HouseState, g, t) /\ t.row.owner = row.owner /\ t.row.newOwner = row.newOwner
      BY <1>2, <1>5, <3>1, <3>2, SetOwnerSilent
    <3>4. QED
      BY <1>2, <1>3, <2>3, <3>3 DEF Moved, HouseStates
  <2>4. QED
    BY <2>1, <2>2, <2>3, Zenon
<1> HIDE DEF t
<1>7. /\ house' \in HouseRecords /\ house'.owner = g /\ ~house'.scheduled
      /\ house'.deed = NoDeed /\ house'.warnings = row.warnings
      /\ house'.things = IF g = Nobody THEN {} ELSE row.tiles
  <2>1. LoadHouseItems(g) \in SUBSET Belongings
    BY <1>2 DEF LoadHouseItems
  <2>2. QED
    BY <1>1, <1>2, <1>6, <2>1 DEF HouseRecords, LoadHouseItems
<1>8. HouseTypes'
  <2>1. HouseState' \in HouseStates
    BY <1>1, <1>2, <1>6, <1>7, StateTyped
  <2>2. notices' \in 0..MaxWarnings
    <3>1. notices' = notices \/ notices' = 0
      BY <1>1
    <3> HIDE DEF g, moved
    <3>2. QED
      BY <3>1, HouseAssumption DEF HouseInv, HouseTypes
  <2>3. heir' \in HouseOwners
    BY <1>1, <1>2 DEF HouseOwners
  <2>4. QED
    BY <1>1, <2>1, <2>2, <2>3 DEF HouseInv, HouseTypes
<1>9. OwnersAgree'
  <2>1. ~moved => row.newOwner = NoTransfer /\ g = row.owner
    BY DEF HouseInv, OwnersAgree
  <2>2. onRestart => "deed outlives" \notin losses'
    BY <1>1 DEF HouseInv, OwnersAgree
  <2>3. moved => heir' = row.owner /\ row.owner \in Residents /\ onRestart
    BY <1>1, <1>4
  <2> HIDE DEF g, moved
  <2>4. QED
    BY <1>1, <1>6, <1>7, <2>1, <2>2, <2>3, HouseAssumption DEF OwnersAgree
<1>10. DeedIsOwners'
  BY <1>7, ClosedDeeds DEF DeedIsOwners
<1>11. Warned'
  <2>1. notices' \in 0..MaxWarnings /\ ("inherited" \notin losses' => ~(row.warnings > notices'))
    BY <1>1, <1>8 DEF HouseTypes
  <2>2. notices' \in Nat
    BY <2>1, HouseAssumption
  <2> HIDE DEF g, moved
  <2>3. QED
    BY <1>2, <1>7, <2>1, <2>2 DEF Warned
<1>12. GoodsKept'
  <2>1. SUFFICES ASSUME NoThingLost'
                 PROVE  Kept(house'.things, has', whose, IF heir' # Nobody THEN heir' ELSE g)
    BY <1>1, <1>7 DEF GoodsKept
  <2>2. Kept(IF row.owner = Nobody THEN {} ELSE row.tiles, has, whose, row.owner)
    BY <1>1, <2>1 DEF HouseInv, GoodsKept, NoThingLost, LoadHouseItems
  <2>3. CASE ~moved
    BY <1>1, <1>6, <1>7, <2>2, <2>3
  <2>4. CASE moved
    <3>1. heir' = row.owner /\ row.owner # Nobody
      BY <1>1, <1>4, <2>4, HouseAssumption
    <3>2. g = Nobody => row.tiles = {}
      BY <1>1, <1>6, <2>1, <2>4 DEF NoThingLost
    <3> HIDE DEF g, moved
    <3>3. house'.things = row.tiles
      BY <1>7, <3>2
    <3>4. QED
      BY <1>1, <1>6, <2>2, <3>1, <3>3
  <2>5. QED
    BY <2>3, <2>4
<1>13. QED
  BY <1>8, <1>9, <1>10, <1>11, <1>12 DEF HouseInv

\* The rent: a letter at most, or the house is emptied and lost.
LEMMA LetterInv ==
  ASSUME HouseInv, phase = "loaded", phase' = "paid", UNCHANGED <<onRestart, heir, whose>>,
         UNCHANGED <<row, has, losses>>, house.warnings < MaxWarnings,
         house' = [house EXCEPT !.warnings = @ + 1],
         notices' = IF notices < MaxWarnings THEN notices + 1 ELSE notices
  PROVE  HouseInv'
<1>1. house \in HouseRecords /\ row \in RowRecords /\ has \in Holdings /\ house.warnings \in Nat
  BY HouseFields DEF HouseInv
<1>2. /\ house' \in HouseRecords /\ house'.owner = house.owner /\ house'.things = house.things
      /\ house'.warnings = house.warnings + 1 /\ house'.scheduled = house.scheduled
      /\ house'.deed = house.deed
  BY <1>1 DEF HouseRecords
<1>3. notices \in 0..MaxWarnings /\ MaxWarnings \in Nat
  BY HouseAssumption DEF HouseInv, HouseTypes
<1>4. notices' \in 0..MaxWarnings /\ (house.warnings <= notices => house'.warnings <= notices')
  BY <1>1, <1>2, <1>3
<1>5. HouseTypes'
  BY <1>1, <1>2, <1>4, StateTyped DEF HouseInv, HouseTypes
<1>6. OwnersAgree'
  BY <1>2 DEF HouseInv, OwnersAgree
<1>7. DeedIsOwners' /\ Warned'
  BY <1>2, <1>4 DEF HouseInv, DeedIsOwners, Warned
<1>8. GoodsKept'
  BY <1>2 DEF HouseInv, GoodsKept, NoThingLost
<1>9. QED
  BY <1>5, <1>6, <1>7, <1>8 DEF HouseInv

\* An owner who cannot pay and has had his warnings is evicted.
LEMMA EvictInv ==
  ASSUME HouseInv, phase = "loaded", phase' = "paid", UNCHANGED <<onRestart, heir, whose>>,
         house.owner # Nobody, Evict
  PROVE  HouseInv'
<1> DEFINE t == SetOwner(HouseState, Nobody, TRUE)
<1>1. /\ house' = t.house /\ row' = t.row /\ has' = t.has
      /\ notices' = IF t.house.owner = house.owner THEN notices ELSE 0
      /\ losses' = IF heir # Nobody /\ house.things # {} THEN losses \cup {"disinherited"}
                   ELSE losses
  BY DEF Evict, Becomes
<1>2. /\ HouseState \in HouseStates /\ HouseState.house = house /\ HouseState.row = row
      /\ HouseState.has = has /\ house \in HouseRecords /\ has \in Holdings
      /\ house.owner \in Residents /\ house.things \in SUBSET Belongings
  BY HouseFields DEF HouseInv, HouseTypes, HouseOwners
<1>3. GoneTo(HouseState, Nobody, t)
  <2>1. Nobody \in HouseOwners
    BY DEF HouseOwners
  <2>2. QED
    BY <1>2, <2>1, SetOwnerNoted, Zenon
<1> HIDE DEF t
<1>4. /\ house' \in HouseRecords /\ row' \in RowRecords /\ has' \in Holdings
      /\ house'.owner = Nobody /\ house'.warnings = 0 /\ house'.things = {}
      /\ house'.scheduled = house.scheduled /\ house'.deed = house.deed
      /\ has' = [has EXCEPT ![house.owner] = @ \cup house.things]
      /\ row'.owner = Nobody /\ row'.newOwner = NoTransfer
  BY <1>1, <1>2, <1>3 DEF GoneTo, Moved, HouseStates
<1>5. notices' = 0
  BY <1>1, <1>3 DEF GoneTo, Moved
<1>6. notices' \in 0..MaxWarnings
  BY <1>5, HouseAssumption
<1>7. HouseTypes'
  BY <1>4, <1>6, StateTyped DEF HouseInv, HouseTypes
<1>8. OwnersAgree'
  <2>1. /\ ~house.scheduled /\ house.deed = NoDeed
        /\ onRestart => "deed outlives" \notin losses'
    BY <1>1 DEF HouseInv, OwnersAgree
  <2>2. QED
    BY <1>4, <2>1 DEF OwnersAgree
<1>9. Warned'
  BY <1>4, <1>6, NotWarned
<1>10. DeedIsOwners'
  BY <1>4, ClosedDeeds DEF HouseInv, OwnersAgree, DeedIsOwners
<1>11. GoodsKept'
  <2>1. SUFFICES ASSUME NoThingLost'
                 PROVE  Kept({}, has', whose, IF heir # Nobody THEN heir ELSE Nobody)
    BY <1>4 DEF GoodsKept
  <2>2. NoThingLost /\ (heir = Nobody \/ house.things = {})
    BY <1>1, <2>1 DEF NoThingLost
  <2>3. Kept(house.things, has, whose, IF heir # Nobody THEN heir ELSE house.owner)
    BY <2>2 DEF HouseInv, GoodsKept
  <2>4. CASE heir = Nobody
    BY <1>2, <1>4, <2>3, <2>4, Emptied
  <2>5. CASE house.things = {}
    <3>1. has' = has
      BY <1>2, <1>4, <2>5 DEF Holdings
    <3>2. QED
      BY <2>3, <2>5, <3>1, KeptNothing
  <2>6. QED
    BY <2>2, <2>4, <2>5
<1>12. QED
  BY <1>7, <1>8, <1>9, <1>10, <1>11 DEF HouseInv

\* The rent is taken, a warning sent or the owner evicted.
LEMMA PayInv == ASSUME HouseInv, PayHouses PROVE HouseInv'
<1>1. phase = "loaded" /\ phase' = "paid" /\ UNCHANGED <<onRestart, heir, whose>>
  BY DEF PayHouses
<1>2. CASE UNCHANGED <<house, row, has, notices, losses>>
  BY <1>1, <1>2 DEF HouseInv, HouseTypes, HouseState, OwnersAgree, DeedIsOwners, Warned,
     GoodsKept, NoThingLost
<1>3. QED
  BY <1>1, <1>2, LetterInv, EvictInv DEF PayHouses

\* The heir gets his things, and the table is brought up to date.
LEMMA HeirInv == ASSUME HouseInv, TransferHouseItemsToDepot PROVE HouseInv'
<1>1. /\ phase = "paid" /\ phase' = "up" /\ heir' = Nobody
      /\ UNCHANGED <<onRestart, whose, losses>>
  BY DEF TransferHouseItemsToDepot
<1>2. CASE heir = Nobody
  <2>1. UNCHANGED <<house, row, has, notices>>
    BY <1>2 DEF TransferHouseItemsToDepot
  <2>2. HouseTypes'
    BY <1>1, <1>2, <2>1 DEF HouseInv, HouseTypes, HouseState
  <2>3. OwnersAgree'
    BY <1>1, <1>2, <2>1 DEF HouseInv, OwnersAgree
  <2>4. QED
    BY <1>1, <1>2, <2>1, <2>2, <2>3
       DEF HouseInv, DeedIsOwners, Warned, GoodsKept, NoThingLost
<1>3. CASE heir # Nobody
  <2> DEFINE m == TransferToDepot(HouseState, heir)
             n == [m EXCEPT !.row.newOwner = NoTransfer]
             t == MapSave(n)
  <2>1. /\ house' = t.house /\ row' = t.row /\ has' = t.has
        /\ notices' = IF t.house.owner = house.owner THEN notices ELSE 0
    BY <1>3 DEF TransferHouseItemsToDepot, Becomes
  <2>2. /\ HouseState \in HouseStates /\ HouseState.house = house /\ HouseState.has = has
        /\ house \in HouseRecords /\ has \in Holdings /\ heir \in Residents
        /\ house.things \in SUBSET Belongings
    BY <1>3, HouseFields DEF HouseInv, HouseTypes, HouseOwners
  <2>3. /\ m \in HouseStates /\ m.house = [house EXCEPT !.things = {}]
        /\ m.has = [has EXCEPT ![heir] = @ \cup house.things]
    BY <2>2, TransferResult
  <2> HIDE DEF m
  <2>4. n \in HouseStates /\ n.house = m.house /\ n.has = m.has /\ n.row.newOwner = NoTransfer
    BY <2>3 DEF HouseStates, RowRecords
  <2> HIDE DEF n
  <2>5. /\ t \in HouseStates /\ t.house = n.house /\ t.has = n.has
        /\ t.row.owner = n.house.owner /\ t.row.newOwner = NoTransfer
    BY <2>4, MapSaveResult
  <2> HIDE DEF t
  <2>6. /\ house' \in HouseRecords /\ row' \in RowRecords /\ has' \in Holdings
        /\ house'.owner = house.owner /\ house'.warnings = house.warnings
        /\ house'.scheduled = house.scheduled /\ house'.deed = house.deed
        /\ house'.things = {} /\ has' = [has EXCEPT ![heir] = @ \cup house.things]
        /\ row'.owner = house.owner /\ row'.newOwner = NoTransfer
    <3>1. /\ house' = [house EXCEPT !.things = {}] /\ row' = t.row
          /\ has' = [has EXCEPT ![heir] = @ \cup house.things]
          /\ t.row \in RowRecords /\ t.has \in Holdings
      BY <2>1, <2>3, <2>4, <2>5 DEF HouseStates
    <3>2. /\ house' \in HouseRecords /\ house'.owner = house.owner
          /\ house'.warnings = house.warnings /\ house'.scheduled = house.scheduled
          /\ house'.deed = house.deed /\ house'.things = {}
      BY <2>2, <3>1 DEF HouseRecords
    <3>3. row'.owner = house.owner /\ row'.newOwner = NoTransfer
      BY <2>1, <2>5, <3>2
    <3>4. QED
      BY <2>1, <3>1, <3>2, <3>3
  <2>7. notices' = notices
    BY <2>1, <2>6
  <2>8. HouseTypes'
    BY <1>1, <2>6, <2>7, StateTyped DEF HouseInv, HouseTypes, HouseOwners
  <2>9. OwnersAgree'
    BY <1>1, <2>6 DEF HouseInv, OwnersAgree
  <2>10. DeedIsOwners' /\ Warned'
    BY <1>1, <2>6, <2>7 DEF HouseInv, DeedIsOwners, Warned
  <2>11. GoodsKept'
    <3>1. SUFFICES ASSUME NoThingLost' PROVE Kept({}, has', whose, house.owner)
      BY <1>1, <2>6 DEF GoodsKept
    <3>2. Kept(house.things, has, whose, heir)
      BY <1>1, <1>3, <3>1 DEF NoThingLost, HouseInv, GoodsKept
    <3>3. QED
      BY <2>2, <2>6, <3>2, Emptied
  <2>12. QED
    BY <2>8, <2>9, <2>10, <2>11 DEF HouseInv
<1>4. QED
  BY <1>2, <1>3

\* Every step keeps the invariant of the house.
LEMMA HouseNextInv == ASSUME HouseInv, [HouseNext]_houseVars PROVE HouseInv'
<1>1. CASE UNCHANGED houseVars
  BY <1>1 DEF houseVars, HouseInv, HouseTypes, HouseState, OwnersAgree, DeedIsOwners, Warned,
     GoodsKept, NoThingLost, LoadHouseItems
<1>2. QED
  BY <1>1, BuyInv, LeaveInv, StartTradeInv, CancelInv, ExecuteInv, MoveInv, SaveInv,
     ShutdownInv, CrashInv, LoadInv, PayInv, HeirInv DEF HouseNext

\* The inductive invariant implies what the run checks.
LEMMA HouseInvKept == HouseInv => HouseIsKept
<1> SUFFICES ASSUME HouseInv PROVE HouseIsKept
  OBVIOUS
<1>1. OwnerIsRecorded
  BY DEF HouseInv, OwnersAgree, OwnerIsRecorded
<1>2. BelongingsAreKept
  BY DEF HouseInv, OwnersAgree, GoodsKept, NoThingLost, Kept, BelongingsAreKept
<1>3. WarningsAreOwn
  BY DEF HouseInv, Warned, WarningsAreOwn
<1>4. QED
  BY <1>1, <1>2, <1>3 DEF HouseInv, HouseIsKept

\* House: for any residents, belongings and number of warnings, over every purchase,
\* transfer, save, crash and start, the table names the owner, every thing is in one
\* place with the one it belongs to, an open deed is the owner's and he has been told
\* of the warnings that count, except after the events that the model records as losses.
THEOREM HouseStaysKept == HouseSpec => []HouseIsKept
BY HouseInitInv, HouseNextInv, HouseInvKept, PTL DEF HouseSpec

-----------------------------------------------------------------------------
(***************************************************************************)
(* The market: what each handler takes from accounts and stocks it puts    *)
(* into the table, and the other way round.                                *)
(***************************************************************************)

\* market_offers.
Tables == {os \in [Ids -> Offers \cup {NoOffer}] :
             \A i \in Ids : os[i] # NoOffer => os[i].amount > 0}

\* The rows of a SELECT.
Rows == [id : Ids, row : Offers]

\* What each trader has of something.
Accounts == [Traders -> Nat]

\* The row of an expiry is the offer it was read from, or that offer before a part of it
\* was accepted.
RowOf(r, os, ms) ==
  os[r.id] # NoOffer =>
    /\ os[r.id].owner = r.row.owner /\ os[r.id].sale = r.row.sale
    /\ os[r.id].price = r.row.price /\ os[r.id].amount <= r.row.amount
    /\ "staleExpiry" \notin ms => os[r.id].amount = r.row.amount

\* The table, with n the next id and sel the rows of a pending expiry.
OffersOK(os, n, sel, ms) ==
  /\ os \in Tables /\ n \in 1..(MaxIds + 1)
  /\ \A i \in Ids : i >= n => os[i] = NoOffer
  /\ \A r \in sel : r.id < n /\ RowOf(r, os, ms)

\* The types, and how the rows of an expiry relate to the table.
MarketTypes ==
  /\ inMarket \subseteq Traders
  /\ bank \in Accounts /\ coins \in Accounts /\ stash \in Accounts /\ locker \in Accounts
  /\ fees \in Nat /\ dropped \in Nat
  /\ selected \subseteq Rows /\ IsFiniteSet(selected)
  /\ \A r, t \in selected : r.id = t.id => r = t
  /\ OffersOK(offers, nextId, selected, mishaps)

\* The inductive invariant of the market.
MarketInv == MarketTypes /\ NothingCloned /\ NothingVanishes

\* What a trader has in two places.
Both(f, g) == [p \in Traders |-> f[p] + g[p]]

\* Gold paid in advance for the offers of a table.
AdvancesIn(os) == [i \in Ids |-> IF os[i] # NoOffer /\ ~os[i].sale
                                 THEN os[i].price * os[i].amount ELSE 0]

\* Wares to be sold by the offers of a table.
OnSaleIn(os) == [i \in Ids |-> IF os[i] # NoOffer /\ os[i].sale THEN os[i].amount ELSE 0]

\* All gold, for given accounts, fees and offers.
GoldIn(b, c, fee, os) == SumFunction(Both(b, c)) + fee + SumFunction(AdvancesIn(os))

\* All wares, for given stocks, dropped wares and offers.
GoodsIn(s, l, d, os) == SumFunction(Both(s, l)) + d + SumFunction(OnSaleIn(os))

\* What a step may do to all gold and all wares: nothing, unless it records a mishap.
Settled(g, w, g1, w1, ms, ms1) ==
  /\ ms \subseteq ms1
  /\ ms1 \cap {"staleExpiry", "failedDelete"} = {} => g1 <= g /\ w1 <= w
  /\ "failedInsert" \notin ms1 => g1 >= g /\ w1 >= w

\* Gold and Goods in terms of the accounts and the table.
LEMMA GoldIs ==
  /\ Gold = GoldIn(bank, coins, fees, offers) /\ Goods = GoodsIn(stash, locker, dropped, offers)
  /\ Gold' = GoldIn(bank', coins', fees', offers')
  /\ Goods' = GoodsIn(stash', locker', dropped', offers')
<1>1. Advances = AdvancesIn(offers) /\ OnSale = OnSaleIn(offers)
  BY DEF Advances, AdvancesIn, OnSale, OnSaleIn, Open
<1>2. Advances' = AdvancesIn(offers') /\ OnSale' = OnSaleIn(offers')
  BY DEF Advances, AdvancesIn, OnSale, OnSaleIn, Open
<1>3. QED
  BY <1>1, <1>2 DEF Gold, GoldIn, Goods, GoodsIn, Both, Funds, Wares

\* An amount has a price.
LEMMA Priced ==
  ASSUME NEW v \in Prices, NEW a \in Nat
  PROVE  v \in Nat /\ v * a \in Nat /\ (a > 0 => v * a > 0)
<1>1. v \in Nat /\ v > 0
  BY MarketAssumption
<1>2. QED
  BY <1>1

\* The price of a part and of the rest.
LEMMA Partly ==
  ASSUME NEW v \in Nat, NEW a \in Nat, NEW b \in Nat, b <= a
  PROVE  v * (a - b) = v * a - v * b /\ v * b <= v * a /\ v * a \in Nat /\ v * b \in Nat
<1>1. PICK c \in Nat : a = b + c
  <2>1. a - b \in Nat /\ a = b + (a - b)
    OBVIOUS
  <2>2. QED
    BY <2>1
<1>2. v * (b + c) = v * b + v * c
  OBVIOUS
<1>3. v * b \in Nat /\ v * c \in Nat
  OBVIOUS
<1>4. a - b = c
  BY <1>1
<1>5. QED
  BY <1>1, <1>2, <1>3, <1>4

\* Two kinds of accounts before and after a change at the traders ps.
ChangedAt(f, g, f1, g1, ps) ==
  /\ f \in Accounts /\ g \in Accounts /\ f1 \in Accounts /\ g1 \in Accounts
  /\ \A q \in Traders : q \notin ps => f1[q] = f[q] /\ g1[q] = g[q]

\* What a change at p does to their sum, and one at p and o.
SumAfter(f, g, f1, g1, p) ==
  /\ SumFunction(Both(f1, g1)) + f[p] + g[p] = SumFunction(Both(f, g)) + f1[p] + g1[p]
  /\ SumFunction(Both(f1, g1)) \in Nat /\ SumFunction(Both(f, g)) \in Nat
  /\ f[p] \in Nat /\ g[p] \in Nat /\ f1[p] \in Nat /\ g1[p] \in Nat

\* What a change at p and o does to it.
SumAfterTwo(f, g, f1, g1, p, o) ==
  /\ SumFunction(Both(f1, g1)) + f[p] + g[p] + f[o] + g[o]
       = SumFunction(Both(f, g)) + f1[p] + g1[p] + f1[o] + g1[o]
  /\ SumFunction(Both(f1, g1)) \in Nat /\ SumFunction(Both(f, g)) \in Nat
  /\ f[p] \in Nat /\ g[p] \in Nat /\ f1[p] \in Nat /\ g1[p] \in Nat
  /\ f[o] \in Nat /\ g[o] \in Nat /\ f1[o] \in Nat /\ g1[o] \in Nat

\* The sum after a change at one trader.
LEMMA OneAccount ==
  ASSUME NEW f, NEW g, NEW f1, NEW g1, NEW p \in Traders, ChangedAt(f, g, f1, g1, {p})
  PROVE  SumAfter(f, g, f1, g1, p)
<1> DEFINE b == Both(f, g)
           b1 == Both(f1, g1)
<1>1. IsFiniteSet(Traders)
  BY MarketAssumption
<1>2. b \in [Traders -> Nat] /\ b1 \in [Traders -> Nat]
  BY DEF Both, Accounts, ChangedAt
<1>3. b[p] = f[p] + g[p] /\ b1[p] = f1[p] + g1[p]
  BY DEF Both
<1>4. \A q \in Traders : q # p => b1[q] = b[q]
  BY DEF Both, ChangedAt
<1>5. f[p] \in Nat /\ g[p] \in Nat /\ f1[p] \in Nat /\ g1[p] \in Nat
  BY DEF Accounts, ChangedAt
<1> HIDE DEF b, b1
<1>6. SumFunction(b1) + b[p] = SumFunction(b) + b1[p]
  BY <1>1, <1>2, <1>4, SumChange
<1>7. SumFunction(b) \in Nat /\ SumFunction(b1) \in Nat
  BY <1>1, <1>2, SumIsCount
<1>8. SumFunction(b1) + f[p] + g[p] = SumFunction(b) + f1[p] + g1[p]
  BY <1>3, <1>5, <1>6, <1>7
<1>9. QED
  BY <1>5, <1>7, <1>8 DEF b, b1, SumAfter

\* The sum after a change at two traders.
LEMMA TwoAccounts ==
  ASSUME NEW f, NEW g, NEW f1, NEW g1, NEW p \in Traders, NEW o \in Traders, o # p,
         ChangedAt(f, g, f1, g1, {p, o})
  PROVE  SumAfterTwo(f, g, f1, g1, p, o)
<1> DEFINE f2 == [f EXCEPT ![p] = f1[p]]
           g2 == [g EXCEPT ![p] = g1[p]]
<1>1. f2 \in Accounts /\ g2 \in Accounts
  BY DEF Accounts, ChangedAt
<1>2. f2[p] = f1[p] /\ g2[p] = g1[p] /\ f2[o] = f[o] /\ g2[o] = g[o]
  BY DEF Accounts, ChangedAt
<1>3. ChangedAt(f, g, f2, g2, {p})
  BY <1>1 DEF Accounts, ChangedAt
<1>4. ChangedAt(f2, g2, f1, g1, {o})
  BY <1>1, <1>2 DEF Accounts, ChangedAt
<1> HIDE DEF f2, g2
<1>5. SumAfter(f, g, f2, g2, p) /\ SumAfter(f2, g2, f1, g1, o)
  BY <1>3, <1>4, OneAccount
<1> DEFINE s == SumFunction(Both(f, g))
           s1 == SumFunction(Both(f1, g1))
           s2 == SumFunction(Both(f2, g2))
<1>6. /\ s2 + f[p] + g[p] = s + f1[p] + g1[p] /\ s1 + f[o] + g[o] = s2 + f1[o] + g1[o]
      /\ s \in Nat /\ s1 \in Nat /\ s2 \in Nat
      /\ f[p] \in Nat /\ g[p] \in Nat /\ f1[p] \in Nat /\ g1[p] \in Nat
      /\ f[o] \in Nat /\ g[o] \in Nat /\ f1[o] \in Nat /\ g1[o] \in Nat
  BY <1>2, <1>5 DEF SumAfter
<1> HIDE DEF s, s1, s2
<1>7. s1 + f[p] + g[p] + f[o] + g[o] = s + f1[p] + g1[p] + f1[o] + g1[o]
  <2>1. s1 + f[o] + g[o] + (f[p] + g[p]) = s2 + f[p] + g[p] + (f1[o] + g1[o])
    BY <1>6
  <2>2. s2 + f[p] + g[p] + (f1[o] + g1[o]) = s + f1[p] + g1[p] + (f1[o] + g1[o])
    BY <1>6
  <2>3. QED
    BY <1>6, <2>1, <2>2
<1>8. QED
  BY <1>6, <1>7 DEF SumAfterTwo, s, s1

\* What the offers stand for are natural numbers.
LEMMA TablesType ==
  ASSUME NEW os \in Tables
  PROVE  AdvancesIn(os) \in [Ids -> Nat] /\ OnSaleIn(os) \in [Ids -> Nat]
<1>1. ASSUME NEW i \in Ids, os[i] # NoOffer
      PROVE  os[i].price * os[i].amount \in Nat /\ os[i].amount \in Nat
  <2>1. os[i].price \in Prices /\ os[i].amount \in Nat
    BY <1>1 DEF Tables, Offers
  <2>2. QED
    BY <2>1, Priced
<1>2. QED
  BY <1>1 DEF AdvancesIn, OnSaleIn

\* What the offers stand for after a change of one offer.
LEMMA OneOffer ==
  ASSUME NEW os \in Tables, NEW os1 \in Tables, NEW i \in Ids,
         \A j \in Ids : j # i => os1[j] = os[j]
  PROVE  /\ SumFunction(AdvancesIn(os1)) + AdvancesIn(os)[i] = SumFunction(AdvancesIn(os)) + AdvancesIn(os1)[i]
         /\ SumFunction(OnSaleIn(os1)) + OnSaleIn(os)[i] = SumFunction(OnSaleIn(os)) + OnSaleIn(os1)[i]
         /\ SumFunction(AdvancesIn(os1)) \in Nat /\ SumFunction(AdvancesIn(os)) \in Nat
         /\ SumFunction(OnSaleIn(os1)) \in Nat /\ SumFunction(OnSaleIn(os)) \in Nat
<1>1. IsFiniteSet(Ids)
  <2>1. MaxIds \in Int
    BY MarketAssumption
  <2>2. QED
    BY <2>1, FS_Interval DEF Ids
<1>2. AdvancesIn(os) \in [Ids -> Nat] /\ AdvancesIn(os1) \in [Ids -> Nat]
  BY TablesType
<1>3. OnSaleIn(os) \in [Ids -> Nat] /\ OnSaleIn(os1) \in [Ids -> Nat]
  BY TablesType
<1>4. \A j \in Ids : j # i => AdvancesIn(os1)[j] = AdvancesIn(os)[j] /\ OnSaleIn(os1)[j] = OnSaleIn(os)[j]
  BY DEF AdvancesIn, OnSaleIn
<1>5. QED
  BY <1>1, <1>2, <1>3, <1>4, SumChange, SumIsCount

\* All sums are natural numbers.
LEMMA SumsType ==
  ASSUME NEW b \in Accounts, NEW c \in Accounts, NEW os \in Tables, NEW n \in Nat
  PROVE  /\ SumFunction(Both(b, c)) \in Nat
         /\ SumFunction(AdvancesIn(os)) \in Nat /\ SumFunction(OnSaleIn(os)) \in Nat
         /\ GoldIn(b, c, n, os) \in Nat /\ GoodsIn(b, c, n, os) \in Nat
<1>1. IsFiniteSet(Traders) /\ MaxIds \in Int
  BY MarketAssumption
<1>2. IsFiniteSet(Ids)
  BY <1>1, FS_Interval DEF Ids
<1>3. Both(b, c) \in [Traders -> Nat]
  BY DEF Both, Accounts
<1>4. AdvancesIn(os) \in [Ids -> Nat] /\ OnSaleIn(os) \in [Ids -> Nat]
  BY TablesType
<1>5. /\ SumFunction(Both(b, c)) \in Nat
      /\ SumFunction(AdvancesIn(os)) \in Nat /\ SumFunction(OnSaleIn(os)) \in Nat
  BY <1>1, <1>2, <1>3, <1>4, SumIsCount
<1>6. QED
  BY <1>5 DEF GoldIn, GoodsIn

\* Gold and Goods are natural numbers.
LEMMA MarketSums ==
  /\ MarketTypes => Gold \in Nat /\ Goods \in Nat
  /\ MarketTypes' => Gold' \in Nat /\ Goods' \in Nat
<1>1. ASSUME MarketTypes PROVE Gold \in Nat /\ Goods \in Nat
  BY <1>1, SumsType, GoldIs DEF MarketTypes, OffersOK
<1>2. ASSUME MarketTypes' PROVE Gold' \in Nat /\ Goods' \in Nat
  BY <1>2, SumsType, GoldIs DEF MarketTypes, OffersOK
<1>3. QED
  BY <1>1, <1>2

\* The table stays in order when a mishap is recorded.
LEMMA MoreMishaps ==
  ASSUME NEW os, NEW n, NEW sel, NEW ms, NEW ms1, ms \subseteq ms1, OffersOK(os, n, sel, ms)
  PROVE  OffersOK(os, n, sel, ms1)
BY DEF OffersOK, RowOf

\* n goes from the first of two accounts of p, and the rest from the second.
Takes(f, g, p, n, f1, g1) ==
  /\ f1 = [f EXCEPT ![p] = Larger(0, @ - n)]
  /\ \/ n <= f[p] + g[p] /\ g1 = [g EXCEPT ![p] = @ - Larger(0, n - f[p])]
     \/ g1 = [g EXCEPT ![p] = Larger(0, @ - Larger(0, n - f[p]))]

\* removeMoney() and removeOfferItems() take exactly n, or all there is.
LEMMA TakenFrom ==
  ASSUME NEW f \in Accounts, NEW g \in Accounts, NEW p \in Traders, NEW n \in Nat, NEW f1, NEW g1,
         Takes(f, g, p, n, f1, g1)
  PROVE  /\ f1 \in Accounts /\ g1 \in Accounts
         /\ \A q \in Traders : q # p => f1[q] = f[q] /\ g1[q] = g[q]
         /\ f1[p] \in Nat /\ g1[p] \in Nat /\ f[p] \in Nat /\ g[p] \in Nat
         /\ n <= f[p] + g[p] => f1[p] + g1[p] = f[p] + g[p] - n
         /\ n >= f[p] + g[p] => f1[p] + g1[p] = 0
<1>1. f[p] \in Nat /\ g[p] \in Nat
  BY DEF Accounts
<1>2. f1[p] = Larger(0, f[p] - n)
  BY DEF Accounts, Takes
<1>3. \/ n <= f[p] + g[p] /\ g1[p] = g[p] - Larger(0, n - f[p])
      \/ g1[p] = Larger(0, g[p] - Larger(0, n - f[p]))
  BY DEF Accounts, Takes
<1>4. f1[p] \in Nat /\ g1[p] \in Nat
  BY <1>1, <1>2, <1>3 DEF Larger
<1>5. /\ n <= f[p] + g[p] => f1[p] + g1[p] = f[p] + g[p] - n
      /\ n >= f[p] + g[p] => f1[p] + g1[p] = 0
  BY <1>1, <1>2, <1>3 DEF Larger
<1>6. \A q \in Traders : q # p => f1[q] = f[q] /\ g1[q] = g[q]
  BY DEF Accounts, Takes
<1>7. f1 \in [Traders -> Nat]
  <2>1. f1 = [f EXCEPT ![p] = f1[p]]
    BY <1>2 DEF Accounts, Takes
  <2>2. QED
    BY <1>4, <2>1 DEF Accounts
<1>8. g1 \in [Traders -> Nat]
  <2>1. g1 = [g EXCEPT ![p] = g1[p]]
    BY <1>3 DEF Accounts, Takes
  <2>2. QED
    BY <1>4, <2>1 DEF Accounts
<1>9. QED
  BY <1>1, <1>4, <1>5, <1>6, <1>7, <1>8 DEF Accounts

\* A step that settles keeps the invariant.
LEMMA SettledInv ==
  ASSUME MarketInv, MarketTypes', Settled(Gold, Goods, Gold', Goods', mishaps, mishaps')
  PROVE  MarketInv'
<1>1. Gold \in Nat /\ Goods \in Nat /\ Gold' \in Nat /\ Goods' \in Nat
  BY MarketSums DEF MarketInv
<1>2. AllGold \in Nat /\ AllGoods \in Nat
  <2>1. Cardinality(Traders) \in Nat
    BY MarketAssumption, FS_CardinalityType
  <2>2. StartBank + StartPurse \in Nat /\ StartStash + StartLocker \in Nat
    BY MarketAssumption
  <2>3. QED
    BY <2>1, <2>2 DEF AllGold, AllGoods
<1>3. ASSUME mishaps' \cap {"staleExpiry", "failedDelete"} = {}
      PROVE  Gold' <= AllGold' /\ Goods' <= AllGoods'
  <2>1. mishaps \cap {"staleExpiry", "failedDelete"} = {} /\ Gold' <= Gold /\ Goods' <= Goods
    BY <1>3 DEF Settled
  <2>2. Gold <= AllGold /\ Goods <= AllGoods
    BY <2>1 DEF MarketInv, NothingCloned
  <2>3. AllGold' = AllGold /\ AllGoods' = AllGoods
    BY DEF AllGold, AllGoods
  <2>4. QED
    BY <1>1, <1>2, <2>1, <2>2, <2>3
<1>4. ASSUME "failedInsert" \notin mishaps'
      PROVE  Gold' >= AllGold' /\ Goods' >= AllGoods'
  <2>1. "failedInsert" \notin mishaps /\ Gold' >= Gold /\ Goods' >= Goods
    BY <1>4 DEF Settled
  <2>2. Gold >= AllGold /\ Goods >= AllGoods
    BY <2>1 DEF MarketInv, NothingVanishes
  <2>3. AllGold' = AllGold /\ AllGoods' = AllGoods
    BY DEF AllGold, AllGoods
  <2>4. QED
    BY <1>1, <1>2, <2>1, <2>2, <2>3
<1>5. QED
  BY <1>3, <1>4 DEF MarketInv, NothingCloned, NothingVanishes

\* A step that moves nothing settles.
LEMMA QuietSettled ==
  ASSUME MarketTypes, UNCHANGED <<holdings, offers, fees, dropped, mishaps>>
  PROVE  Settled(Gold, Goods, Gold', Goods', mishaps, mishaps')
<1>1. Gold' = Gold /\ Goods' = Goods
  BY GoldIs DEF holdings
<1>2. Gold \in Nat /\ Goods \in Nat
  BY MarketSums
<1>3. QED
  BY <1>1, <1>2 DEF Settled

\* createOffer(): the table gains the offer, or the statement fails.
LEMMA OfferMade ==
  ASSUME MarketTypes, nextId <= MaxIds, NEW p \in Traders, NEW sale \in BOOLEAN,
         NEW a \in Amounts, NEW v \in Prices, CreateOffer(p, sale, a, v), selected' = selected
  PROVE  /\ OffersOK(offers', nextId', selected', mishaps')
         /\ \/ /\ mishaps' = mishaps
               /\ SumFunction(AdvancesIn(offers')) =
                    SumFunction(AdvancesIn(offers)) + (IF sale THEN 0 ELSE v * a)
               /\ SumFunction(OnSaleIn(offers')) =
                    SumFunction(OnSaleIn(offers)) + (IF sale THEN a ELSE 0)
            \/ mishaps = {} /\ mishaps' = {"failedInsert"} /\ offers' = offers
<1> DEFINE o == [owner |-> p, sale |-> sale, amount |-> a, price |-> v]
<1>1. OffersOK(offers, nextId, selected, mishaps) /\ MaxIds \in Nat /\ nextId' = nextId + 1
  BY MarketAssumption DEF MarketTypes, CreateOffer
<1>2. nextId \in Ids /\ offers \in Tables /\ offers[nextId] = NoOffer
  BY <1>1 DEF OffersOK, Ids
<1>3. a \in Nat /\ a > 0
  BY MarketAssumption
<1>4. o \in Offers /\ o # NoOffer /\ o.amount = a
  BY <1>3, MarketAssumption DEF Offers
<1>5. CASE mishaps' = mishaps /\ offers' = [offers EXCEPT ![nextId] = o]
  <2>1. PICK os : os = offers'
    OBVIOUS
  <2>2. os \in [Ids -> Offers \cup {NoOffer}]
    BY <1>2, <1>4, <1>5, <2>1 DEF Tables
  <2>3. os[nextId] = o /\ \A j \in Ids : j # nextId => os[j] = offers[j]
    BY <1>2, <1>5, <2>1 DEF Tables
  <2> HIDE DEF o
  <2>4. os \in Tables
    BY <1>2, <1>3, <1>4, <2>2, <2>3 DEF Tables
  <2>5. OffersOK(os, nextId', selected', mishaps')
    <3>1. nextId' \in 1..(MaxIds + 1)
      BY <1>1 DEF OffersOK
    <3>2. \A i \in Ids : i >= nextId' => os[i] = NoOffer
      BY <1>1, <2>3 DEF OffersOK, Ids
    <3>3. ASSUME NEW r \in selected' PROVE r.id < nextId' /\ RowOf(r, os, mishaps')
      <4>1. r \in selected /\ r.id < nextId /\ r.id \in Ids /\ RowOf(r, offers, mishaps)
        BY <1>1, <3>3 DEF OffersOK, MarketTypes, Rows
      <4>2. r.id # nextId /\ r.id < nextId'
        BY <1>1, <1>2, <4>1 DEF Ids
      <4>3. QED
        BY <1>5, <2>3, <4>1, <4>2 DEF RowOf
    <3>4. QED
      BY <2>4, <3>1, <3>2, <3>3 DEF OffersOK
  <2>6. /\ SumFunction(AdvancesIn(os)) + AdvancesIn(offers)[nextId] = SumFunction(AdvancesIn(offers)) + AdvancesIn(os)[nextId]
        /\ SumFunction(OnSaleIn(os)) + OnSaleIn(offers)[nextId] = SumFunction(OnSaleIn(offers)) + OnSaleIn(os)[nextId]
        /\ SumFunction(AdvancesIn(os)) \in Nat /\ SumFunction(AdvancesIn(offers)) \in Nat
        /\ SumFunction(OnSaleIn(os)) \in Nat /\ SumFunction(OnSaleIn(offers)) \in Nat
    BY <1>2, <2>3, <2>4, OneOffer
  <2>7. AdvancesIn(offers)[nextId] = 0 /\ OnSaleIn(offers)[nextId] = 0
    BY <1>2 DEF AdvancesIn, OnSaleIn
  <2>8. o.sale = sale /\ o.price = v
    BY DEF o
  <2>9. /\ AdvancesIn(os)[nextId] = (IF sale THEN 0 ELSE v * a)
        /\ OnSaleIn(os)[nextId] = (IF sale THEN a ELSE 0)
    BY <1>2, <1>4, <2>3, <2>8 DEF AdvancesIn, OnSaleIn
  <2>10. v * a \in Nat
    BY <1>3, Priced
  <2>11. /\ SumFunction(AdvancesIn(os)) = SumFunction(AdvancesIn(offers)) + (IF sale THEN 0 ELSE v * a)
         /\ SumFunction(OnSaleIn(os)) = SumFunction(OnSaleIn(offers)) + (IF sale THEN a ELSE 0)
    BY <1>3, <2>6, <2>7, <2>9, <2>10
  <2>12. QED
    BY <1>5, <2>1, <2>5, <2>11
<1>6. CASE mishaps = {} /\ mishaps' = {"failedInsert"} /\ offers' = offers
  <2>1. OffersOK(offers, nextId, selected, mishaps')
    BY <1>1, <1>6, MoreMishaps
  <2>2. OffersOK(offers, nextId', selected, mishaps')
    <3>1. nextId' \in 1..(MaxIds + 1) /\ nextId \in Nat
      BY <1>1 DEF OffersOK
    <3>2. \A i \in Ids : i >= nextId' => i >= nextId
      BY <1>1, <3>1 DEF Ids
    <3>3. \A r \in selected : r.id < nextId => r.id < nextId'
      BY <1>1, <3>1 DEF MarketTypes, Rows, Ids
    <3>4. QED
      BY <2>1, <3>1, <3>2, <3>3 DEF OffersOK
  <2>3. QED
    BY <1>6, <2>2
<1>7. QED
  BY <1>5, <1>6 DEF CreateOffer, Execute, MayFail

\* The fee is a natural number.
LEMMA FeeType ==
  ASSUME NEW a \in Amounts, NEW v \in Prices
  PROVE  Fee(a, v) \in Nat /\ a \in Nat /\ a > 0 /\ v * a \in Nat
<1>1. a \in Nat /\ a > 0 /\ v \in Nat /\ FeeUnit \in Nat /\ FeeUnit > 0
  BY MarketAssumption
<1>2. FeeMin \in Nat /\ FeeMax \in Nat
  BY MarketAssumption
<1>3. v \div FeeUnit \in Nat
  BY <1>1
<1>4. (v \div FeeUnit) * a \in Nat
  BY <1>1, <1>3
<1>5. v * a \in Nat
  BY <1>1
<1>6. QED
  BY <1>1, <1>2, <1>4, <1>5 DEF Fee, Larger, Smaller

\* A sale takes the wares and the fee, and posts the offer or drops the wares.
LEMMA CreateSellInv ==
  ASSUME MarketTypes, NEW p \in Traders, NEW a \in Amounts, NEW v \in Prices, CreateSellOffer(p, a, v)
  PROVE  MarketTypes' /\ Settled(Gold, Goods, Gold', Goods', mishaps, mishaps')
<1> DEFINE fee == Fee(a, v)
<1>1. fee \in Nat /\ a \in Nat
  BY FeeType
<1> HIDE DEF fee
<1>2. /\ bank \in Accounts /\ coins \in Accounts /\ stash \in Accounts /\ locker \in Accounts
      /\ fees \in Nat /\ dropped \in Nat /\ offers \in Tables
      /\ inMarket' = inMarket /\ selected' = selected /\ nextId <= MaxIds
  BY DEF MarketTypes, OffersOK, CreateSellOffer, CanCreate
<1>3. /\ stash' \in Accounts /\ locker' \in Accounts
      /\ \A q \in Traders : q # p => stash'[q] = stash[q] /\ locker'[q] = locker[q]
      /\ stash[p] \in Nat /\ locker[p] \in Nat /\ stash'[p] \in Nat /\ locker'[p] \in Nat
      /\ a <= stash[p] + locker[p] => stash'[p] + locker'[p] = stash[p] + locker[p] - a
      /\ a >= stash[p] + locker[p] => stash'[p] + locker'[p] = 0
  <2>1. Takes(stash, locker, p, a, stash', locker')
    BY DEF CreateSellOffer, RemoveOfferItems, Takes
  <2>2. QED
    BY <1>1, <1>2, <2>1, TakenFrom
<1>4. SumFunction(Both(stash', locker')) + stash[p] + locker[p] = SumFunction(Both(stash, locker)) + stash'[p] + locker'[p]
  <2>1. ChangedAt(stash, locker, stash', locker', {p})
    BY <1>2, <1>3 DEF ChangedAt
  <2>2. SumAfter(stash, locker, stash', locker', p)
    BY <2>1, OneAccount
  <2>3. QED
    BY <2>2 DEF SumAfter
<1>5. /\ SumFunction(Both(stash, locker)) \in Nat /\ SumFunction(Both(stash', locker')) \in Nat
      /\ SumFunction(Both(bank, coins)) \in Nat
      /\ SumFunction(AdvancesIn(offers)) \in Nat /\ SumFunction(OnSaleIn(offers)) \in Nat
  BY <1>2, <1>3, SumsType
<1>6. CASE /\ Wares(p) >= a /\ RemoveMoneyOf(p, fee) /\ CreateOffer(p, TRUE, a, v)
           /\ fees' = fees + fee /\ dropped' = dropped
  <2>1. fee <= bank[p] + coins[p]
    BY DEF CreateSellOffer, Funds, fee
  <2>2. coins[p] \in Nat /\ bank[p] \in Nat
    BY <1>2 DEF Accounts
  <2>3. fee <= coins[p] + bank[p]
    BY <1>1, <2>1, <2>2
  <2>4. /\ coins' \in Accounts /\ bank' \in Accounts
        /\ \A q \in Traders : q # p => coins'[q] = coins[q] /\ bank'[q] = bank[q]
        /\ coins'[p] \in Nat /\ bank'[p] \in Nat
        /\ coins'[p] + bank'[p] = coins[p] + bank[p] - fee
    <3>1. Takes(coins, bank, p, fee, coins', bank')
      BY <1>6, <2>3 DEF RemoveMoneyOf, Takes
    <3>2. QED
      BY <1>1, <1>2, <2>3, <3>1, TakenFrom
  <2>5. SumFunction(Both(bank', coins')) + bank[p] + coins[p] = SumFunction(Both(bank, coins)) + bank'[p] + coins'[p]
    <3>1. ChangedAt(bank, coins, bank', coins', {p})
      BY <1>2, <2>4 DEF ChangedAt
    <3>2. SumAfter(bank, coins, bank', coins', p)
      BY <3>1, OneAccount
    <3>3. QED
      BY <3>2 DEF SumAfter
  <2>6. SumFunction(Both(bank', coins')) \in Nat
    BY <1>2, <2>4, SumsType
  <2>7. SumFunction(Both(bank', coins')) = SumFunction(Both(bank, coins)) - fee
    BY <1>1, <1>5, <2>2, <2>4, <2>5, <2>6
  <2>8. SumFunction(Both(stash', locker')) = SumFunction(Both(stash, locker)) - a
    <3>1. a <= stash[p] + locker[p]
      BY <1>1, <1>3, <1>6 DEF Wares
    <3>2. QED
      BY <1>1, <1>3, <1>4, <1>5, <3>1
  <2>9. /\ OffersOK(offers', nextId', selected', mishaps')
        /\ \/ /\ mishaps' = mishaps
              /\ SumFunction(AdvancesIn(offers')) = SumFunction(AdvancesIn(offers)) + 0
              /\ SumFunction(OnSaleIn(offers')) = SumFunction(OnSaleIn(offers)) + a
           \/ mishaps = {} /\ mishaps' = {"failedInsert"} /\ offers' = offers
    BY <1>2, <1>6, OfferMade
  <2>10. MarketTypes'
    BY <1>1, <1>2, <1>3, <1>6, <2>4, <2>9 DEF MarketTypes
  <2>11. CASE mishaps' = mishaps
    <3>1. /\ SumFunction(AdvancesIn(offers')) = SumFunction(AdvancesIn(offers))
          /\ SumFunction(OnSaleIn(offers')) = SumFunction(OnSaleIn(offers)) + a
      BY <1>5, <2>9, <2>11
    <3>2. Gold' = Gold
      BY <1>1, <1>2, <1>5, <1>6, <2>7, <3>1, GoldIs DEF GoldIn
    <3>3. Goods' = Goods
      BY <1>1, <1>2, <1>5, <1>6, <2>8, <3>1, GoldIs DEF GoodsIn
    <3>4. Gold \in Nat /\ Goods \in Nat
      BY MarketSums
    <3>5. QED
      BY <2>10, <2>11, <3>2, <3>3, <3>4 DEF Settled
  <2>12. CASE mishaps = {} /\ mishaps' = {"failedInsert"} /\ offers' = offers
    <3>1. Gold' = Gold
      BY <1>1, <1>2, <1>5, <1>6, <2>7, <2>12, GoldIs DEF GoldIn
    <3>2. Goods' = Goods - a
      BY <1>1, <1>2, <1>5, <1>6, <2>8, <2>12, GoldIs DEF GoodsIn
    <3>3. Gold \in Nat /\ Goods \in Nat
      BY MarketSums
    <3>4. Gold' <= Gold /\ Goods' <= Goods
      BY <1>1, <3>1, <3>2, <3>3
    <3>5. QED
      BY <2>10, <2>12, <3>4 DEF Settled
  <2>13. QED
    BY <2>9, <2>11, <2>12
<1>7. CASE /\ Wares(p) < a /\ dropped' = dropped + Wares(p)
           /\ UNCHANGED <<bank, coins, offers, nextId, fees, mishaps>>
  <2>1. a >= stash[p] + locker[p] /\ Wares(p) = stash[p] + locker[p]
    BY <1>1, <1>3, <1>7 DEF Wares
  <2>2. SumFunction(Both(stash', locker')) + stash[p] + locker[p] = SumFunction(Both(stash, locker))
    BY <1>3, <1>4, <1>5, <2>1
  <2>3. Goods' = Goods
    BY <1>2, <1>3, <1>5, <1>7, <2>1, <2>2, GoldIs DEF GoodsIn
  <2>4. Gold' = Gold
    BY <1>7, GoldIs
  <2>5. dropped' \in Nat
    BY <1>2, <1>3, <1>7, <2>1
  <2>6. MarketTypes'
    BY <1>2, <1>3, <1>7, <2>5 DEF MarketTypes
  <2>7. Gold \in Nat /\ Goods \in Nat
    BY MarketSums
  <2>8. QED
    BY <1>7, <2>3, <2>4, <2>6, <2>7 DEF Settled
<1>8. QED
  BY <1>6, <1>7 DEF CreateSellOffer, fee

\* A purchase takes the price and the fee, and posts the offer.
LEMMA CreateBuyInv ==
  ASSUME MarketTypes, NEW p \in Traders, NEW a \in Amounts, NEW v \in Prices, CreateBuyOffer(p, a, v)
  PROVE  MarketTypes' /\ Settled(Gold, Goods, Gold', Goods', mishaps, mishaps')
<1> DEFINE fee == Fee(a, v)
           cost == v * a
           total == cost + fee
<1>1. fee \in Nat /\ a \in Nat /\ cost \in Nat
  BY FeeType
<1>2. /\ bank \in Accounts /\ coins \in Accounts /\ stash \in Accounts /\ locker \in Accounts
      /\ fees \in Nat /\ dropped \in Nat /\ offers \in Tables
      /\ inMarket' = inMarket /\ selected' = selected /\ nextId <= MaxIds
      /\ stash' = stash /\ locker' = locker /\ dropped' = dropped /\ fees' = fees + fee
  BY DEF MarketTypes, OffersOK, CreateBuyOffer, CanCreate
<1>3. total \in Nat /\ coins[p] \in Nat /\ bank[p] \in Nat
  BY <1>1, <1>2 DEF Accounts
<1>4. total <= coins[p] + bank[p]
  BY <1>3 DEF CreateBuyOffer, Funds
<1>5. /\ coins' = [coins EXCEPT ![p] = Larger(0, @ - total)]
      /\ bank' = [bank EXCEPT ![p] = @ - Larger(0, total - coins[p])]
  BY DEF CreateBuyOffer, RemoveMoneyOf
<1>6. CreateOffer(p, FALSE, a, v)
  BY DEF CreateBuyOffer
<1>7. /\ OffersOK(offers', nextId', selected', mishaps')
      /\ \/ /\ mishaps' = mishaps
            /\ SumFunction(AdvancesIn(offers')) = SumFunction(AdvancesIn(offers)) + cost
            /\ SumFunction(OnSaleIn(offers')) = SumFunction(OnSaleIn(offers)) + 0
         \/ mishaps = {} /\ mishaps' = {"failedInsert"} /\ offers' = offers
  BY <1>2, <1>6, OfferMade
<1> HIDE DEF fee, cost
<1>8. /\ coins' \in Accounts /\ bank' \in Accounts
      /\ \A q \in Traders : q # p => coins'[q] = coins[q] /\ bank'[q] = bank[q]
      /\ coins'[p] \in Nat /\ bank'[p] \in Nat
      /\ coins'[p] + bank'[p] = coins[p] + bank[p] - total
  <2> HIDE DEF total
  <2>1. Takes(coins, bank, p, total, coins', bank')
    BY <1>4, <1>5 DEF Takes
  <2>2. QED
    BY <1>2, <1>3, <1>4, <2>1, TakenFrom
<1>9. SumFunction(Both(bank', coins')) + bank[p] + coins[p] = SumFunction(Both(bank, coins)) + bank'[p] + coins'[p]
  <2>1. ChangedAt(bank, coins, bank', coins', {p})
    BY <1>2, <1>8 DEF ChangedAt
  <2>2. SumAfter(bank, coins, bank', coins', p)
    BY <2>1, OneAccount
  <2>3. QED
    BY <2>2 DEF SumAfter
<1>10. /\ SumFunction(Both(stash, locker)) \in Nat
       /\ SumFunction(Both(bank, coins)) \in Nat /\ SumFunction(Both(bank', coins')) \in Nat
       /\ SumFunction(AdvancesIn(offers)) \in Nat /\ SumFunction(OnSaleIn(offers)) \in Nat
  BY <1>2, <1>8, SumsType
<1>11. SumFunction(Both(bank', coins')) = SumFunction(Both(bank, coins)) - cost - fee
  <2>1. coins'[p] \in Nat /\ bank'[p] \in Nat /\ coins'[p] + bank'[p] = coins[p] + bank[p] - (cost + fee)
    BY <1>8
  <2> DEFINE s0 == SumFunction(Both(bank, coins))
             s1 == SumFunction(Both(bank', coins'))
  <2>2. s1 + bank[p] + coins[p] = s0 + bank'[p] + coins'[p] /\ s0 \in Nat /\ s1 \in Nat
    BY <1>9, <1>10
  <2>3. cost \in Nat /\ fee \in Nat /\ coins[p] \in Nat /\ bank[p] \in Nat
    BY <1>1, <1>3
  <2> HIDE DEF s0, s1, total
  <2>4. s1 = s0 - cost - fee
    BY <2>1, <2>2, <2>3
  <2>5. QED
    BY <2>4 DEF s0, s1
<1>12. MarketTypes'
  BY <1>1, <1>2, <1>7, <1>8 DEF MarketTypes
<1>13. Gold \in Nat /\ Goods \in Nat
  BY MarketSums
<1>14. CASE mishaps' = mishaps /\ SumFunction(AdvancesIn(offers')) = SumFunction(AdvancesIn(offers)) + cost
                               /\ SumFunction(OnSaleIn(offers')) = SumFunction(OnSaleIn(offers)) + 0
  <2>1. Gold' = Gold
    BY <1>1, <1>2, <1>10, <1>11, <1>14, GoldIs DEF GoldIn
  <2>2. Goods' = Goods
    BY <1>2, <1>10, <1>14, GoldIs DEF GoodsIn
  <2>3. QED
    BY <1>12, <1>13, <1>14, <2>1, <2>2 DEF Settled
<1>15. CASE mishaps = {} /\ mishaps' = {"failedInsert"} /\ offers' = offers
  <2>1. Gold' = Gold - cost
    BY <1>1, <1>2, <1>10, <1>11, <1>15, GoldIs DEF GoldIn
  <2>2. Goods' = Goods
    BY <1>2, <1>15, GoldIs DEF GoodsIn
  <2>3. Gold' <= Gold /\ Goods' <= Goods
    BY <1>1, <1>13, <2>1, <2>2
  <2>4. QED
    BY <1>12, <1>15, <2>3 DEF Settled
<1>16. QED
  BY <1>7, <1>14, <1>15

\* b of the offer i are accepted, or taken back.
Reduced(os, i, b, os1) ==
  os1 = [os EXCEPT ![i] = IF os[i].amount = b THEN NoOffer ELSE [os[i] EXCEPT !.amount = @ - b]]

\* acceptOffer() and deleteOffer() take b from one offer.
LEMMA OfferReduced ==
  ASSUME NEW os \in Tables, NEW i \in Ids, os[i] # NoOffer, NEW b \in Nat, b <= os[i].amount,
         NEW os1, Reduced(os, i, b, os1)
  PROVE  /\ os1 \in Tables
         /\ \A j \in Ids : j # i => os1[j] = os[j]
         /\ os1[i] # NoOffer => /\ os1[i].owner = os[i].owner /\ os1[i].sale = os[i].sale
                                /\ os1[i].price = os[i].price /\ os1[i].amount = os[i].amount - b
                                /\ b < os[i].amount
         /\ SumFunction(AdvancesIn(os1)) =
              SumFunction(AdvancesIn(os)) - (IF os[i].sale THEN 0 ELSE os[i].price * b)
         /\ SumFunction(OnSaleIn(os1)) = SumFunction(OnSaleIn(os)) - (IF os[i].sale THEN b ELSE 0)
<1> DEFINE o == os[i]
<1>1. o \in Offers /\ o.amount \in Nat /\ o.price \in Prices /\ o.price \in Nat /\ o.sale \in BOOLEAN
  BY MarketAssumption DEF Tables, Offers
<1> DEFINE x == IF o.amount = b THEN NoOffer ELSE [o EXCEPT !.amount = @ - b]
<1>2. os1 = [os EXCEPT ![i] = x]
  BY DEF Reduced
<1>3. x \in Offers \cup {NoOffer}
  BY <1>1 DEF Offers
<1>4. os1 \in [Ids -> Offers \cup {NoOffer}] /\ os1[i] = x /\ \A j \in Ids : j # i => os1[j] = os[j]
  <2> HIDE DEF x
  <2>1. QED
    BY <1>2, <1>3 DEF Tables
<1>5. CASE o.amount = b
  <2>1. os1[i] = NoOffer
    BY <1>4, <1>5
  <2>2. os1 \in Tables
    BY <1>4, <2>1 DEF Tables
  <2>3. AdvancesIn(os1)[i] = 0 /\ OnSaleIn(os1)[i] = 0
    BY <2>1 DEF AdvancesIn, OnSaleIn
  <2>4. /\ AdvancesIn(os)[i] = (IF o.sale THEN 0 ELSE o.price * b)
        /\ OnSaleIn(os)[i] = (IF o.sale THEN b ELSE 0)
    BY <1>5 DEF AdvancesIn, OnSaleIn
  <2>5. o.price * b \in Nat
    BY <1>1
  <2>6. /\ SumFunction(AdvancesIn(os1)) + AdvancesIn(os)[i] = SumFunction(AdvancesIn(os)) + AdvancesIn(os1)[i]
        /\ SumFunction(OnSaleIn(os1)) + OnSaleIn(os)[i] = SumFunction(OnSaleIn(os)) + OnSaleIn(os1)[i]
        /\ SumFunction(AdvancesIn(os1)) \in Nat /\ SumFunction(AdvancesIn(os)) \in Nat
        /\ SumFunction(OnSaleIn(os1)) \in Nat /\ SumFunction(OnSaleIn(os)) \in Nat
    BY <1>4, <2>2, OneOffer
  <2>7. /\ SumFunction(AdvancesIn(os1)) = SumFunction(AdvancesIn(os)) - (IF o.sale THEN 0 ELSE o.price * b)
        /\ SumFunction(OnSaleIn(os1)) = SumFunction(OnSaleIn(os)) - (IF o.sale THEN b ELSE 0)
    BY <2>3, <2>4, <2>5, <2>6
  <2>8. QED
    BY <1>4, <2>1, <2>2, <2>7
<1>6. CASE o.amount # b
  <2> DEFINE o1 == [o EXCEPT !.amount = o.amount - b]
  <2>1. os1[i] = o1 /\ o1 \in Offers /\ o1 # NoOffer
    <3>1. x = o1
      BY <1>1, <1>6 DEF Offers
    <3>2. o1 \in Offers
      BY <1>1 DEF Offers
    <3>3. QED
      BY <1>4, <3>1, <3>2, MarketAssumption
  <2>2. o1.owner = o.owner /\ o1.sale = o.sale /\ o1.price = o.price /\ o1.amount = o.amount - b
    BY <1>1 DEF Offers
  <2>3. b < o.amount
    BY <1>1, <1>6
  <2> HIDE DEF o1
  <2>4. os1 \in Tables
    BY <1>1, <1>4, <2>1, <2>2, <2>3 DEF Tables
  <2>5. o.price * (o.amount - b) = o.price * o.amount - o.price * b /\ o.price * o.amount \in Nat /\ o.price * b \in Nat
    BY <1>1, Partly
  <2>6. /\ AdvancesIn(os)[i] = (IF o.sale THEN 0 ELSE o.price * o.amount)
        /\ OnSaleIn(os)[i] = (IF o.sale THEN o.amount ELSE 0)
    BY DEF AdvancesIn, OnSaleIn
  <2>7. /\ AdvancesIn(os1)[i] = (IF o.sale THEN 0 ELSE o.price * (o.amount - b))
        /\ OnSaleIn(os1)[i] = (IF o.sale THEN o.amount - b ELSE 0)
    BY <2>1, <2>2 DEF AdvancesIn, OnSaleIn
  <2>8. /\ SumFunction(AdvancesIn(os1)) + AdvancesIn(os)[i] = SumFunction(AdvancesIn(os)) + AdvancesIn(os1)[i]
        /\ SumFunction(OnSaleIn(os1)) + OnSaleIn(os)[i] = SumFunction(OnSaleIn(os)) + OnSaleIn(os1)[i]
        /\ SumFunction(AdvancesIn(os1)) \in Nat /\ SumFunction(AdvancesIn(os)) \in Nat
        /\ SumFunction(OnSaleIn(os1)) \in Nat /\ SumFunction(OnSaleIn(os)) \in Nat
    BY <1>4, <2>4, OneOffer
  <2>9. SumFunction(AdvancesIn(os1)) = SumFunction(AdvancesIn(os)) - (IF o.sale THEN 0 ELSE o.price * b)
    BY <2>5, <2>6, <2>7, <2>8
  <2>10. SumFunction(OnSaleIn(os1)) = SumFunction(OnSaleIn(os)) - (IF o.sale THEN b ELSE 0)
    BY <1>1, <2>6, <2>7, <2>8
  <2>11. QED
    BY <1>4, <2>1, <2>2, <2>3, <2>4, <2>9, <2>10
<1>7. QED
  BY <1>5, <1>6

\* The rows of a pending expiry remain true of the table, or staleExpiry is recorded.
LEMMA ReducedOK ==
  ASSUME NEW os, NEW n, NEW sel, NEW ms, OffersOK(os, n, sel, ms), NEW i \in Ids, os[i] # NoOffer,
         sel \subseteq Rows, NEW b \in Nat, b <= os[i].amount, NEW os1, Reduced(os, i, b, os1),
         NEW ms1, ms \subseteq ms1,
         (\E r \in sel : r.id = i) /\ b < os[i].amount => "staleExpiry" \in ms1
  PROVE  OffersOK(os1, n, sel, ms1)
<1>1. os \in Tables /\ n \in 1..(MaxIds + 1)
  BY DEF OffersOK
<1>2. /\ os1 \in Tables
      /\ \A j \in Ids : j # i => os1[j] = os[j]
      /\ os1[i] # NoOffer => /\ os1[i].owner = os[i].owner /\ os1[i].sale = os[i].sale
                             /\ os1[i].price = os[i].price /\ os1[i].amount = os[i].amount - b
                             /\ b < os[i].amount
  BY <1>1, OfferReduced
<1>3. os[i].amount \in Nat
  BY <1>1 DEF Tables, Offers
<1>4. \A j \in Ids : j >= n => os1[j] = NoOffer
  <2>1. ~(i >= n)
    BY DEF OffersOK
  <2>2. QED
    BY <1>2, <2>1 DEF OffersOK
<1>5. ASSUME NEW r \in sel PROVE r.id < n /\ RowOf(r, os1, ms1)
  <2>1. r.id < n /\ RowOf(r, os, ms) /\ r.id \in Ids
    BY <1>5 DEF OffersOK, Rows
  <2>2. CASE r.id # i
    BY <1>2, <2>1, <2>2 DEF RowOf
  <2>3. CASE r.id = i
    <3>1. CASE os1[i] = NoOffer
      BY <2>1, <2>3, <3>1 DEF RowOf
    <3>2. CASE os1[i] # NoOffer
      <4>1. "staleExpiry" \in ms1
        BY <1>2, <2>3, <3>2
      <4>2. r.row.amount \in Nat
        BY DEF Rows, Offers
      <4>3. os1[i].amount <= r.row.amount
        BY <1>2, <1>3, <2>1, <2>3, <3>2, <4>2 DEF RowOf
      <4>4. QED
        BY <1>2, <2>1, <2>3, <3>2, <4>1, <4>3 DEF RowOf
    <3>3. QED
      BY <3>1, <3>2
  <2>4. QED
    BY <2>2, <2>3
<1>6. QED
  BY <1>1, <1>2, <1>4, <1>5 DEF OffersOK

\* The account of p gains n.
Gains(f, p, n, f1) ==
  f1 \in Accounts /\ f1[p] = f[p] + n /\ \A q \in Traders : q # p => f1[q] = f[q]

\* A refund goes to the owner.
LEMMA GivenBack ==
  ASSUME MarketTypes, NEW i \in Ids, offers[i] # NoOffer, GiveBack(offers[i], offers[i].amount)
  PROVE  /\ Gains(locker, offers[i].owner, IF offers[i].sale THEN offers[i].amount ELSE 0, locker')
         /\ Gains(bank, offers[i].owner,
                  IF offers[i].sale THEN 0 ELSE offers[i].price * offers[i].amount, bank')
<1> DEFINE o == offers[i]
<1>1. o \in Offers
  BY DEF MarketTypes, OffersOK, Tables
<1>2. o.amount \in Nat /\ o.owner \in Traders /\ o.price \in Prices /\ o.sale \in BOOLEAN
  BY <1>1 DEF Offers
<1>3. o.price * o.amount \in Nat
  BY <1>2, Priced
<1>4. bank \in [Traders -> Nat] /\ locker \in [Traders -> Nat]
  BY DEF MarketTypes, Accounts
<1>5. /\ locker' = [locker EXCEPT ![o.owner] = IF o.sale THEN @ + o.amount ELSE @]
      /\ bank' = [bank EXCEPT ![o.owner] = IF o.sale THEN @ ELSE @ + o.price * o.amount]
  BY DEF GiveBack
<1> HIDE DEF o
<1>6. Gains(locker, o.owner, IF o.sale THEN o.amount ELSE 0, locker')
  BY <1>2, <1>4, <1>5 DEF Gains, Accounts
<1> DEFINE n == o.price * o.amount
<1>7. Gains(bank, o.owner, IF o.sale THEN 0 ELSE n, bank')
  <2> HIDE DEF n
  <2>1. bank' = [bank EXCEPT ![o.owner] = IF o.sale THEN @ ELSE @ + n] /\ n \in Nat
    BY <1>3, <1>5 DEF n
  <2>2. QED
    BY <1>2, <1>4, <2>1 DEF Gains, Accounts
<1>8. QED
  BY <1>6, <1>7 DEF o

\* A cancelled offer goes back to its owner.
LEMMA CancelOfferInv ==
  ASSUME MarketTypes, NEW p \in Traders, NEW i \in Ids, CancelOffer(p, i)
  PROVE  MarketTypes' /\ Settled(Gold, Goods, Gold', Goods', mishaps, mishaps')
<1> DEFINE o == offers[i]
           wares == IF o.sale THEN o.amount ELSE 0
           gold == IF o.sale THEN 0 ELSE o.price * o.amount
<1>1. o # NoOffer /\ o.owner = p /\ GiveBack(o, o.amount)
  BY DEF CancelOffer, Open
<1>2. o \in Offers /\ OffersOK(offers, nextId, selected, mishaps) /\ offers \in Tables
  BY <1>1 DEF MarketTypes, OffersOK, Tables
<1>3. o.amount \in Nat /\ o.price \in Prices /\ o.sale \in BOOLEAN
  BY <1>2 DEF Offers
<1>4. wares \in Nat /\ gold \in Nat
  BY <1>3, Priced
<1>5. Gains(locker, p, wares, locker') /\ Gains(bank, p, gold, bank')
  BY <1>1, GivenBack
<1>6. /\ bank \in Accounts /\ coins \in Accounts /\ stash \in Accounts /\ locker \in Accounts
      /\ fees \in Nat /\ dropped \in Nat /\ selected \subseteq Rows
      /\ UNCHANGED <<inMarket, coins, stash, nextId, selected, fees, dropped>>
  BY DEF MarketTypes, CancelOffer
<1> HIDE DEF wares, gold
<1>7. bank' \in Accounts /\ bank'[p] = bank[p] + gold /\ \A q \in Traders : q # p => bank'[q] = bank[q]
  BY <1>5 DEF Gains
<1>8. locker' \in Accounts /\ locker'[p] = locker[p] + wares /\ \A q \in Traders : q # p => locker'[q] = locker[q]
  BY <1>5 DEF Gains
<1>9. SumFunction(Both(bank', coins')) = SumFunction(Both(bank, coins)) + gold
  <2>1. coins' \in Accounts /\ \A q \in Traders : q # p => bank'[q] = bank[q] /\ coins'[q] = coins[q]
    BY <1>6, <1>7
  <2>2. bank'[p] = bank[p] + gold /\ coins'[p] = coins[p]
    BY <1>6, <1>7
  <2>3. /\ SumFunction(Both(bank', coins')) + bank[p] + coins[p] = SumFunction(Both(bank, coins)) + bank'[p] + coins'[p]
        /\ SumFunction(Both(bank', coins')) \in Nat /\ SumFunction(Both(bank, coins)) \in Nat
        /\ bank[p] \in Nat /\ coins[p] \in Nat
    <3>1. bank \in Accounts /\ coins \in Accounts /\ bank' \in Accounts
      BY <1>6, <1>7
    <3>2. QED
      <4>1. ChangedAt(bank, coins, bank', coins', {p})
        BY <2>1, <3>1 DEF ChangedAt
      <4>2. SumAfter(bank, coins, bank', coins', p)
        BY <4>1, OneAccount
      <4>3. QED
        BY <4>2 DEF SumAfter
  <2>4. QED
    BY <1>4, <2>3, <2>2
<1>10. SumFunction(Both(stash', locker')) = SumFunction(Both(stash, locker)) + wares
  <2>1. stash' \in Accounts /\ \A q \in Traders : q # p => stash'[q] = stash[q] /\ locker'[q] = locker[q]
    BY <1>6, <1>8
  <2>2. locker'[p] = locker[p] + wares /\ stash'[p] = stash[p]
    BY <1>6, <1>8
  <2>3. /\ SumFunction(Both(stash', locker')) + stash[p] + locker[p] = SumFunction(Both(stash, locker)) + stash'[p] + locker'[p]
        /\ SumFunction(Both(stash', locker')) \in Nat /\ SumFunction(Both(stash, locker)) \in Nat
        /\ stash[p] \in Nat /\ locker[p] \in Nat
    <3>1. stash \in Accounts /\ locker \in Accounts /\ locker' \in Accounts
      BY <1>6, <1>8
    <3>2. QED
      <4>1. ChangedAt(stash, locker, stash', locker', {p})
        BY <2>1, <3>1 DEF ChangedAt
      <4>2. SumAfter(stash, locker, stash', locker', p)
        BY <4>1, OneAccount
      <4>3. QED
        BY <4>2 DEF SumAfter
  <2>4. QED
    BY <1>4, <2>3, <2>2
<1>11. /\ SumFunction(Both(stash, locker)) \in Nat /\ SumFunction(Both(bank, coins)) \in Nat
       /\ SumFunction(AdvancesIn(offers)) \in Nat /\ SumFunction(OnSaleIn(offers)) \in Nat
  BY <1>2, <1>6, SumsType
<1>12. Gold \in Nat /\ Goods \in Nat
  BY MarketSums
<1>13. CASE offers' = [offers EXCEPT ![i] = NoOffer] /\ mishaps' = mishaps
  <2>1. Reduced(offers, i, o.amount, offers')
    BY <1>13 DEF Reduced
  <2>2. OffersOK(offers', nextId, selected, mishaps')
    <3>1. ~(o.amount < o.amount)
      BY <1>3
    <3>2. QED
      BY <1>1, <1>2, <1>3, <1>6, <1>13, <2>1, <3>1, ReducedOK
  <2>3. /\ SumFunction(AdvancesIn(offers')) = SumFunction(AdvancesIn(offers)) - gold
        /\ SumFunction(OnSaleIn(offers')) = SumFunction(OnSaleIn(offers)) - wares
    BY <1>1, <1>2, <1>3, <2>1, OfferReduced DEF gold, wares
  <2>4. Gold' = Gold
    BY <1>4, <1>6, <1>9, <1>11, <2>3, GoldIs DEF GoldIn
  <2>5. Goods' = Goods
    BY <1>4, <1>6, <1>10, <1>11, <2>3, GoldIs DEF GoodsIn
  <2>6. MarketTypes'
    BY <1>6, <1>7, <1>8, <2>2 DEF MarketTypes
  <2>7. QED
    BY <1>12, <1>13, <2>4, <2>5, <2>6 DEF Settled
<1>14. CASE mishaps = {} /\ offers' = offers /\ mishaps' = {"failedDelete"}
  <2>1. OffersOK(offers', nextId, selected, mishaps')
    BY <1>2, <1>14, MoreMishaps
  <2>2. Gold' = Gold + gold
    BY <1>4, <1>6, <1>9, <1>11, <1>14, GoldIs DEF GoldIn
  <2>3. Goods' = Goods + wares
    BY <1>4, <1>6, <1>10, <1>11, <1>14, GoldIs DEF GoodsIn
  <2>4. Gold' >= Gold /\ Goods' >= Goods
    BY <1>4, <1>12, <2>2, <2>3
  <2>5. MarketTypes'
    BY <1>6, <1>7, <1>8, <2>1 DEF MarketTypes
  <2>6. QED
    BY <1>14, <2>4, <2>5 DEF Settled
<1>15. QED
  BY <1>13, <1>14 DEF CancelOffer, Execute, MayFail

\* UpdateOffer after b of the offer i were accepted.
LEMMA OfferUpdated ==
  ASSUME MarketTypes, NEW i \in Ids, offers[i] # NoOffer, NEW b \in Nat, b <= offers[i].amount,
         UpdateOffer(i, b)
  PROVE  /\ OffersOK(offers', nextId', selected', mishaps')
         /\ UNCHANGED <<inMarket, nextId, selected, fees>>
         /\ mishaps \subseteq mishaps'
         /\ \/ /\ SumFunction(AdvancesIn(offers')) = SumFunction(AdvancesIn(offers))
                    - (IF offers[i].sale THEN 0 ELSE offers[i].price * b)
               /\ SumFunction(OnSaleIn(offers')) = SumFunction(OnSaleIn(offers))
                    - (IF offers[i].sale THEN b ELSE 0)
            \/ offers' = offers /\ mishaps' = {"failedDelete"}
<1>1. OffersOK(offers, nextId, selected, mishaps) /\ offers \in Tables /\ selected \subseteq Rows
  BY DEF MarketTypes, OffersOK
<1>2. UNCHANGED <<inMarket, nextId, selected, fees>>
  BY DEF UpdateOffer
<1>3. CASE offers' = Accepted(i, b) /\ mishaps' = mishaps \cup (IF StaleExpiry(i, b) THEN {"staleExpiry"} ELSE {})
  <2>1. Reduced(offers, i, b, offers')
    BY <1>3 DEF Accepted, Reduced
  <2>2. mishaps \subseteq mishaps'
    BY <1>3
  <2>3. (\E r \in selected : r.id = i) /\ b < offers[i].amount => "staleExpiry" \in mishaps'
    BY <1>3 DEF StaleExpiry
  <2>4. OffersOK(offers', nextId, selected, mishaps')
    BY <1>1, <2>1, <2>2, <2>3, ReducedOK
  <2>5. /\ SumFunction(AdvancesIn(offers')) = SumFunction(AdvancesIn(offers))
             - (IF offers[i].sale THEN 0 ELSE offers[i].price * b)
        /\ SumFunction(OnSaleIn(offers')) = SumFunction(OnSaleIn(offers)) - (IF offers[i].sale THEN b ELSE 0)
    BY <1>1, <2>1, OfferReduced
  <2>6. QED
    BY <1>2, <2>2, <2>4, <2>5
<1>4. CASE mishaps = {} /\ offers' = offers /\ mishaps' = {"failedDelete"}
  <2>1. OffersOK(offers', nextId, selected, mishaps')
    BY <1>1, <1>4, MoreMishaps
  <2>2. QED
    BY <1>2, <1>4, <2>1
<1>5. QED
  BY <1>3, <1>4 DEF UpdateOffer, MayFail

\* The guards of playerAcceptMarketOffer, and what they say of the offer.
LEMMA AcceptedOffer ==
  ASSUME MarketTypes, NEW p \in Traders, NEW i \in Ids, NEW a \in Amounts, CanAcceptOffer(p, i, a)
  PROVE  /\ offers[i] # NoOffer /\ a \in Nat /\ a <= offers[i].amount
         /\ offers[i].owner \in Traders /\ offers[i].owner # p /\ offers[i].sale \in BOOLEAN
         /\ offers[i].price * a \in Nat
<1>1. offers[i] # NoOffer /\ a <= offers[i].amount /\ offers[i].owner # p
  BY DEF CanAcceptOffer, Open
<1>2. offers[i] \in Offers
  BY <1>1 DEF MarketTypes, OffersOK, Tables
<1>3. offers[i].owner \in Traders /\ offers[i].price \in Prices /\ offers[i].sale \in BOOLEAN
  BY <1>2 DEF Offers
<1>4. a \in Nat
  BY MarketAssumption
<1>5. offers[i].price * a \in Nat
  BY <1>3, <1>4, Priced
<1>6. QED
  BY <1>1, <1>3, <1>4, <1>5

\* A sale to a buy offer.
LEMMA SellToInv ==
  ASSUME MarketTypes, NEW p \in Traders, NEW i \in Ids, NEW a \in Amounts, SellToOffer(p, i, a)
  PROVE  MarketTypes' /\ Settled(Gold, Goods, Gold', Goods', mishaps, mishaps')
<1> DEFINE o == offers[i].owner
           sum == offers[i].price * a
           taken == [locker EXCEPT ![p] = Larger(0, @ - Larger(0, a - stash[p]))]
<1>1. /\ offers[i] # NoOffer /\ a \in Nat /\ a <= offers[i].amount
      /\ o \in Traders /\ o # p /\ sum \in Nat
  BY AcceptedOffer DEF SellToOffer
<1>2. ~offers[i].sale /\ coins' = coins
  BY DEF SellToOffer
<1>3. /\ bank \in Accounts /\ coins \in Accounts /\ stash \in Accounts /\ locker \in Accounts
      /\ fees \in Nat /\ dropped \in Nat /\ offers \in Tables
  BY DEF MarketTypes, OffersOK
<1>4. Takes(stash, locker, p, a, stash', taken)
  BY DEF SellToOffer, Takes
<1>5. \/ /\ Wares(p) >= a /\ bank' = [bank EXCEPT ![p] = @ + sum]
         /\ locker' = [taken EXCEPT ![o] = @ + a] /\ UpdateOffer(i, a) /\ dropped' = dropped
      \/ /\ Wares(p) < a /\ locker' = taken /\ dropped' = dropped + Wares(p)
         /\ UNCHANGED <<inMarket, bank, offers, nextId, selected, fees, mishaps>>
  BY DEF SellToOffer
<1> HIDE DEF taken, sum, o
<1>6. /\ stash' \in Accounts /\ taken \in Accounts
      /\ \A q \in Traders : q # p => stash'[q] = stash[q] /\ taken[q] = locker[q]
      /\ stash'[p] \in Nat /\ taken[p] \in Nat /\ stash[p] \in Nat /\ locker[p] \in Nat
      /\ a <= stash[p] + locker[p] => stash'[p] + taken[p] = stash[p] + locker[p] - a
      /\ a >= stash[p] + locker[p] => stash'[p] + taken[p] = 0
  BY <1>1, <1>3, <1>4, TakenFrom
<1>7. /\ SumFunction(Both(stash, locker)) \in Nat /\ SumFunction(Both(bank, coins)) \in Nat
      /\ SumFunction(AdvancesIn(offers)) \in Nat /\ SumFunction(OnSaleIn(offers)) \in Nat
  BY <1>3, SumsType
<1>8. Gold \in Nat /\ Goods \in Nat
  BY MarketSums
<1>9. CASE /\ Wares(p) >= a /\ bank' = [bank EXCEPT ![p] = @ + sum]
           /\ locker' = [taken EXCEPT ![o] = @ + a] /\ UpdateOffer(i, a) /\ dropped' = dropped
  <2>1. /\ locker' \in Accounts /\ locker'[p] = taken[p] /\ locker'[o] = locker[o] + a
        /\ \A q \in Traders : q # p /\ q # o => stash'[q] = stash[q] /\ locker'[q] = locker[q]
    BY <1>1, <1>6, <1>9 DEF Accounts
  <2>2. stash'[p] + locker'[p] = stash[p] + locker[p] - a /\ stash'[o] = stash[o]
    <3>1. a <= stash[p] + locker[p]
      BY <1>1, <1>6, <1>9 DEF Wares
    <3>2. QED
      BY <1>1, <1>6, <2>1, <3>1
  <2>3. SumFunction(Both(stash', locker')) = SumFunction(Both(stash, locker))
    <3>1. /\ SumFunction(Both(stash', locker')) + stash[p] + locker[p] + stash[o] + locker[o]
               = SumFunction(Both(stash, locker)) + stash'[p] + locker'[p] + stash'[o] + locker'[o]
          /\ SumFunction(Both(stash', locker')) \in Nat
          /\ stash[o] \in Nat /\ locker[o] \in Nat /\ locker'[p] \in Nat
      <4>1. ChangedAt(stash, locker, stash', locker', {p, o})
        BY <1>1, <1>3, <1>6, <2>1 DEF ChangedAt
      <4>2. SumAfterTwo(stash, locker, stash', locker', p, o)
        BY <4>1, <1>1, TwoAccounts
      <4>3. QED
        BY <4>2 DEF SumAfterTwo
    <3>2. locker'[o] = locker[o] + a
      BY <2>1
    <3>3. QED
      BY <1>1, <1>6, <1>7, <2>2, <3>1, <3>2
  <2>4. bank' \in Accounts /\ bank'[p] = bank[p] + sum /\ bank[p] \in Nat /\ coins[p] \in Nat
    BY <1>1, <1>3, <1>9 DEF Accounts
  <2>5. \A q \in Traders : q # p => bank'[q] = bank[q] /\ coins'[q] = coins[q]
    BY <1>2, <1>3, <1>9 DEF Accounts
  <2>6. SumFunction(Both(bank', coins')) = SumFunction(Both(bank, coins)) + sum
    <3>1. coins' \in Accounts /\ coins'[p] = coins[p]
      BY <1>2, <1>3
    <3>2. /\ SumFunction(Both(bank', coins')) + bank[p] + coins[p] = SumFunction(Both(bank, coins)) + bank'[p] + coins'[p]
          /\ SumFunction(Both(bank', coins')) \in Nat
      <4>1. ChangedAt(bank, coins, bank', coins', {p})
        BY <1>3, <2>4, <2>5, <3>1 DEF ChangedAt
      <4>2. SumAfter(bank, coins, bank', coins', p)
        BY <4>1, OneAccount
      <4>3. QED
        BY <4>2 DEF SumAfter
    <3>3. QED
      BY <1>1, <1>7, <2>4, <3>1, <3>2
  <2>7. /\ OffersOK(offers', nextId', selected', mishaps')
        /\ UNCHANGED <<inMarket, nextId, selected, fees>>
        /\ mishaps \subseteq mishaps'
        /\ \/ /\ SumFunction(AdvancesIn(offers')) = SumFunction(AdvancesIn(offers)) - sum
              /\ SumFunction(OnSaleIn(offers')) = SumFunction(OnSaleIn(offers)) - 0
           \/ offers' = offers /\ mishaps' = {"failedDelete"}
    BY <1>1, <1>2, <1>9, OfferUpdated DEF sum
  <2>8. MarketTypes'
    BY <1>2, <1>3, <1>6, <1>9, <2>1, <2>4, <2>7 DEF MarketTypes
  <2>9. CASE /\ SumFunction(AdvancesIn(offers')) = SumFunction(AdvancesIn(offers)) - sum
             /\ SumFunction(OnSaleIn(offers')) = SumFunction(OnSaleIn(offers)) - 0
    <3>1. Gold' = Gold
      BY <1>1, <1>3, <1>7, <2>6, <2>7, <2>9, GoldIs DEF GoldIn
    <3>2. Goods' = Goods
      BY <1>3, <1>7, <1>9, <2>3, <2>9, GoldIs DEF GoodsIn
    <3>3. QED
      BY <1>8, <2>7, <2>8, <3>1, <3>2 DEF Settled
  <2>10. CASE offers' = offers /\ mishaps' = {"failedDelete"}
    <3>1. Gold' = Gold + sum
      BY <1>1, <1>3, <1>7, <2>6, <2>7, <2>10, GoldIs DEF GoldIn
    <3>2. Goods' = Goods
      BY <1>3, <1>7, <1>9, <2>3, <2>10, GoldIs DEF GoodsIn
    <3>3. Gold' >= Gold /\ Goods' >= Goods
      BY <1>1, <1>8, <3>1, <3>2
    <3>4. QED
      BY <2>7, <2>8, <2>10, <3>3 DEF Settled
  <2>11. QED
    BY <2>7, <2>9, <2>10
<1>10. CASE /\ Wares(p) < a /\ locker' = taken /\ dropped' = dropped + Wares(p)
            /\ UNCHANGED <<inMarket, bank, offers, nextId, selected, fees, mishaps>>
  <2>1. stash'[p] + locker'[p] = 0 /\ Wares(p) = stash[p] + locker[p]
    BY <1>1, <1>6, <1>10 DEF Wares
  <2>2. locker' \in Accounts /\ \A q \in Traders : q # p => stash'[q] = stash[q] /\ locker'[q] = locker[q]
    BY <1>6, <1>10
  <2>3. SumFunction(Both(stash', locker')) + stash[p] + locker[p] = SumFunction(Both(stash, locker))
    <3>1. /\ SumFunction(Both(stash', locker')) + stash[p] + locker[p] = SumFunction(Both(stash, locker)) + stash'[p] + locker'[p]
          /\ SumFunction(Both(stash', locker')) \in Nat /\ locker'[p] \in Nat
      <4>1. ChangedAt(stash, locker, stash', locker', {p})
        BY <1>3, <1>6, <2>2 DEF ChangedAt
      <4>2. SumAfter(stash, locker, stash', locker', p)
        BY <4>1, OneAccount
      <4>3. QED
        BY <4>2 DEF SumAfter
    <3>2. QED
      BY <1>6, <1>7, <2>1, <3>1
  <2>4. SumFunction(Both(stash', locker')) \in Nat
    BY <1>3, <1>6, <2>2, SumsType
  <2>5. Goods' = Goods
    BY <1>3, <1>6, <1>7, <1>10, <2>1, <2>3, <2>4, GoldIs DEF GoodsIn
  <2>6. Gold' = Gold
    BY <1>2, <1>10, GoldIs
  <2>7. dropped' \in Nat
    BY <1>3, <1>6, <1>10, <2>1
  <2>8. MarketTypes'
    BY <1>2, <1>3, <1>6, <1>10, <2>2, <2>7 DEF MarketTypes
  <2>9. QED
    BY <1>8, <1>10, <2>5, <2>6, <2>8 DEF Settled
<1>11. QED
  BY <1>5, <1>9, <1>10

\* A purchase from a sell offer.
LEMMA BuyFromInv ==
  ASSUME MarketTypes, NEW p \in Traders, NEW i \in Ids, NEW a \in Amounts, BuyFromOffer(p, i, a)
  PROVE  MarketTypes' /\ Settled(Gold, Goods, Gold', Goods', mishaps, mishaps')
<1> DEFINE o == offers[i].owner
           sum == offers[i].price * a
           paid == [bank EXCEPT ![p] = Larger(0, @ - sum)]
<1>1. /\ offers[i] # NoOffer /\ a \in Nat /\ a <= offers[i].amount
      /\ o \in Traders /\ o # p /\ sum \in Nat
  BY AcceptedOffer DEF BuyFromOffer
<1>2. offers[i].sale /\ stash' = stash /\ dropped' = dropped /\ UpdateOffer(i, a)
  BY DEF BuyFromOffer
<1>3. /\ bank \in Accounts /\ coins \in Accounts /\ stash \in Accounts /\ locker \in Accounts
      /\ fees \in Nat /\ dropped \in Nat /\ offers \in Tables
  BY DEF MarketTypes, OffersOK
<1>4. Takes(bank, coins, p, sum, paid, coins') /\ sum <= bank[p] + coins[p]
  BY DEF BuyFromOffer, Takes, Funds
<1>5. bank' = [bank EXCEPT ![p] = Larger(0, @ - sum), ![o] = @ + sum] /\ locker' = [locker EXCEPT ![p] = @ + a]
  BY DEF BuyFromOffer
<1> HIDE DEF paid, sum, o
<1>7. /\ paid \in Accounts /\ coins' \in Accounts
      /\ \A q \in Traders : q # p => paid[q] = bank[q] /\ coins'[q] = coins[q]
      /\ paid[p] \in Nat /\ coins'[p] \in Nat /\ bank[p] \in Nat /\ coins[p] \in Nat
      /\ paid[p] + coins'[p] = bank[p] + coins[p] - sum
  BY <1>1, <1>3, <1>4, TakenFrom
<1>8. /\ SumFunction(Both(stash, locker)) \in Nat /\ SumFunction(Both(bank, coins)) \in Nat
      /\ SumFunction(AdvancesIn(offers)) \in Nat /\ SumFunction(OnSaleIn(offers)) \in Nat
  BY <1>3, SumsType
<1>9. Gold \in Nat /\ Goods \in Nat
  BY MarketSums
<1>10. /\ bank' \in Accounts /\ bank'[p] = paid[p] /\ bank'[o] = bank[o] + sum
       /\ \A q \in Traders : q # p /\ q # o => bank'[q] = bank[q] /\ coins'[q] = coins[q]
  <2>1. paid[p] = Larger(0, bank[p] - sum)
    BY <1>3 DEF paid, Accounts
  <2>2. bank' = [bank EXCEPT ![p] = paid[p], ![o] = bank[o] + sum]
    BY <1>1, <1>3, <1>5, <2>1 DEF Accounts
  <2>3. QED
    BY <1>1, <1>3, <1>7, <2>2 DEF Accounts
<1>11. SumFunction(Both(bank', coins')) = SumFunction(Both(bank, coins))
  <2>1. /\ SumFunction(Both(bank', coins')) + bank[p] + coins[p] + bank[o] + coins[o]
             = SumFunction(Both(bank, coins)) + bank'[p] + coins'[p] + bank'[o] + coins'[o]
        /\ SumFunction(Both(bank', coins')) \in Nat /\ bank[o] \in Nat /\ coins[o] \in Nat
    <3>1. ChangedAt(bank, coins, bank', coins', {p, o})
      BY <1>1, <1>3, <1>7, <1>10 DEF ChangedAt
    <3>2. SumAfterTwo(bank, coins, bank', coins', p, o)
      BY <3>1, <1>1, TwoAccounts
    <3>3. QED
      BY <3>2 DEF SumAfterTwo
  <2>2. bank'[p] = paid[p] /\ bank'[o] = bank[o] + sum /\ coins'[o] = coins[o]
    BY <1>1, <1>7, <1>10
  <2>3. paid[p] + coins'[p] = bank[p] + coins[p] - sum /\ paid[p] \in Nat /\ coins'[p] \in Nat
        /\ bank[p] \in Nat /\ coins[p] \in Nat
    BY <1>7
  <2> DEFINE s0 == SumFunction(Both(bank, coins))
             s1 == SumFunction(Both(bank', coins'))
  <2>4. s0 \in Nat /\ s1 \in Nat /\ sum \in Nat
    BY <1>1, <1>8, <2>1
  <2>5. s1 + bank[p] + coins[p] + bank[o] + coins[o] = s0 + paid[p] + coins'[p] + (bank[o] + sum) + coins[o]
    BY <2>1, <2>2
  <2>6. bank[o] \in Nat /\ coins[o] \in Nat
    BY <2>1
  <2> HIDE DEF s0, s1
  <2>7. s1 = s0
    BY <2>3, <2>4, <2>5, <2>6
  <2>8. QED
    BY <2>7 DEF s0, s1
<1>12. /\ locker' \in Accounts /\ locker'[p] = locker[p] + a /\ locker[p] \in Nat /\ stash[p] \in Nat
       /\ stash' \in Accounts /\ stash'[p] = stash[p]
  BY <1>1, <1>2, <1>3, <1>5 DEF Accounts
<1>13. \A q \in Traders : q # p => stash'[q] = stash[q] /\ locker'[q] = locker[q]
  BY <1>2, <1>3, <1>5 DEF Accounts
<1>14. SumFunction(Both(stash', locker')) = SumFunction(Both(stash, locker)) + a
  <2>1. /\ SumFunction(Both(stash', locker')) + stash[p] + locker[p] = SumFunction(Both(stash, locker)) + stash'[p] + locker'[p]
        /\ SumFunction(Both(stash', locker')) \in Nat
    <3>1. ChangedAt(stash, locker, stash', locker', {p})
      BY <1>3, <1>12, <1>13 DEF ChangedAt
    <3>2. SumAfter(stash, locker, stash', locker', p)
      BY <3>1, OneAccount
    <3>3. QED
      BY <3>2 DEF SumAfter
  <2> DEFINE s0 == SumFunction(Both(stash, locker))
             s1 == SumFunction(Both(stash', locker'))
  <2>2. s1 + stash[p] + locker[p] = s0 + stash[p] + (locker[p] + a) /\ s0 \in Nat /\ s1 \in Nat
    BY <1>8, <1>12, <2>1
  <2>3. stash[p] \in Nat /\ locker[p] \in Nat /\ a \in Nat
    BY <1>1, <1>12
  <2> HIDE DEF s0, s1
  <2>4. s1 = s0 + a
    BY <2>2, <2>3
  <2>5. QED
    BY <2>4 DEF s0, s1
<1>15. /\ OffersOK(offers', nextId', selected', mishaps')
       /\ UNCHANGED <<inMarket, nextId, selected, fees>>
       /\ mishaps \subseteq mishaps'
       /\ \/ /\ SumFunction(AdvancesIn(offers')) = SumFunction(AdvancesIn(offers)) - 0
             /\ SumFunction(OnSaleIn(offers')) = SumFunction(OnSaleIn(offers)) - a
          \/ offers' = offers /\ mishaps' = {"failedDelete"}
  BY <1>1, <1>2, OfferUpdated
<1>16. MarketTypes'
  BY <1>2, <1>3, <1>7, <1>10, <1>12, <1>15 DEF MarketTypes
<1>17. CASE /\ SumFunction(AdvancesIn(offers')) = SumFunction(AdvancesIn(offers)) - 0
            /\ SumFunction(OnSaleIn(offers')) = SumFunction(OnSaleIn(offers)) - a
  <2>1. Gold' = Gold
    BY <1>3, <1>8, <1>11, <1>15, <1>17, GoldIs DEF GoldIn
  <2>2. Goods' = Goods
    BY <1>1, <1>2, <1>3, <1>8, <1>14, <1>17, GoldIs DEF GoodsIn
  <2>3. QED
    BY <1>9, <1>15, <1>16, <2>1, <2>2 DEF Settled
<1>18. CASE offers' = offers /\ mishaps' = {"failedDelete"}
  <2>1. Gold' = Gold
    BY <1>3, <1>8, <1>11, <1>15, <1>18, GoldIs DEF GoldIn
  <2>2. Goods' = Goods + a
    BY <1>1, <1>2, <1>3, <1>8, <1>14, <1>18, GoldIs DEF GoodsIn
  <2>3. Gold' >= Gold /\ Goods' >= Goods
    BY <1>1, <1>9, <2>1, <2>2
  <2>4. QED
    BY <1>15, <1>16, <1>18, <2>3 DEF Settled
<1>19. QED
  BY <1>15, <1>17, <1>18

\* Rows go back to their owners (b becomes b1) and off the table (v becomes v1): as much
\* comes back as the rows say, which is what the table had unless it had less.
Refund(rows, own, a, b, b1, v, v1) ==
  /\ IsFiniteSet(rows) /\ rows \subseteq Rows /\ \A r, t \in rows : r.id = t.id => r = t
  /\ own \in [rows -> Traders] /\ a \in [rows -> Nat]
  /\ b \in [Traders -> Nat] /\ b1 \in [Traders -> Nat]
  /\ \A p \in Traders : b1[p] = b[p] + SumFunction(Share(rows, own, a, p))
  /\ v \in [Ids -> Nat] /\ v1 \in [Ids -> Nat]
  /\ \A i \in Ids : v1[i] = IF \E r \in rows : r.id = i THEN 0 ELSE v[i]
  /\ \A r \in rows : v[r.id] <= a[r]

\* What the owners gain is at least what the table loses, and the same if the rows
\* are true.
LEMMA RefundSum ==
  ASSUME NEW rows, NEW own, NEW a, NEW b, NEW b1, NEW v, NEW v1, Refund(rows, own, a, b, b1, v, v1)
  PROVE  /\ SumFunction(b1) + SumFunction(v1) >= SumFunction(b) + SumFunction(v)
         /\ (\A r \in rows : v[r.id] = a[r]) =>
              SumFunction(b1) + SumFunction(v1) = SumFunction(b) + SumFunction(v)
<1> USE DEF Refund
<1>1. IsFiniteSet(Traders) /\ IsFiniteSet(Ids)
  <2>1. IsFiniteSet(Traders) /\ MaxIds \in Int
    BY MarketAssumption
  <2>2. QED
    BY <2>1, FS_Interval DEF Ids
<1> DEFINE back == [p \in Traders |-> SumFunction(Share(rows, own, a, p))]
<1>2. back \in [Traders -> Nat] /\ SumFunction(back) = SumFunction(a)
  <2>1. back = [p \in Traders |-> SumFunction(Share(rows, own, a, p))]
    OBVIOUS
  <2> HIDE DEF back
  <2>2. QED
    BY <1>1, <2>1, SumGroup
<1>3. SumFunction(b1) = SumFunction(b) + SumFunction(a)
  <2>1. \A p \in Traders : b1[p] = b[p] + back[p]
    OBVIOUS
  <2> HIDE DEF back
  <2>2. SumFunction(b1) = SumFunction(b) + SumFunction(back)
    BY <1>1, <1>2, <2>1, SumAdd
  <2>3. QED
    BY <1>2, <2>2
<1> DEFINE id == [r \in rows |-> r.id]
           d == [r \in rows |-> v[r.id]]
           c == [i \in Ids |-> SumFunction(Share(rows, id, d, i))]
<1>4. id \in [rows -> Ids] /\ d \in [rows -> Nat]
  BY DEF Rows
<1>5. c \in [Ids -> Nat] /\ SumFunction(c) = SumFunction(d)
  <2>1. c = [i \in Ids |-> SumFunction(Share(rows, id, d, i))]
    OBVIOUS
  <2> HIDE DEF c, id, d
  <2>2. QED
    BY <1>1, <1>4, <2>1, SumGroup
<1>6. ASSUME NEW i \in Ids PROVE v[i] = v1[i] + c[i]
  <2> DEFINE f == Share(rows, id, d, i)
  <2>1. f \in [rows -> Nat] /\ \A r \in rows : f[r] = IF r.id = i THEN v[r.id] ELSE 0
    BY <1>4 DEF Share
  <2>2. c[i] = SumFunction(f)
    OBVIOUS
  <2> HIDE DEF f, c
  <2>3. CASE \E r \in rows : r.id = i
    <3>1. PICK r \in rows : r.id = i
      BY <2>3
    <3>2. \A t \in rows : t # r => f[t] = 0
      BY <2>1, <3>1
    <3>3. SumFunction(f) = f[r]
      BY <2>1, <3>2, SumSingle
    <3>4. f[r] = v[i] /\ v1[i] = 0 /\ v[i] \in Nat
      BY <2>1, <3>1
    <3>5. QED
      BY <2>2, <3>3, <3>4
  <2>4. CASE ~ \E r \in rows : r.id = i
    <3>1. \A r \in rows : f[r] = 0
      BY <2>1, <2>4
    <3>2. SumFunction(f) = 0
      BY <2>1, <3>1, SumZero
    <3>3. v1[i] = v[i] /\ v[i] \in Nat
      BY <2>4
    <3>4. QED
      BY <2>2, <3>2, <3>3
  <2>5. QED
    BY <2>3, <2>4
<1> HIDE DEF c
<1>7. SumFunction(v) = SumFunction(v1) + SumFunction(d)
  <2>1. SumFunction(v) = SumFunction(v1) + SumFunction(c)
    BY <1>1, <1>5, <1>6, SumAdd
  <2>2. QED
    BY <1>5, <2>1
<1>8. SumFunction(d) <= SumFunction(a)
  <2>1. \A r \in rows : d[r] <= a[r]
    OBVIOUS
  <2> HIDE DEF d
  <2>2. QED
    BY <1>4, <2>1, SumAtMost
<1>9. ASSUME \A r \in rows : v[r.id] = a[r] PROVE SumFunction(d) = SumFunction(a)
  <2>1. d = a
    BY <1>9
  <2>2. QED
    BY <2>1
<1> HIDE DEF d
<1>10. /\ SumFunction(d) \in Nat /\ SumFunction(a) \in Nat /\ SumFunction(v1) \in Nat
       /\ SumFunction(b) \in Nat
  BY <1>1, <1>4, SumIsCount
<1>11. SumFunction(b1) + SumFunction(v1) >= SumFunction(b) + SumFunction(v)
  BY <1>3, <1>7, <1>8, <1>10
<1>12. SumFunction(d) = SumFunction(a) => SumFunction(b1) + SumFunction(v1) = SumFunction(b) + SumFunction(v)
  BY <1>3, <1>7, <1>10
<1>13. QED
  BY <1>9, <1>11, <1>12

\* Entering and leaving the market moves nothing.
LEMMA EnterLeaveInv ==
  ASSUME MarketTypes, NEW p \in Traders, EnterMarket(p) \/ LeaveMarket(p)
  PROVE  MarketTypes' /\ Settled(Gold, Goods, Gold', Goods', mishaps, mishaps')
<1>1. UNCHANGED <<holdings, offers, nextId, selected, fees, dropped, mishaps>> /\ inMarket' \subseteq Traders
  BY DEF EnterMarket, LeaveMarket, MarketTypes
<1>2. MarketTypes'
  BY <1>1 DEF MarketTypes, holdings
<1>3. QED
  BY <1>1, <1>2, QuietSettled

\* The SELECT of an expiry reads the table.
LEMMA CheckExpiredInv ==
  ASSUME MarketTypes, NEW last \in Ids, CheckExpiredOffers(last)
  PROVE  MarketTypes' /\ Settled(Gold, Goods, Gold', Goods', mishaps, mishaps')
<1> DEFINE old == Open \cap 1..last
<1>1. /\ UNCHANGED <<inMarket, holdings, offers, nextId, fees, dropped, mishaps>>
      /\ selected' = {[id |-> i, row |-> offers[i]] : i \in old}
  BY DEF CheckExpiredOffers
<1>2. IsFiniteSet(selected')
  <2>1. MaxIds \in Int
    BY MarketAssumption
  <2>2. IsFiniteSet(Ids) /\ old \in SUBSET Ids
    BY <2>1, FS_Interval DEF Ids, Open
  <2>3. IsFiniteSet(old)
    BY <2>2, FS_Subset
  <2> DEFINE f == [i \in old |-> [id |-> i, row |-> offers[i]]]
  <2>4. f \in Surjection(old, selected')
    BY <1>1 DEF Surjection
  <2> HIDE DEF f
  <2>5. QED
    BY <2>3, <2>4, FS_Surjection
<1>3. ASSUME NEW r \in selected'
      PROVE  r.id \in Ids /\ offers[r.id] # NoOffer /\ r = [id |-> r.id, row |-> offers[r.id]]
  BY <1>1, <1>3 DEF Open
<1>4. OffersOK(offers, nextId, selected, mishaps) /\ offers \in Tables
  BY DEF MarketTypes, OffersOK
<1>5. ASSUME NEW r \in selected'
      PROVE  r \in Rows /\ r.id < nextId /\ RowOf(r, offers, mishaps)
  <2>1. r.id \in Ids /\ offers[r.id] # NoOffer /\ r = [id |-> r.id, row |-> offers[r.id]]
    BY <1>3
  <2>2. r.row = offers[r.id] /\ offers[r.id] \in Offers
    BY <1>4, <2>1 DEF Tables
  <2>3. offers[r.id].amount \in Nat
    BY <2>2 DEF Offers
  <2>4. RowOf(r, offers, mishaps)
    BY <2>2, <2>3 DEF RowOf
  <2>5. ~(r.id >= nextId)
    BY <1>4, <2>1 DEF OffersOK
  <2>6. nextId \in Int /\ r.id \in Int
    BY <1>4, <2>1 DEF OffersOK, Ids
  <2>7. r \in Rows
    BY <2>1, <2>2 DEF Rows
  <2>8. QED
    BY <2>4, <2>5, <2>6, <2>7
<1>6. \A r, t \in selected' : r.id = t.id => r = t
  BY <1>3
<1>7. OffersOK(offers', nextId', selected', mishaps')
  BY <1>1, <1>4, <1>5 DEF OffersOK
<1>8. MarketTypes'
  <2>1. selected' \subseteq Rows
    BY <1>5
  <2>2. QED
    BY <1>1, <1>2, <1>6, <1>7, <2>1 DEF MarketTypes, holdings
<1>9. QED
  BY <1>1, <1>8, QuietSettled

\* The table without these rows.
Without(os, rows) == [i \in Ids |-> IF \E r \in rows : r.id = i THEN NoOffer ELSE os[i]]

\* DELETE leaves the table in order.
LEMMA WithoutOK ==
  ASSUME NEW os, NEW n, NEW sel, NEW ms, OffersOK(os, n, sel, ms), NEW rows
  PROVE  OffersOK(Without(os, rows), n, {}, ms)
BY DEF OffersOK, Without, Tables

\* An expiry gives back what its rows say.
LEMMA ProcessInv ==
  ASSUME MarketTypes, ProcessExpiredOffers
  PROVE  MarketTypes' /\ Settled(Gold, Goods, Gold', Goods', mishaps, mishaps')
<1>1. PICK failed \in IF MayFail THEN SUBSET selected ELSE {{}} :
        LET done == {r \in selected \ failed : Refunded(r)} IN
        /\ offers' = [i \in Ids |-> IF \E r \in done : r.id = i THEN NoOffer ELSE offers[i]]
        /\ locker' = [p \in Traders |-> locker[p] + WaresBack(p, done)]
        /\ bank' = [p \in Traders |-> bank[p] + GoldBack(p, done)]
  BY DEF ProcessExpiredOffers
<1>2. PICK rows : rows = {r \in selected \ failed : Refunded(r)}
  OBVIOUS
<1>3. /\ offers' = Without(offers, rows)
      /\ locker' = [p \in Traders |-> locker[p] + WaresBack(p, rows)]
      /\ bank' = [p \in Traders |-> bank[p] + GoldBack(p, rows)]
  BY <1>1, <1>2 DEF Without
<1>4. UNCHANGED <<inMarket, coins, stash, nextId, fees, dropped, mishaps>> /\ selected' = {}
  BY DEF ProcessExpiredOffers
<1>5. /\ bank \in Accounts /\ coins \in Accounts /\ stash \in Accounts /\ locker \in Accounts
      /\ fees \in Nat /\ dropped \in Nat /\ offers \in Tables
      /\ OffersOK(offers, nextId, selected, mishaps)
  BY DEF MarketTypes, OffersOK
<1>6. IsFiniteSet(rows) /\ rows \subseteq Rows /\ \A r, t \in rows : r.id = t.id => r = t
  <2>1. rows \in SUBSET selected
    BY <1>2
  <2>2. IsFiniteSet(rows)
    BY <2>1, FS_Subset DEF MarketTypes
  <2>3. QED
    BY <2>1, <2>2 DEF MarketTypes
<1>7. ASSUME NEW r \in rows
      PROVE  /\ r.id \in Ids /\ r.row \in Offers /\ offers[r.id] # NoOffer /\ offers[r.id] \in Offers
             /\ RowOf(r, offers, mishaps)
  <2>1. r \in selected /\ r.id \in Open
    BY <1>2, <1>7 DEF Refunded
  <2>2. r.id \in Ids /\ offers[r.id] # NoOffer /\ r.row \in Offers
    BY <1>6, <2>1 DEF Open, Rows
  <2>3. QED
    BY <1>5, <2>1, <2>2 DEF OffersOK, Tables
<1> DEFINE own == [r \in rows |-> r.row.owner]
           wares == [r \in rows |-> IF r.row.sale THEN r.row.amount ELSE 0]
           gold == [r \in rows |-> IF r.row.sale THEN 0 ELSE r.row.price * r.row.amount]
<1>8. own \in [rows -> Traders] /\ wares \in [rows -> Nat] /\ gold \in [rows -> Nat]
  <2>1. ASSUME NEW r \in rows
        PROVE  r.row.owner \in Traders /\ r.row.amount \in Nat /\ r.row.price * r.row.amount \in Nat
    <3>1. r.row.owner \in Traders /\ r.row.amount \in Nat /\ r.row.price \in Prices
      BY <1>7 DEF Offers
    <3>2. QED
      BY <3>1, Priced
  <2>2. QED
    BY <2>1
<1>9. ASSUME NEW p \in Traders
      PROVE  /\ WaresBack(p, rows) = SumFunction(Share(rows, own, wares, p))
             /\ GoldBack(p, rows) = SumFunction(Share(rows, own, gold, p))
  <2>1. [r \in rows |-> IF r.row.owner = p /\ r.row.sale THEN r.row.amount ELSE 0] = Share(rows, own, wares, p)
    BY DEF Share
  <2>2. [r \in rows |-> IF r.row.owner = p /\ ~r.row.sale THEN r.row.price * r.row.amount ELSE 0] = Share(rows, own, gold, p)
    BY DEF Share
  <2>3. QED
    BY <2>1, <2>2 DEF WaresBack, GoldBack
<1>10. \A p \in Traders : WaresBack(p, rows) \in Nat /\ GoldBack(p, rows) \in Nat
  <2>1. \A p \in Traders : Share(rows, own, wares, p) \in [rows -> Nat] /\ Share(rows, own, gold, p) \in [rows -> Nat]
    BY <1>8 DEF Share
  <2>2. QED
    BY <1>6, <1>9, <2>1, SumIsCount
<1>11. bank' \in Accounts /\ locker' \in Accounts /\ coins' = coins /\ stash' = stash
  BY <1>3, <1>4, <1>5, <1>10 DEF Accounts
<1>12. OffersOK(offers', nextId', selected', mishaps')
  BY <1>3, <1>4, <1>5, WithoutOK
<1>13. MarketTypes'
  <2>1. IsFiniteSet(selected')
    BY <1>4, FS_EmptySet
  <2>2. QED
    BY <1>4, <1>5, <1>11, <1>12, <2>1 DEF MarketTypes
<1>14. offers' \in Tables
  BY <1>12 DEF OffersOK
<1> DEFINE v == OnSaleIn(offers)
           v1 == OnSaleIn(offers')
           u == AdvancesIn(offers)
           u1 == AdvancesIn(offers')
           w == Both(stash, locker)
           w1 == Both(stash', locker')
           g == Both(bank, coins)
           g1 == Both(bank', coins')
<1>15. v \in [Ids -> Nat] /\ v1 \in [Ids -> Nat] /\ u \in [Ids -> Nat] /\ u1 \in [Ids -> Nat]
  BY <1>5, <1>14, TablesType
<1>16. \A i \in Ids : /\ v1[i] = IF \E r \in rows : r.id = i THEN 0 ELSE v[i]
                      /\ u1[i] = IF \E r \in rows : r.id = i THEN 0 ELSE u[i]
  BY <1>3 DEF OnSaleIn, AdvancesIn, Without
<1>17. ASSUME NEW r \in rows
       PROVE  /\ v[r.id] <= wares[r] /\ u[r.id] <= gold[r]
              /\ "staleExpiry" \notin mishaps => v[r.id] = wares[r] /\ u[r.id] = gold[r]
  <2> DEFINE o == offers[r.id]
  <2>1. /\ o # NoOffer /\ r.id \in Ids /\ o.sale = r.row.sale /\ o.price = r.row.price /\ o.amount <= r.row.amount
        /\ "staleExpiry" \notin mishaps => o.amount = r.row.amount
    BY <1>7 DEF RowOf
  <2>2. o.amount \in Nat /\ o.price \in Prices /\ o.sale \in BOOLEAN /\ r.row.amount \in Nat
    BY <1>7 DEF Offers
  <2>3. o.price \in Nat
    BY <2>2, Priced
  <2>4. o.price * o.amount <= o.price * r.row.amount /\ o.price * o.amount \in Nat /\ o.price * r.row.amount \in Nat
    BY <2>1, <2>2, <2>3, Partly
  <2>5. v[r.id] = (IF o.sale THEN o.amount ELSE 0) /\ u[r.id] = (IF o.sale THEN 0 ELSE o.price * o.amount)
    BY <2>1 DEF OnSaleIn, AdvancesIn
  <2>6. wares[r] = (IF o.sale THEN r.row.amount ELSE 0) /\ gold[r] = (IF o.sale THEN 0 ELSE o.price * r.row.amount)
    BY <2>1
  <2>7. v[r.id] <= wares[r] /\ u[r.id] <= gold[r]
    BY <2>1, <2>2, <2>4, <2>5, <2>6
  <2>8. "staleExpiry" \notin mishaps => v[r.id] = wares[r] /\ u[r.id] = gold[r]
    BY <2>1, <2>5, <2>6
  <2>9. QED
    BY <2>7, <2>8
<1>18. w \in [Traders -> Nat] /\ w1 \in [Traders -> Nat] /\ g \in [Traders -> Nat] /\ g1 \in [Traders -> Nat]
  BY <1>5, <1>11 DEF Both, Accounts
<1>19. ASSUME NEW p \in Traders
       PROVE  /\ w1[p] = w[p] + SumFunction(Share(rows, own, wares, p))
              /\ g1[p] = g[p] + SumFunction(Share(rows, own, gold, p))
  <2>1. locker'[p] = locker[p] + WaresBack(p, rows) /\ bank'[p] = bank[p] + GoldBack(p, rows)
    BY <1>3
  <2>2. /\ locker[p] \in Nat /\ bank[p] \in Nat /\ stash[p] \in Nat /\ coins[p] \in Nat
        /\ WaresBack(p, rows) \in Nat /\ GoldBack(p, rows) \in Nat
    BY <1>5, <1>10 DEF Accounts
  <2>3. w[p] = stash[p] + locker[p] /\ w1[p] = stash[p] + locker'[p]
    BY <1>11 DEF Both
  <2>4. g[p] = bank[p] + coins[p] /\ g1[p] = bank'[p] + coins[p]
    BY <1>11 DEF Both
  <2>5. w1[p] = w[p] + WaresBack(p, rows) /\ g1[p] = g[p] + GoldBack(p, rows)
    BY <2>1, <2>2, <2>3, <2>4
  <2>6. QED
    BY <1>9, <2>5
<1> HIDE DEF v, v1, u, u1, w, w1, g, g1, own, wares, gold
<1>20. /\ SumFunction(w1) + SumFunction(v1) >= SumFunction(w) + SumFunction(v)
       /\ (\A r \in rows : v[r.id] = wares[r]) =>
            SumFunction(w1) + SumFunction(v1) = SumFunction(w) + SumFunction(v)
  <2>1. Refund(rows, own, wares, w, w1, v, v1)
    BY <1>6, <1>8, <1>15, <1>16, <1>17, <1>18, <1>19 DEF Refund
  <2>2. QED
    BY <2>1, RefundSum
<1>21. /\ SumFunction(g1) + SumFunction(u1) >= SumFunction(g) + SumFunction(u)
       /\ (\A r \in rows : u[r.id] = gold[r]) =>
            SumFunction(g1) + SumFunction(u1) = SumFunction(g) + SumFunction(u)
  <2>1. Refund(rows, own, gold, g, g1, u, u1)
    BY <1>6, <1>8, <1>15, <1>16, <1>17, <1>18, <1>19 DEF Refund
  <2>2. QED
    BY <2>1, RefundSum
<1>22. /\ Gold = SumFunction(g) + fees + SumFunction(u) /\ Goods = SumFunction(w) + dropped + SumFunction(v)
       /\ Gold' = SumFunction(g1) + fees + SumFunction(u1)
       /\ Goods' = SumFunction(w1) + dropped + SumFunction(v1)
  BY <1>4, GoldIs DEF GoldIn, GoodsIn, v, v1, u, u1, w, w1, g, g1
<1>23. /\ SumFunction(w) \in Nat /\ SumFunction(v) \in Nat /\ SumFunction(g) \in Nat /\ SumFunction(u) \in Nat
       /\ SumFunction(w1) \in Nat /\ SumFunction(v1) \in Nat /\ SumFunction(g1) \in Nat /\ SumFunction(u1) \in Nat
  BY <1>5, <1>11, <1>14, SumsType DEF v, v1, u, u1, w, w1, g, g1
<1>24. Gold' >= Gold /\ Goods' >= Goods
  BY <1>5, <1>20, <1>21, <1>22, <1>23
<1>25. "staleExpiry" \notin mishaps => Gold' = Gold /\ Goods' = Goods
  BY <1>5, <1>17, <1>20, <1>21, <1>22, <1>23
<1>26. Gold \in Nat /\ Goods \in Nat
  BY MarketSums
<1>27. QED
  BY <1>4, <1>13, <1>24, <1>25, <1>26 DEF Settled

\* At start all gold and wares are with the traders.
LEMMA MarketInitInv == MarketInit => MarketInv
<1>1. SUFFICES ASSUME MarketInit PROVE MarketInv
  OBVIOUS
<1>2. /\ {StartBank, StartPurse, StartStash, StartLocker} \subseteq Nat /\ MaxIds \in Nat
      /\ IsFiniteSet(Traders)
  BY MarketAssumption
<1>3. bank \in Accounts /\ coins \in Accounts /\ stash \in Accounts /\ locker \in Accounts
  BY <1>1, <1>2 DEF MarketInit, Accounts
<1>4. OffersOK(offers, nextId, selected, mishaps)
  BY <1>1, <1>2 DEF MarketInit, OffersOK, Tables, Ids
<1>5. MarketTypes
  <2>1. IsFiniteSet(selected)
    BY <1>1, FS_EmptySet DEF MarketInit
  <2>2. QED
    BY <1>1, <1>3, <1>4, <2>1 DEF MarketInit, MarketTypes
<1>6. Both(bank, coins) \in [Traders -> Nat] /\ Both(stash, locker) \in [Traders -> Nat]
  BY <1>3 DEF Both, Accounts
<1>7. /\ \A p \in Traders : Both(bank, coins)[p] = StartBank + StartPurse
      /\ \A p \in Traders : Both(stash, locker)[p] = StartStash + StartLocker
  BY <1>1 DEF MarketInit, Both
<1>8. StartBank + StartPurse \in Nat /\ StartStash + StartLocker \in Nat
  BY <1>2
<1>9. SumFunction(Both(bank, coins)) = AllGold /\ SumFunction(Both(stash, locker)) = AllGoods
  BY <1>2, <1>6, <1>7, <1>8, SumConstant DEF AllGold, AllGoods
<1>10. SumFunction(AdvancesIn(offers)) = 0 /\ SumFunction(OnSaleIn(offers)) = 0
  <2>1. AdvancesIn(offers) \in [Ids -> Nat] /\ OnSaleIn(offers) \in [Ids -> Nat]
    BY <1>4, TablesType DEF OffersOK
  <2>2. \A i \in Ids : AdvancesIn(offers)[i] = 0 /\ OnSaleIn(offers)[i] = 0
    BY <1>1 DEF MarketInit, AdvancesIn, OnSaleIn
  <2>3. MaxIds \in Int
    BY <1>2
  <2>4. IsFiniteSet(Ids)
    BY <2>3, FS_Interval DEF Ids
  <2>5. QED
    BY <2>1, <2>2, <2>4, SumZero
<1>11. SumFunction(Both(bank, coins)) \in Nat /\ SumFunction(Both(stash, locker)) \in Nat
  BY <1>2, <1>6, SumIsCount
<1>12. Gold = AllGold /\ Goods = AllGoods
  <2>1. fees = 0 /\ dropped = 0
    BY <1>1 DEF MarketInit
  <2>2. Gold = SumFunction(Both(bank, coins)) + 0 + 0 /\ Goods = SumFunction(Both(stash, locker)) + 0 + 0
    BY <1>10, <2>1, GoldIs DEF GoldIn, GoodsIn
  <2>3. QED
    BY <1>9, <1>11, <2>2
<1>13. QED
  BY <1>5, <1>9, <1>11, <1>12 DEF MarketInv, NothingCloned, NothingVanishes

\* Every step keeps the invariant of the market.
LEMMA MarketNextInv == ASSUME MarketInv, [MarketNext]_marketVars PROVE MarketInv'
<1>1. MarketTypes
  BY DEF MarketInv
<1>2. CASE UNCHANGED marketVars
  <2>1. MarketTypes'
    BY <1>1, <1>2 DEF MarketTypes, marketVars
  <2>2. UNCHANGED <<holdings, offers, fees, dropped, mishaps>>
    BY <1>2 DEF marketVars, holdings
  <2>3. QED
    BY <1>1, <2>1, <2>2, QuietSettled, SettledInv
<1>3. CASE \E p \in Traders : EnterMarket(p) \/ LeaveMarket(p)
  BY <1>1, <1>3, EnterLeaveInv, SettledInv
<1>4. CASE \E p \in Traders, a \in Amounts, v \in Prices : CreateSellOffer(p, a, v) \/ CreateBuyOffer(p, a, v)
  BY <1>1, <1>4, CreateSellInv, CreateBuyInv, SettledInv
<1>5. CASE \E p \in Traders, i \in Ids : CancelOffer(p, i)
  BY <1>1, <1>5, CancelOfferInv, SettledInv
<1>6. CASE \E p \in Traders, i \in Ids, a \in Amounts : SellToOffer(p, i, a) \/ BuyFromOffer(p, i, a)
  BY <1>1, <1>6, SellToInv, BuyFromInv, SettledInv
<1>7. CASE \E last \in Ids : CheckExpiredOffers(last)
  BY <1>1, <1>7, CheckExpiredInv, SettledInv
<1>8. CASE ProcessExpiredOffers
  BY <1>1, <1>8, ProcessInv, SettledInv
<1>9. QED
  BY <1>2, <1>3, <1>4, <1>5, <1>6, <1>7, <1>8 DEF MarketNext

\* The inductive invariant implies what the run checks.
LEMMA MarketInvAccounted == MarketInv => WaresAccounted
<1>1. SUFFICES ASSUME MarketInv PROVE MarketTypeOK
  BY DEF MarketInv, WaresAccounted
<1>2. MarketTypes
  BY <1>1 DEF MarketInv
<1>3. \A f \in {bank, coins, stash, locker} : f \in [Traders -> Nat]
  BY <1>2 DEF MarketTypes, Accounts
<1>4. \A i \in Open : offers[i] \in Offers /\ offers[i].amount > 0
  BY <1>2 DEF MarketTypes, OffersOK, Tables, Open
<1>5. \A r \in selected : r.id \in Ids /\ r.row \in Offers
  BY <1>2 DEF MarketTypes, Rows
<1>6. QED
  BY <1>2, <1>3, <1>4, <1>5 DEF MarketTypeOK, MarketTypes, OffersOK

\* Market: for any finite set of traders, any amounts, prices and fees, no sequence of
\* creations, acceptances in part, cancellations and expiries creates gold or wares or
\* loses any, but for the mishaps named in the property.
THEOREM WaresStayAccounted == MarketSpec => []WaresAccounted
<1>1. MarketInit => MarketInv
  BY MarketInitInv
<1>2. MarketInv /\ [MarketNext]_marketVars => MarketInv'
  BY MarketNextInv
<1>3. MarketInv => WaresAccounted
  BY MarketInvAccounted
<1>4. QED
  BY <1>1, <1>2, <1>3, PTL DEF MarketSpec

-----------------------------------------------------------------------------
(***************************************************************************)
(* Money: quotients and remainders, by which coins are changed.            *)
(***************************************************************************)

\* The quotient d and the remainder r of a by b.
Divided(a, b, d, r) == d \in Nat /\ r \in Nat /\ r < b /\ a = b * d + r

\* What division computes.
LEMMA DivMod ==
  ASSUME NEW a \in Nat, NEW b \in Nat, b # 0
  PROVE  Divided(a, b, a \div b, a % b)
<1>1. a \div b \in Int /\ a \div b >= 0
  OBVIOUS
<1>2. a % b \in Nat /\ a % b < b
  OBVIOUS
<1>3. ASSUME NEW d, d = a \div b, NEW r, r = a % b PROVE Divided(a, b, d, r)
  <2>1. d \in Int /\ d >= 0 /\ r \in Nat /\ r < b
    BY <1>1, <1>2, <1>3
  <2>2. a = b * d + r
    BY <2>1, <1>3
  <2>3. QED
    BY <2>1, <2>2 DEF Divided
<1>4. QED
  BY <1>3

\* Multiplication keeps the order.
LEMMA TimesOrder ==
  ASSUME NEW a \in Nat, NEW b \in Nat, NEW c \in Nat, a <= b
  PROVE  c * a <= c * b
<1>1. PICK d \in Nat : b = a + d
  <2>1. b - a \in Nat /\ b = a + (b - a)
    OBVIOUS
  <2>2. QED
    BY <2>1
<1>2. c * b = c * a + c * d
  BY <1>1
<1>3. c * d \in Nat /\ c * a \in Nat
  OBVIOUS
<1>4. QED
  BY <1>2, <1>3

\* There is one quotient and one remainder.
LEMMA ModUnique ==
  ASSUME NEW a \in Nat, NEW b \in Nat, b # 0, NEW k \in Nat, NEW r \in Nat, r < b, a = b * k + r
  PROVE  a % b = r /\ a \div b = k
<1> DEFINE l == a \div b
           s == a % b
<1> HIDE DEF l, s
<1>1. l \in Nat /\ s \in Nat /\ s < b /\ a = b * l + s
  <2>1. Divided(a, b, l, s)
    BY DivMod DEF l, s
  <2>2. QED
    BY <2>1 DEF Divided
<1>2. ASSUME k < l PROVE FALSE
  <2>1. b * (k + 1) <= b * l
    BY <1>1, <1>2, TimesOrder
  <2>2. b * (k + 1) = b * k + b
    OBVIOUS
  <2>3. b * k \in Nat /\ b * l \in Nat
    BY <1>1
  <2>4. QED
    BY <2>1, <2>2, <2>3, <1>1
<1>3. ASSUME l < k PROVE FALSE
  <2>1. b * (l + 1) <= b * k
    BY <1>1, <1>3, TimesOrder
  <2>2. b * (l + 1) = b * l + b
    BY <1>1
  <2>3. b * k \in Nat /\ b * l \in Nat
    BY <1>1
  <2>4. QED
    BY <2>1, <2>2, <2>3, <1>1
<1>4. k = l
  BY <1>1, <1>2, <1>3
<1>5. s = r
  <2>1. b * k \in Nat
    OBVIOUS
  <2>2. QED
    BY <1>4, <1>1, <2>1
<1>6. QED
  BY <1>4, <1>5 DEF l, s

\* The remainder by a multiple has the same remainder.
LEMMA ModMod ==
  ASSUME NEW a \in Nat, NEW b \in Nat, b # 0, NEW c \in Nat, c # 0
  PROVE  (a % (b * c)) % b = a % b /\ (a % (b * c)) \div b < c
<1> DEFINE d == b * c
           x == a % d
           k == a \div d
           y == x \div b
           z == x % b
<1>1. d \in Nat /\ d # 0
  OBVIOUS
<1> HIDE DEF d
<1> HIDE DEF x, k
<1>2. k \in Nat /\ x \in Nat /\ x < d /\ a = d * k + x
  <2>1. Divided(a, d, k, x)
    BY <1>1, DivMod DEF k, x
  <2>2. QED
    BY <2>1 DEF Divided
<1> HIDE DEF y, z
<1>3. y \in Nat /\ z \in Nat /\ z < b /\ x = b * y + z
  <2>1. Divided(x, b, y, z)
    BY <1>2, DivMod DEF y, z
  <2>2. QED
    BY <2>1 DEF Divided
<1>4. a = b * (c * k + y) + z
  BY <1>2, <1>3 DEF d
<1>5. c * k + y \in Nat
  BY <1>2, <1>3
<1>6. a % b = z
  BY <1>3, <1>4, <1>5, ModUnique
<1>7. ASSUME c <= y PROVE FALSE
  <2>1. b * c <= b * y
    BY <1>3, <1>7, TimesOrder
  <2>2. b * c \in Nat /\ b * y \in Nat
    BY <1>3
  <2>3. QED
    BY <2>1, <2>2, <1>2, <1>3 DEF d
<1>8. y < c
  BY <1>3, <1>7
<1>9. QED
  BY <1>6, <1>8 DEF y, z, x, d

\* std::ceil(money / worth) coins are enough, and no more than the stack holds.
LEMMA RemoveCountIs ==
  ASSUME NEW rest \in Nat, rest # 0, NEW unit \in Nat, unit # 0, NEW n \in Nat, rest <= n * unit
  PROVE  LET count == RemoveCount(rest, unit)
         IN  count \in Nat /\ 1 <= count /\ count <= n /\ rest <= count * unit /\ count * unit \in Nat
<1> DEFINE a == rest + unit - 1
           count == a \div unit
           r == a % unit
<1>1. a \in Nat
  OBVIOUS
<1> HIDE DEF a
<1> HIDE DEF count, r
<1>2. count \in Nat /\ r \in Nat /\ r < unit /\ a = unit * count + r
  <2>1. Divided(a, unit, count, r)
    BY <1>1, DivMod DEF count, r
  <2>2. QED
    BY <2>1 DEF Divided
<1>3. unit * count \in Nat /\ count * unit = unit * count /\ n * unit = unit * n /\ unit * n \in Nat
  BY <1>2
<1>4. rest <= unit * count
  BY <1>2, <1>3 DEF a
<1>5. count # 0
  <2>1. ASSUME count = 0 PROVE unit * count = 0
    BY <2>1
  <2>2. QED
    BY <2>1, <1>4
<1>6. ASSUME n < count PROVE FALSE
  <2>1. unit * (n + 1) <= unit * count
    BY <1>2, <1>6, TimesOrder
  <2>2. unit * (n + 1) = unit * n + unit
    OBVIOUS
  <2>3. QED
    BY <2>1, <2>2, <1>2, <1>3 DEF a
<1>7. QED
  BY <1>2, <1>3, <1>4, <1>5, <1>6 DEF RemoveCount, count, a

-----------------------------------------------------------------------------
(***************************************************************************)
(* What a purse is worth, and what part of it is.                          *)
(***************************************************************************)

\* h is f at the places R, in the order of g.
PartOf(S, T, f, g, h, R) ==
  /\ IsFiniteSet(S) /\ IsFiniteSet(T) /\ f \in [S -> Nat] /\ h \in [T -> Nat] /\ g \in [T -> S]
  /\ \A t, u \in T : g[t] = g[u] => t = u
  /\ \A t \in T : h[t] = f[g[t]] /\ g[t] \in R
  /\ R \in SUBSET S
  /\ \A s \in R : \E t \in T : g[t] = s

\* A sum over a list that is part of another.
LEMMA SumReindex ==
  ASSUME NEW S, NEW T, NEW f, NEW g, NEW h, NEW R, PartOf(S, T, f, g, h, R)
  PROVE  SumFunction(h) = Count(f, R)
<1> USE DEF PartOf
<1> DEFINE G(s) == SumFunction(Share(T, g, h, s))
           k == [s \in S |-> G(s)]
<1>1. \A s \in S : Share(T, g, h, s) \in [T -> Nat]
  BY DEF Share
<1>2. ASSUME NEW t \in T PROVE G(g[t]) = f[g[t]]
  <2> DEFINE s == g[t]
             e == Share(T, g, h, s)
  <2>1. e \in [T -> Nat] /\ e[t] = h[t] /\ \A u \in T : u # t => e[u] = 0
    BY <1>1 DEF Share
  <2> HIDE DEF e
  <2>2. SumFunction(e) = e[t]
    BY <2>1, SumSingle
  <2>3. QED
    BY <2>1, <2>2 DEF e
<1>3. ASSUME NEW s \in S, s \notin R PROVE G(s) = 0
  <2> DEFINE e == Share(T, g, h, s)
  <2>1. e \in [T -> Nat] /\ \A u \in T : e[u] = 0
    BY <1>1, <1>3 DEF Share
  <2> HIDE DEF e
  <2>2. SumFunction(e) = 0
    BY <2>1, SumZero
  <2>3. QED
    BY <2>2 DEF e
<1>4. k \in [S -> Nat] /\ SumFunction(k) = SumFunction(h)
  BY SumGroup
<1>5. \A s \in S : k[s] = IF s \in R THEN f[s] ELSE 0
  BY <1>2, <1>3
<1> HIDE DEF k
<1>6. SumFunction(k) = Count(k, S)
  BY <1>4, SumIsCount
<1>7. Count(k, S) = Count(k, R)
  BY <1>4, <1>5, CountSupport
<1>8. Count(k, R) = Count(f, R)
  BY <1>5, CountSame
<1>9. QED
  BY <1>4, <1>6, <1>7, <1>8

\* A sum of multiples.
LEMMA SumScale ==
  ASSUME NEW S, IsFiniteSet(S), NEW f \in [S -> Nat], NEW u \in Nat, NEW h \in [S -> Nat],
         \A x \in S : h[x] = f[x] * u
  PROVE  SumFunction(h) = SumFunction(f) * u
<1> DEFINE good == {s \in SUBSET S : Count(h, s) = Count(f, s) * u}
<1>1. {} \in good
  BY CountEmpty
<1>2. ASSUME NEW s \in SUBSET S, s # {} PROVE \E x \in s : s \ {x} \in good => s \in good
  <2>1. PICK x \in s : TRUE
    BY <1>2
  <2> DEFINE t == s \ {x}
             a == Count(f, t)
             b == Count(h, t)
  <2>2. Count(h, s) = h[x] + b /\ Count(f, s) = f[x] + a /\ a \in Nat /\ t \in SUBSET S
    BY CountSplit, CountFinite
  <2>3. h[x] = f[x] * u /\ f[x] \in Nat
    OBVIOUS
  <2> HIDE DEF a, b, t
  <2>4. (f[x] + a) * u = f[x] * u + a * u
    BY <2>2, <2>3
  <2>5. b = a * u => Count(h, s) = Count(f, s) * u
    BY <2>2, <2>3, <2>4
  <2>6. QED
    BY <2>5 DEF a, b, t
<1>3. good \in SUBSET (SUBSET S)
  OBVIOUS
<1> HIDE DEF good
<1>4. S \in good
  BY <1>1, <1>2, <1>3, FiniteCases
<1>5. Count(h, S) = Count(f, S) * u
  BY <1>4 DEF good
<1>6. QED
  BY <1>5, SumIsCount

\* A coin is worth something.
LEMMA UnitNat ==
  ASSUME NEW c \in Coins
  PROVE  Unit(c) \in Nat /\ Unit(c) # 0
<1>1. Rate \in Nat /\ Rate # 0
  BY BankAssumption
<1>2. Rate * Rate \in Nat /\ Rate * Rate # 0
  BY <1>1
<1>3. c = 0 \/ c = 1 \/ c = 2
  BY DEF Coins
<1>4. QED
  BY <1>1, <1>2, <1>3 DEF Unit

\* So is a stack that is not empty.
LEMMA WorthNat ==
  ASSUME NEW s \in [coin : Coins, n : Nat]
  PROVE  Worth(s) \in Nat /\ (s.n # 0 => Worth(s) # 0)
<1> DEFINE u == Unit(s.coin)
           n == s.n
<1>1. u \in Nat /\ u # 0 /\ n \in Nat
  BY UnitNat
<1> HIDE DEF u, n
<1>2. n * u \in Nat /\ (n # 0 => n * u # 0)
  BY <1>1
<1>3. QED
  BY <1>2 DEF u, n, Worth

\* The worth of each stack.
Worths(q) == [i \in DOMAIN q |-> Worth(q[i])]

\* A stack holds at least one coin and at most StackSize.
LEMMA StackIs ==
  ASSUME NEW s \in Stacks
  PROVE  /\ s.coin \in Coins /\ s.n \in Nat /\ 1 <= s.n /\ s.n <= StackSize /\ StackSize \in Nat
         /\ s \in [coin : Coins, n : Nat] /\ Worth(s) \in Nat /\ Worth(s) # 0
<1>1. StackSize \in Nat
  BY BankAssumption
<1>2. s.coin \in Coins /\ s.n \in Nat /\ 1 <= s.n /\ s.n <= StackSize /\ s \in [coin : Coins, n : Nat]
  BY <1>1 DEF Stacks
<1>3. QED
  BY <1>1, <1>2, WorthNat

\* The money in a purse, as a count of units.
LEMMA PurseIs ==
  ASSUME NEW q \in Seq(Stacks)
  PROVE  /\ Len(q) \in Nat /\ DOMAIN q = 1..Len(q) /\ IsFiniteSet(1..Len(q))
         /\ Worths(q) \in [1..Len(q) -> Nat]
         /\ \A i \in 1..Len(q) : q[i] \in Stacks /\ Worths(q)[i] = Worth(q[i])
         /\ Money(q) = SumFunction(Worths(q)) /\ Money(q) = Count(Worths(q), 1..Len(q))
         /\ Money(q) \in Nat
<1>1. Len(q) \in Nat /\ DOMAIN q = 1..Len(q) /\ \A i \in 1..Len(q) : q[i] \in Stacks
  OBVIOUS
<1>2. IsFiniteSet(1..Len(q))
  BY <1>1, FS_Interval
<1>3. Worths(q) \in [1..Len(q) -> Nat] /\ \A i \in 1..Len(q) : Worths(q)[i] = Worth(q[i])
  BY <1>1, StackIs DEF Worths
<1>4. Money(q) = SumFunction(Worths(q))
  BY DEF Money, Worths
<1> DEFINE S == 1..Len(q)
           w == Worths(q)
<1>5. IsFiniteSet(S) /\ w \in [S -> Nat]
  BY <1>2, <1>3
<1> HIDE DEF S, w
<1>6. SumFunction(w) = Count(w, S) /\ SumFunction(w) \in Nat
  BY <1>5, SumIsCount
<1>7. QED
  BY <1>1, <1>2, <1>3, <1>4, <1>6 DEF S, w

\* Membership in BoundedSeq, without its union.
LEMMA BoundedIs ==
  ASSUME NEW q
  PROVE  q \in BoundedSeq(Stacks, PurseSize) <=> q \in Seq(Stacks) /\ Len(q) <= PurseSize
<1>0. PurseSize \in Nat
  BY BankAssumption
<1>1. ASSUME q \in BoundedSeq(Stacks, PurseSize) PROVE q \in Seq(Stacks) /\ Len(q) <= PurseSize
  <2>1. PICK m \in 0..PurseSize : q \in [1..m -> Stacks]
    BY <1>1 DEF BoundedSeq, SeqOf
  <2>2. m \in Nat /\ m <= PurseSize
    BY <2>1, <1>0
  <2>3. q \in Seq(Stacks) /\ Len(q) = m
    BY <2>1, <2>2
  <2>4. QED
    BY <2>2, <2>3
<1>2. ASSUME q \in Seq(Stacks), Len(q) <= PurseSize PROVE q \in BoundedSeq(Stacks, PurseSize)
  <2>1. q \in [1..Len(q) -> Stacks] /\ Len(q) \in 0..PurseSize
    BY <1>2, <1>0
  <2>2. QED
    BY <2>1 DEF BoundedSeq, SeqOf
<1>3. QED
  BY <1>1, <1>2

\* r has the stacks of q at the places R, in the order of g.
Sublist(q, r, g, R) ==
  /\ q \in Seq(Stacks) /\ r \in Seq(Stacks) /\ g \in [1..Len(r) -> 1..Len(q)]
  /\ \A j, k \in 1..Len(r) : g[j] = g[k] => j = k
  /\ \A j \in 1..Len(r) : r[j] = q[g[j]] /\ g[j] \in R
  /\ R \in SUBSET (1..Len(q))
  /\ \A s \in R : \E j \in 1..Len(r) : g[j] = s

\* A purse of some of the stacks of another is worth what they are worth.
LEMMA MoneyPart ==
  ASSUME NEW q, NEW r, NEW g, NEW R, Sublist(q, r, g, R)
  PROVE  Money(r) = Count(Worths(q), R)
<1> USE DEF Sublist
<1> DEFINE S == 1..Len(q)
           T == 1..Len(r)
           f == Worths(q)
           h == Worths(r)
<1>1. IsFiniteSet(S) /\ IsFiniteSet(T) /\ f \in [S -> Nat] /\ h \in [T -> Nat] /\ Money(r) = SumFunction(h)
  BY PurseIs
<1>2. ASSUME NEW j \in T PROVE h[j] = f[g[j]]
  <2>1. h[j] = Worth(r[j])
    BY PurseIs
  <2>2. g[j] \in S /\ r[j] = q[g[j]]
    OBVIOUS
  <2>3. f[g[j]] = Worth(q[g[j]])
    BY <2>2, PurseIs
  <2>4. QED
    BY <2>1, <2>2, <2>3
<1>3. g \in [T -> S] /\ (\A t, u \in T : g[t] = g[u] => t = u) /\ (\A t \in T : h[t] = f[g[t]])
      /\ R \in SUBSET S /\ (\A t \in T : g[t] \in R) /\ (\A s \in R : \E t \in T : g[t] = s)
  BY <1>2
<1>t. PartOf(S, T, f, g, h, R)
  <2> HIDE DEF S, T, f, h
  <2>1. QED
    BY <1>1, <1>3 DEF PartOf
<1> HIDE DEF S, T, f, h
<1>4. SumFunction(h) = Count(f, R)
  BY <1>t, SumReindex
<1>5. QED
  BY <1>1, <1>4 DEF T, f

-----------------------------------------------------------------------------
(***************************************************************************)
(* New coins at the front of a purse or on its stacks.                     *)
(***************************************************************************)

\* r is q with one more stack at the front.
Fronted(q, x, r) ==
  /\ q \in Seq(Stacks) /\ x \in Stacks /\ r \in Seq(Stacks) /\ Len(r) = Len(q) + 1 /\ r[1] = x
  /\ \A i \in 1..Len(q) : r[i + 1] = q[i]

\* A new stack is put at the front.
LEMMA FrontIs ==
  ASSUME NEW q \in Seq(Stacks), NEW x \in Stacks
  PROVE  Fronted(q, x, <<x>> \o q)
BY DEF Fronted

\* It adds its worth.
LEMMA MoneyFront ==
  ASSUME NEW q, NEW x, NEW r, Fronted(q, x, r)
  PROVE  Money(r) = Worth(x) + Money(q)
<1> DEFINE g == [j \in 1..Len(q) |-> j + 1]
           S == 1..Len(r)
           R == S \ {1}
           w == Worths(r)
<1>1. q \in Seq(Stacks) /\ r \in Seq(Stacks) /\ Len(r) = Len(q) + 1 /\ r[1] = x /\ Len(q) \in Nat
  BY DEF Fronted
<1>2. Sublist(r, q, g, R)
  <2>1. /\ g \in [1..Len(q) -> 1..Len(r)] /\ (\A j, k \in 1..Len(q) : g[j] = g[k] => j = k)
        /\ R \in SUBSET (1..Len(r))
    BY <1>1
  <2>2. \A j \in 1..Len(q) : q[j] = r[g[j]] /\ g[j] \in R
    BY <1>1 DEF Fronted
  <2>3. \A s \in R : \E j \in 1..Len(q) : g[j] = s
    <3>1. ASSUME NEW s \in R PROVE s - 1 \in 1..Len(q) /\ g[s - 1] = s
      BY <1>1
    <3>2. QED
      BY <3>1
  <2> HIDE DEF g, R
  <2>4. QED
    BY <1>1, <2>1, <2>2, <2>3 DEF Sublist
<1>3. 1 \in S
  BY <1>1
<1> HIDE DEF g, R
<1>4. Money(q) = Count(w, R)
  BY <1>2, MoneyPart
<1>5. IsFiniteSet(S) /\ w \in [S -> Nat] /\ w[1] = Worth(x) /\ Money(r) = Count(w, S)
  BY <1>1, <1>3, PurseIs
<1> HIDE DEF w, S
<1>6. \A T : IsFiniteSet(T) => \A y \in T : \A f \in [T -> Nat] : Count(f, T) = f[y] + Count(f, T \ {y})
  BY CountSplit
<1>7. Count(w, S) = w[1] + Count(w, S \ {1})
  BY <1>3, <1>5, <1>6, Zenon
<1>8. QED
  BY <1>4, <1>5, <1>7 DEF R

\* The stacks of q are the last of r, and none has become smaller.
Lengthened(q, r) ==
  /\ Len(q) <= Len(r)
  /\ \A i \in 1..Len(q) : /\ r[i + (Len(r) - Len(q))].coin = q[i].coin
                          /\ r[i + (Len(r) - Len(q))].n >= q[i].n

\* The room on a stack is what it may still hold, and none for other coins.
LEMMA RoomIs ==
  ASSUME NEW q \in Seq(Stacks), NEW c \in Coins
  PROVE  /\ Room(q, c) \in [1..Len(q) -> Nat]
         /\ \A i \in 1..Len(q) : /\ q[i].n + Room(q, c)[i] <= StackSize
                                 /\ Room(q, c)[i] # 0 => q[i].coin = c
<1>1. DOMAIN q = 1..Len(q) /\ \A i \in 1..Len(q) : q[i] \in Stacks
  OBVIOUS
<1>2. \A i \in 1..Len(q) : StackSize - q[i].n \in Nat /\ q[i].n \in Nat /\ StackSize \in Nat
  BY <1>1, StackIs
<1>3. QED
  BY <1>1, <1>2 DEF Room

\* r is q with p[i] more coins in its i-th stack.
Grown(q, p, r) == r = [i \in DOMAIN q |-> [q[i] EXCEPT !.n = @ + p[i]]]

\* Stacks of one kind that have grown.
LEMMA MoneyGrown ==
  ASSUME NEW q \in Seq(Stacks), NEW c \in Coins, NEW p \in [1..Len(q) -> Nat],
         \A i \in 1..Len(q) : q[i].n + p[i] <= StackSize /\ (p[i] # 0 => q[i].coin = c),
         NEW r, Grown(q, p, r)
  PROVE  /\ r \in Seq(Stacks) /\ Len(r) = Len(q) /\ Lengthened(q, r)
         /\ SumFunction(p) \in Nat
         /\ Money(r) = Money(q) + SumFunction(p) * Unit(c)
<1> DEFINE S == 1..Len(q)
           f == Worths(q)
           h == Worths(r)
           u == Unit(c)
           g == [i \in S |-> p[i] * u]
<1>1. DOMAIN q = S /\ Len(q) \in Nat /\ \A i \in S : q[i] \in Stacks
  OBVIOUS
<1>2. ASSUME NEW i \in S PROVE /\ r[i] \in Stacks /\ r[i].coin = q[i].coin /\ r[i].n = q[i].n + p[i]
                               /\ p[i] \in Nat /\ q[i].n \in Nat
  <2>1. /\ q[i].coin \in Coins /\ q[i].n \in Nat /\ 1 <= q[i].n /\ StackSize \in Nat
    BY <1>1, StackIs
  <2>2. p[i] \in Nat /\ q[i].n + p[i] <= StackSize
    OBVIOUS
  <2>3. r[i] = [coin |-> q[i].coin, n |-> q[i].n + p[i]]
    BY <1>1 DEF Stacks, Grown
  <2>4. q[i].n + p[i] \in 1..StackSize
    BY <2>1, <2>2
  <2>5. QED
    BY <2>1, <2>2, <2>3, <2>4 DEF Stacks
<1>3. r \in [S -> Stacks]
  <2>1. r = [i \in S |-> r[i]]
    BY <1>1 DEF Grown
  <2>2. QED
    BY <2>1, <1>2
<1>4. r \in Seq(Stacks) /\ Len(r) = Len(q)
  BY <1>1, <1>3
<1>5. Lengthened(q, r)
  <2>1. ASSUME NEW i \in 1..Len(q)
        PROVE  r[i + (Len(r) - Len(q))].coin = q[i].coin /\ r[i + (Len(r) - Len(q))].n >= q[i].n
    <3>1. i + (Len(r) - Len(q)) = i
      BY <1>1, <1>4
    <3>2. r[i].coin = q[i].coin /\ r[i].n >= q[i].n
      BY <1>2
    <3>3. QED
      BY <3>1, <3>2
  <2>2. QED
    BY <2>1, <1>1, <1>4 DEF Lengthened
<1>6. u \in Nat
  BY UnitNat
<1>7. /\ IsFiniteSet(S) /\ f \in [S -> Nat] /\ h \in [S -> Nat]
      /\ Money(q) = SumFunction(f) /\ Money(r) = SumFunction(h)
  BY <1>4, PurseIs
<1>8. ASSUME NEW i \in S PROVE f[i] = Worth(q[i]) /\ h[i] = Worth(r[i])
  BY <1>4, PurseIs
<1>9. ASSUME NEW i \in S PROVE p[i] * u \in Nat /\ h[i] = f[i] + p[i] * u
  <2> DEFINE a == q[i].n
             b == p[i]
             v == Unit(q[i].coin)
  <2>1. a \in Nat /\ b \in Nat /\ v \in Nat
    BY <1>1, <1>2, StackIs, UnitNat
  <2>2. b # 0 => v = u
    OBVIOUS
  <2>3. h[i] = (a + b) * v /\ f[i] = a * v
    BY <1>8, <1>2 DEF Worth
  <2> HIDE DEF a, b, v, u, h, f
  <2>4. (a + b) * v = a * v + b * v /\ b * v \in Nat /\ a * v \in Nat
    BY <2>1
  <2>5. b * v = b * u
    <3>1. CASE b = 0
      BY <3>1, <2>1, <1>6
    <3>2. CASE b # 0
      BY <3>2, <2>2
    <3>3. QED
      BY <3>1, <3>2
  <2>6. QED
    BY <2>3, <2>4, <2>5 DEF b
<1>10. g \in [S -> Nat] /\ \A i \in S : g[i] = p[i] * u /\ h[i] = f[i] + g[i]
  BY <1>9
<1>11. p \in [S -> Nat]
  OBVIOUS
<1> HIDE DEF S, f, g, h, u
<1>12. SumFunction(h) = SumFunction(f) + SumFunction(g)
  <2>1. \A f0, g0, h0 \in [S -> Nat] :
          (\A x \in S : h0[x] = f0[x] + g0[x]) => SumFunction(h0) = SumFunction(f0) + SumFunction(g0)
    BY <1>7, SumAdd
  <2>2. QED
    BY <2>1, <1>7, <1>10, Zenon
<1>13. SumFunction(g) = SumFunction(p) * u
  <2>1. \A T : IsFiniteSet(T) => \A v \in Nat : \A f0, h0 \in [T -> Nat] :
          (\A x \in T : h0[x] = f0[x] * v) => SumFunction(h0) = SumFunction(f0) * v
    BY SumScale
  <2>2. IsFiniteSet(S) /\ u \in Nat /\ g \in [S -> Nat] /\ p \in [S -> Nat]
    BY <1>6, <1>7, <1>10, <1>11
  <2>3. \A f0, h0 \in [S -> Nat] :
          (\A x \in S : h0[x] = f0[x] * u) => SumFunction(h0) = SumFunction(f0) * u
    BY <2>1, <2>2, Zenon
  <2>4. \A x \in S : g[x] = p[x] * u
    BY <1>10
  <2>5. QED
    BY <2>2, <2>3, <2>4, Zenon
<1>14. SumFunction(p) \in Nat
  BY <1>7, <1>11, SumIsCount
<1>15. QED
  BY <1>4, <1>5, <1>7, <1>12, <1>13, <1>14 DEF u

-----------------------------------------------------------------------------
(***************************************************************************)
(* internalAddItem() of one stack: what fits goes on stacks or becomes     *)
(* one, the rest is on the floor or gone.                                  *)
(***************************************************************************)

\* A purse lengthens itself.
LEMMA LengthenedSame == ASSUME NEW q \in Seq(Stacks) PROVE Lengthened(q, q)
<1>1. ASSUME NEW i \in 1..Len(q) PROVE i + (Len(q) - Len(q)) = i /\ q[i].n \in Nat
  BY StackIs
<1>2. QED
  BY <1>1 DEF Lengthened

\* Lengthening is transitive.
LEMMA LengthenedFurther ==
  ASSUME NEW q \in Seq(Stacks), NEW r \in Seq(Stacks), NEW t \in Seq(Stacks), Lengthened(q, r), Lengthened(r, t)
  PROVE  Lengthened(q, t)
<1>1. Len(q) \in Nat /\ Len(r) \in Nat /\ Len(t) \in Nat /\ Len(q) <= Len(r) /\ Len(r) <= Len(t)
  BY DEF Lengthened
<1>2. ASSUME NEW i \in 1..Len(q)
      PROVE  t[i + (Len(t) - Len(q))].coin = q[i].coin /\ t[i + (Len(t) - Len(q))].n >= q[i].n
  <2> DEFINE j == i + (Len(r) - Len(q))
             k == i + (Len(t) - Len(q))
  <2>1. j \in 1..Len(r) /\ k \in 1..Len(t) /\ j + (Len(t) - Len(r)) = k
    BY <1>1
  <2> HIDE DEF j, k
  <2>2. r[j].coin = q[i].coin /\ r[j].n >= q[i].n
    BY DEF Lengthened, j
  <2>3. t[k].coin = r[j].coin /\ t[k].n >= r[j].n
    BY <2>1 DEF Lengthened
  <2>4. q[i].n \in Nat /\ r[j].n \in Nat /\ t[k].n \in Nat
    <3>1. q[i] \in Stacks /\ r[j] \in Stacks /\ t[k] \in Stacks
      BY <2>1
    <3>2. QED
      BY <3>1, StackIs
  <2>5. QED
    BY <2>2, <2>3, <2>4 DEF k
<1>3. QED
  BY <1>1, <1>2 DEF Lengthened

\* A new stack at the front lengthens a purse.
LEMMA LengthenedFront ==
  ASSUME NEW q, NEW x, NEW r, Fronted(q, x, r)
  PROVE  Lengthened(q, r)
<1>1. q \in Seq(Stacks) /\ Len(q) \in Nat /\ Len(r) = Len(q) + 1 /\ \A i \in 1..Len(q) : r[i + 1] = q[i]
  BY DEF Fronted
<1>2. ASSUME NEW i \in 1..Len(q)
      PROVE  r[i + (Len(r) - Len(q))].coin = q[i].coin /\ r[i + (Len(r) - Len(q))].n >= q[i].n
  <2>1. i + (Len(r) - Len(q)) = i + 1
    BY <1>1
  <2>2. q[i].n \in Nat /\ r[i + 1] = q[i]
    BY <1>1, StackIs
  <2>3. QED
    BY <2>1, <2>2
<1>3. QED
  BY <1>1, <1>2 DEF Lengthened

\* A product that leaves room leaves a place.
LEMMA PlaceLeft ==
  ASSUME NEW k \in Nat, NEW size \in Nat, NEW room \in Nat, NEW m \in Nat, m <= k * size + room, m > room
  PROVE  k # 0
<1>1. ASSUME k = 0 PROVE FALSE
  <2>1. k * size = 0
    BY <1>1
  <2>2. QED
    BY <2>1
<1>2. QED
  BY <1>1

\* Coins that there is room for are all added, and the purse keeps its size.
LEMMA FillIs ==
  ASSUME NEW q \in Seq(Stacks), Len(q) <= PurseSize, NEW c \in Coins, NEW m \in Nat, m <= StackSize,
         m <= MaxQueryCount(q, c), NEW r, r = Fill(q, c, m)
  PROVE  /\ r \in Seq(Stacks) /\ Len(r) <= PurseSize /\ Lengthened(q, r)
         /\ Money(r) = Money(q) + m * Unit(c)
<1> DEFINE room == Room(q, c)
           n == Len(q)
           poured == Poured(room, m)
           sum == SumFunction(poured)
           rest == m - sum
           filled == [i \in DOMAIN q |-> [q[i] EXCEPT !.n = @ + poured[i]]]
           x == [coin |-> c, n |-> rest]
           u == Unit(c)
<1>1. n \in Nat /\ PurseSize \in Nat /\ StackSize \in Nat /\ u \in Nat /\ Money(q) \in Nat
  BY BankAssumption, UnitNat, PurseIs
<1>2. r = IF rest = 0 THEN filled ELSE <<x>> \o filled
  BY DEF Fill
<1>3. MaxQueryCount(q, c) = (PurseSize - n) * StackSize + SumFunction(room)
  BY DEF MaxQueryCount
<1>4. Grown(q, poured, filled)
  BY DEF Grown
<1> HIDE DEF room, n, filled, u
<1>5. /\ room \in [1..n -> Nat]
      /\ \A i \in 1..n : q[i].n + room[i] <= StackSize /\ (room[i] # 0 => q[i].coin = c)
  BY RoomIs DEF room, n
<1>6. /\ poured \in [1..n -> Nat] /\ \A i \in 1..n : poured[i] <= room[i]
      /\ sum = Least(m, SumFunction(room)) /\ sum \in Nat /\ SumFunction(room) \in Nat
  BY <1>1, <1>5, PouredSum
<1> HIDE DEF poured, sum
<1>7. \A i \in 1..n : q[i].n + poured[i] <= StackSize /\ (poured[i] # 0 => q[i].coin = c)
  <2>1. ASSUME NEW i \in 1..n PROVE q[i].n + poured[i] <= StackSize /\ (poured[i] # 0 => q[i].coin = c)
    <3>1. q[i].n \in Nat /\ poured[i] \in Nat /\ room[i] \in Nat /\ poured[i] <= room[i]
      BY <1>5, <1>6, StackIs DEF n
    <3>2. QED
      BY <3>1, <1>1, <1>5
  <2>2. QED
    BY <2>1
<1>8. /\ filled \in Seq(Stacks) /\ Len(filled) = n /\ Lengthened(q, filled)
      /\ Money(filled) = Money(q) + sum * u
  BY <1>4, <1>6, <1>7, MoneyGrown DEF n, u, sum
<1>9. sum <= m /\ rest \in Nat /\ (rest # 0 => SumFunction(room) < m)
  BY <1>6 DEF Least
<1>10. CASE rest = 0
  <2>1. sum = m
    BY <1>10, <1>6
  <2>2. QED
    BY <2>1, <1>10, <1>2, <1>8 DEF n, u
<1>11. CASE rest # 0
  <2>1. rest \in 1..StackSize
    BY <1>11, <1>1, <1>6, <1>9
  <2>2. x \in Stacks /\ Worth(x) = rest * u
    BY <2>1 DEF Stacks, Worth, u
  <2>3. Fronted(filled, x, r)
    BY <2>2, <1>2, <1>8, <1>11, FrontIs
  <2>4. r \in Seq(Stacks) /\ Len(r) = n + 1
    BY <2>3, <1>8 DEF Fronted
  <2>5. PurseSize - n # 0
    <3> DEFINE k == PurseSize - n
    <3>1. k \in Nat
      BY <1>1 DEF n
    <3>2. m <= k * StackSize + SumFunction(room)
      BY <1>3
    <3> HIDE DEF k
    <3>3. k # 0
      BY <3>1, <3>2, <1>1, <1>6, <1>9, <1>11, PlaceLeft
    <3>4. QED
      BY <3>3 DEF k
  <2>6. Len(r) <= PurseSize
    BY <2>4, <2>5, <1>1 DEF n
  <2>7. Lengthened(q, r)
    BY <2>3, <2>4, <1>8, LengthenedFront, LengthenedFurther
  <2>8. Money(r) = rest * u + (Money(q) + sum * u)
    BY <2>2, <2>3, <1>8, MoneyFront
  <2>9. rest * u + sum * u = m * u /\ rest * u \in Nat /\ sum * u \in Nat
    <3>1. m = rest + sum
      BY <1>6
    <3> HIDE DEF rest
    <3>2. (rest + sum) * u = rest * u + sum * u /\ rest * u \in Nat /\ sum * u \in Nat
      BY <1>1, <1>6, <1>9
    <3>3. QED
      BY <3>1, <3>2
  <2>10. Money(r) = Money(q) + m * u
    <3> HIDE DEF rest
    <3>1. QED
      BY <2>8, <2>9, <1>1
  <2>11. QED
    BY <2>4, <2>6, <2>7, <2>10 DEF u
<1>12. QED
  BY <1>10, <1>11

\* What addMoney() has so far.
Outcomes == {acc \in [q : Seq(Stacks), floor : Nat, gone : Nat] : Len(acc.q) <= PurseSize}

\* What an outcome accounts for.
Total(acc) == Money(acc.q) + acc.floor + acc.gone

\* internalAddItem() accounts for the whole stack, wherever its coins end.
LEMMA AddStackIs ==
  ASSUME NEW acc \in Outcomes, NEW s \in Stacks, NEW heavy, NEW r, r = AddStack(acc, s, heavy)
  PROVE  r \in Outcomes /\ Total(r) = Total(acc) + Worth(s) /\ Lengthened(acc.q, r.q)
<1> DEFINE q == acc.q
           c == s.coin
           n == s.n
           u == Unit(c)
           most == MaxQueryCount(q, c)
           m == Least(n, most)
           t == Fill(q, c, m)
           merges == \E i \in DOMAIN q : Room(q, c)[i] > 0
           fits == ~heavy /\ (merges \/ Len(q) < PurseSize)
<1>1. /\ q \in Seq(Stacks) /\ Len(q) <= PurseSize /\ acc.floor \in Nat /\ acc.gone \in Nat
      /\ acc = [q |-> q, floor |-> acc.floor, gone |-> acc.gone]
  BY DEF Outcomes
<1>2. c \in Coins /\ n \in Nat /\ n <= StackSize /\ StackSize \in Nat /\ u \in Nat /\ PurseSize \in Nat
      /\ Money(q) \in Nat /\ Worth(s) \in Nat
  BY <1>1, StackIs, UnitNat, PurseIs, BankAssumption
<1>3. r = IF fits THEN [q |-> t, floor |-> acc.floor, gone |-> acc.gone + (n - m) * u]
          ELSE [q |-> q, floor |-> acc.floor + Worth(s), gone |-> acc.gone]
  <2> DEFINE e == (n - m) * u
             w == Worth(s)
  <2>1. r = IF fits THEN [acc EXCEPT !.q = t, !.gone = @ + e] ELSE [acc EXCEPT !.floor = @ + w]
    BY DEF AddStack
  <2>2. acc \in [q : Seq(Stacks), floor : Nat, gone : Nat]
    BY DEF Outcomes
  <2> HIDE DEF e, w, t, fits
  <2>3. [acc EXCEPT !.q = t, !.gone = @ + e] = [q |-> t, floor |-> acc.floor, gone |-> acc.gone + e]
    <3> DEFINE z == [acc EXCEPT !.q = t, !.gone = @ + e]
    <3>1. DOMAIN acc = {"q", "floor", "gone"}
      BY <2>2
    <3>2. z = [f \in {"q", "floor", "gone"} |-> z[f]]
      BY <3>1
    <3>3. z.q = t /\ z.floor = acc.floor /\ z.gone = acc.gone + e
      BY <3>1
    <3> HIDE DEF z
    <3>4. z = [q |-> t, floor |-> acc.floor, gone |-> acc.gone + e]
      BY <3>2, <3>3
    <3>5. QED
      BY <3>4 DEF z
  <2>4. [acc EXCEPT !.floor = @ + w] = [q |-> q, floor |-> acc.floor + w, gone |-> acc.gone]
    BY <2>2
  <2>5. QED
    BY <2>1, <2>3, <2>4 DEF e, w
<1>4. most \in Nat
  <2> DEFINE room == Room(q, c)
             l == Len(q)
             k == PurseSize - l
  <2>1. room \in [1..l -> Nat] /\ l \in Nat /\ k \in Nat
    BY <1>1, <1>2, RoomIs
  <2>2. most = k * StackSize + SumFunction(room)
    BY DEF MaxQueryCount
  <2> HIDE DEF room, l, k
  <2>3. SumFunction(room) \in Nat
    BY <2>1, PouredSum
  <2>4. k * StackSize \in Nat
    BY <2>1, <1>2
  <2>5. QED
    BY <2>2, <2>3, <2>4
<1> HIDE DEF most
<1>5. m \in Nat /\ m <= n /\ m <= most /\ m <= StackSize
  BY <1>2, <1>4 DEF Least
<1> HIDE DEF m, fits, n, c, q, u, t
<1>6. CASE fits
  <2>1. t \in Seq(Stacks) /\ Len(t) <= PurseSize /\ Lengthened(q, t) /\ Money(t) = Money(q) + m * u
    BY <1>1, <1>2, <1>5, FillIs DEF most, t, u
  <2>2. r = [q |-> t, floor |-> acc.floor, gone |-> acc.gone + (n - m) * u]
    BY <1>3, <1>6
  <2>3. (n - m) * u \in Nat /\ m * u \in Nat /\ m * u + (n - m) * u = n * u
    <3> DEFINE d == n - m
    <3>1. d \in Nat /\ n = m + d
      BY <1>2, <1>5
    <3> HIDE DEF d
    <3>2. (m + d) * u = m * u + d * u /\ m * u \in Nat /\ d * u \in Nat
      BY <3>1, <1>2, <1>5
    <3>3. QED
      BY <3>1, <3>2 DEF d
  <2>4. Worth(s) = n * u
    BY DEF Worth, n, u, c
  <2> DEFINE a == m * u
             b == (n - m) * u
  <2>5. a \in Nat /\ b \in Nat /\ a + b = Worth(s) /\ Money(t) = Money(q) + a
        /\ r = [q |-> t, floor |-> acc.floor, gone |-> acc.gone + b]
    BY <2>1, <2>2, <2>3, <2>4
  <2> HIDE DEF a, b
  <2>6. r.q = t /\ r.floor = acc.floor /\ r.gone = acc.gone + b
    BY <2>5
  <2>7. r \in Outcomes
    BY <2>1, <2>5, <1>1 DEF Outcomes
  <2>8. Total(r) = Total(acc) + Worth(s)
    BY <2>5, <2>6, <1>1, <1>2 DEF Total, q
  <2>9. QED
    BY <2>1, <2>6, <2>7, <2>8 DEF q
<1>7. CASE ~fits
  <2>1. r = [q |-> q, floor |-> acc.floor + Worth(s), gone |-> acc.gone]
    BY <1>3, <1>7
  <2>2. r.q = q /\ r.floor = acc.floor + Worth(s) /\ r.gone = acc.gone
    BY <2>1
  <2>3. r \in Outcomes
    BY <2>1, <1>1, <1>2 DEF Outcomes
  <2>4. Total(r) = Total(acc) + Worth(s)
    BY <2>2, <1>1, <1>2 DEF Total, q
  <2>5. Lengthened(q, q)
    BY <1>1, LengthenedSame
  <2>6. QED
    BY <2>2, <2>3, <2>4, <2>5 DEF q
<1>8. QED
  BY <1>6, <1>7

-----------------------------------------------------------------------------
(***************************************************************************)
(* The stacks that addMoney() makes are worth the sum it is asked for.     *)
(***************************************************************************)

\* A stack that may be empty.
Cash == [coin : Coins, n : 0..StackSize]

\* Without its coins such a stack is worth nothing; with some it is a stack.
LEMMA CashIs ==
  ASSUME NEW s \in Cash
  PROVE  Worth(s) \in Nat /\ (s.n = 0 => Worth(s) = 0) /\ (s.n # 0 => s \in Stacks)
<1>1. StackSize \in Nat
  BY BankAssumption
<1>2. s \in [coin : Coins, n : Nat] /\ s.coin \in Coins
  BY <1>1 DEF Cash
<1>3. Worth(s) \in Nat
  BY <1>2, WorthNat
<1>4. s.n = 0 => Worth(s) = 0
  BY <1>2, UnitNat DEF Worth
<1>5. s.n # 0 => s \in Stacks
  BY <1>1 DEF Cash, Stacks
<1>6. QED
  BY <1>3, <1>4, <1>5

\* The worths of such stacks.
LEMMA CashWorths ==
  ASSUME NEW new \in Seq(Cash)
  PROVE  /\ Len(new) \in Nat /\ Worths(new) \in [1..Len(new) -> Nat]
         /\ \A i \in 1..Len(new) : new[i] \in Cash /\ Worths(new)[i] = Worth(new[i])
<1>1. Len(new) \in Nat /\ DOMAIN new = 1..Len(new) /\ \A i \in 1..Len(new) : new[i] \in Cash
  OBVIOUS
<1>2. QED
  BY <1>1, CashIs DEF Worths

\* k stacks of the same worth.
LEMMA CountEqual ==
  ASSUME NEW n \in Nat, NEW k \in 0..n, NEW f \in [1..n -> Nat], NEW c \in Nat, \A i \in 1..k : f[i] = c
  PROVE  Count(f, 1..k) = k * c
<1> DEFINE S == 1..n
           s == 1..k
           h == [x \in s |-> f[x]]
<1>1. IsFiniteSet(S) /\ IsFiniteSet(s) /\ Cardinality(s) = k /\ s \in SUBSET S /\ f \in [S -> Nat]
  <2>1. k \in Nat
    OBVIOUS
  <2>2. IsFiniteSet(1..n) /\ IsFiniteSet(1..k) /\ Cardinality(1..k) = IF 1 > k THEN 0 ELSE k - 1 + 1
    BY <2>1, FS_Interval
  <2>3. Cardinality(1..k) = k
    BY <2>1, <2>2
  <2>4. 1..k \in SUBSET (1..n)
    OBVIOUS
  <2>5. QED
    BY <2>2, <2>3, <2>4
<1>2. h \in [s -> Nat] /\ \A x \in s : h[x] = c
  BY <1>1
<1> HIDE DEF S, s
<1>3. SumFunction(h) = Count(f, s)
  BY <1>1, SumOn
<1> HIDE DEF h
<1>4. SumFunction(h) = Cardinality(s) * c
  <2>1. \A T : IsFiniteSet(T) => \A g \in [T -> Nat] : (\A x \in T : g[x] = c) => SumFunction(g) = Cardinality(T) * c
    BY SumConstant
  <2>2. QED
    BY <2>1, <1>1, <1>2, Zenon
<1>5. QED
  BY <1>1, <1>3, <1>4 DEF s

\* The amounts in the three kinds of coins add up.
LEMMA ChangeSums ==
  ASSUME NEW money \in Nat, NEW crystal, crystal = money \div Unit(2), NEW k, k = crystal \div StackSize,
         NEW a, a = crystal % StackSize, NEW b, b = (money % Unit(2)) \div Rate, NEW c, c = money % Rate
  PROVE  /\ k \in Nat /\ a \in 0..StackSize /\ b \in 0..StackSize /\ c \in 0..StackSize
         /\ k * (StackSize * Unit(2)) + a * Unit(2) + b * Unit(1) + c * Unit(0) = money
<1> DEFINE R == Rate
           Q == R * R
           x == money % Q
           y == x % R
<1>1. R \in Nat /\ R # 0 /\ StackSize \in Nat /\ StackSize # 0 /\ R <= StackSize
  BY BankAssumption
<1>2. Unit(2) = Q /\ Unit(1) = R /\ Unit(0) = 1
  BY DEF Unit
<1>3. Q \in Nat /\ Q # 0
  BY <1>1
<1>4. y = c /\ b < R
  <2>1. (money % (R * R)) % R = money % R /\ (money % (R * R)) \div R < R
    BY <1>1, ModMod
  <2>2. QED
    BY <2>1, <1>2
<1> HIDE DEF R, Q, x
<1>5. crystal \in Nat /\ x \in Nat /\ money = Q * crystal + x
  <2>1. Divided(money, Q, crystal, x)
    BY <1>2, <1>3, DivMod DEF x
  <2>2. QED
    BY <2>1 DEF Divided
<1>6. k \in Nat /\ a \in Nat /\ a < StackSize /\ crystal = StackSize * k + a
  <2>1. Divided(crystal, StackSize, k, a)
    BY <1>1, <1>5, DivMod
  <2>2. QED
    BY <2>1 DEF Divided
<1> HIDE DEF y
<1>7. b \in Nat /\ y \in Nat /\ y < R /\ x = R * b + y
  <2>1. Divided(x, R, b, y)
    BY <1>1, <1>2, <1>5, DivMod DEF x, y, R
  <2>2. QED
    BY <2>1 DEF Divided
<1>8. money = k * (StackSize * Q) + a * Q + b * R + c
  <2>1. ASSUME NEW s \in Nat, NEW Q1 \in Nat, NEW R1 \in Nat, NEW k1 \in Nat, NEW a1 \in Nat, NEW b1 \in Nat,
               NEW c1 \in Nat
        PROVE  Q1 * (s * k1 + a1) + (R1 * b1 + c1) = k1 * (s * Q1) + a1 * Q1 + b1 * R1 + c1
    OBVIOUS
  <2>2. c \in Nat
    BY <1>4, <1>7
  <2>3. Q * (StackSize * k + a) + (R * b + c) = k * (StackSize * Q) + a * Q + b * R + c
    BY <2>1, <2>2, <1>1, <1>3, <1>6, <1>7
  <2>4. QED
    BY <2>3, <1>4, <1>5, <1>6, <1>7
<1>9. a \in 0..StackSize /\ b \in 0..StackSize /\ c \in 0..StackSize
  <2>1. a \in 0..StackSize
    BY <1>1, <1>6
  <2>2. b \in 0..StackSize
    BY <1>1, <1>4, <1>7
  <2>3. c \in 0..StackSize
    <3>1. y \in 0..StackSize
      BY <1>1, <1>7
    <3>2. QED
      BY <3>1, <1>4
  <2>4. QED
    BY <2>1, <2>2, <2>3
<1>10. c * 1 = c
  BY <1>4, <1>7
<1>11. QED
  BY <1>2, <1>6, <1>8, <1>9, <1>10

\* One list followed by another, as the full stacks are by the rest of the change.
Joined(S, f, b, r) ==
  /\ r \in Seq(S) /\ Len(r) = Len(f) + Len(b)
  /\ \A i \in 1..(Len(f) + Len(b)) : r[i] = IF i <= Len(f) THEN f[i] ELSE b[i - Len(f)]

\* Concatenation does that.
LEMMA JoinedIs ==
  ASSUME NEW S, NEW f \in Seq(S), NEW b \in Seq(S)
  PROVE  Joined(S, f, b, f \o b)
BY DEF Joined

\* What addMoney() creates is worth what it was asked for.
LEMMA ChangeForIs ==
  ASSUME NEW money \in Nat, NEW new, new = ChangeFor(money)
  PROVE  new \in Seq(Cash) /\ Count(Worths(new), 1..Len(new)) = money
<1> DEFINE crystal == money \div Unit(2)
           k == crystal \div StackSize
           a == crystal % StackSize
           b == (money % Unit(2)) \div Rate
           c == money % Rate
           full == [coin |-> 2, n |-> StackSize]
           sa == [coin |-> 2, n |-> a]
           sb == [coin |-> 1, n |-> b]
           sc == [coin |-> 0, n |-> c]
           front == [i \in 1..k |-> full]
           back == <<sa, sb, sc>>
           w == Worths(new)
<1>1. new = front \o back
  BY DEF ChangeFor
<1>2. /\ k \in Nat /\ a \in 0..StackSize /\ b \in 0..StackSize /\ c \in 0..StackSize
      /\ k * (StackSize * Unit(2)) + a * Unit(2) + b * Unit(1) + c * Unit(0) = money
  BY ChangeSums
<1> HIDE DEF crystal, k, a, b, c
<1>3. full \in Cash /\ sa \in Cash /\ sb \in Cash /\ sc \in Cash
  BY <1>2, BankAssumption DEF Cash, Coins
<1>4. /\ Worth(full) = StackSize * Unit(2) /\ Worth(sa) = a * Unit(2) /\ Worth(sb) = b * Unit(1)
      /\ Worth(sc) = c * Unit(0)
  BY DEF Worth
<1> HIDE DEF full, sa, sb, sc
<1>5. front \in Seq(Cash) /\ Len(front) = k /\ \A i \in 1..k : front[i] = full
  BY <1>2, <1>3
<1>6. back \in Seq(Cash) /\ Len(back) = 3 /\ back[1] = sa /\ back[2] = sb /\ back[3] = sc
  BY <1>3
<1> HIDE DEF front, back
<1>7. /\ new \in Seq(Cash) /\ Len(new) = k + 3 /\ (\A i \in 1..k : new[i] = full)
      /\ new[k + 1] = sa /\ new[k + 2] = sb /\ new[k + 3] = sc
  <2>0. Joined(Cash, front, back, new)
    BY <1>1, <1>5, <1>6, JoinedIs
  <2>1. new \in Seq(Cash) /\ Len(new) = k + 3
    BY <2>0, <1>5, <1>6 DEF Joined
  <2>2. \A i \in 1..(k + 3) : new[i] = IF i <= k THEN front[i] ELSE back[i - k]
    BY <2>0, <1>2, <1>5, <1>6 DEF Joined
  <2>3. \A i \in 1..k : new[i] = full
    BY <2>2, <1>2, <1>5
  <2>4. new[k + 1] = back[(k + 1) - k] /\ new[k + 2] = back[(k + 2) - k] /\ new[k + 3] = back[(k + 3) - k]
    BY <2>2, <1>2
  <2>5. (k + 1) - k = 1 /\ (k + 2) - k = 2 /\ (k + 3) - k = 3
    BY <1>2
  <2>6. QED
    BY <2>1, <2>3, <2>4, <2>5, <1>6
<1> DEFINE n == k + 3
<1>8. w \in [1..n -> Nat] /\ \A i \in 1..n : w[i] = Worth(new[i])
  BY <1>7, CashWorths
<1>9. /\ n \in Nat /\ k \in 0..n /\ (\A i \in 1..k : w[i] = Worth(full)) /\ Worth(full) \in Nat
      /\ w[k + 1] = Worth(sa) /\ w[k + 2] = Worth(sb) /\ w[k + 3] = Worth(sc)
  BY <1>2, <1>3, <1>7, <1>8, CashIs
<1> HIDE DEF w
<1>10. Count(w, 1..k) = k * Worth(full)
  BY <1>8, <1>9, CountEqual
<1>11. /\ Count(w, 1..(k + 1)) = w[k + 1] + Count(w, 1..k)
       /\ Count(w, 1..(k + 2)) = w[k + 2] + Count(w, 1..(k + 1))
       /\ Count(w, 1..(k + 3)) = w[k + 3] + Count(w, 1..(k + 2))
  <2>1. \A j \in 1..n : Count(w, 1..j) = w[j] + Count(w, 1..(j - 1))
    BY <1>8, <1>9, CountLast
  <2>2. k + 1 \in 1..n /\ k + 2 \in 1..n /\ k + 3 \in 1..n
        /\ (k + 1) - 1 = k /\ (k + 2) - 1 = k + 1 /\ (k + 3) - 1 = k + 2
    BY <1>2
  <2>3. QED
    BY <2>1, <2>2
<1>12. Worth(sa) \in Nat /\ Worth(sb) \in Nat /\ Worth(sc) \in Nat /\ Worth(full) \in Nat
  BY <1>3, CashIs
<1>13. k * Worth(full) \in Nat
  BY <1>2, <1>12
<1>14. Count(w, 1..n) = k * Worth(full) + Worth(sa) + Worth(sb) + Worth(sc)
  <2> DEFINE z == k * Worth(full)
  <2>1. Count(w, 1..k) = z /\ z \in Nat
    BY <1>10, <1>13
  <2> HIDE DEF z
  <2>2. Count(w, 1..(k + 3)) = z + Worth(sa) + Worth(sb) + Worth(sc)
    BY <2>1, <1>9, <1>11, <1>12
  <2>3. QED
    BY <2>2 DEF z
<1>15. QED
  BY <1>2, <1>4, <1>7, <1>14 DEF w

-----------------------------------------------------------------------------
(***************************************************************************)
(* addMoney(), stack by stack.                                             *)
(***************************************************************************)

\* addMoney() comes to its i-th stack.
Added(new, heavy, acc, i) == IF new[i].n = 0 THEN acc ELSE AddStack(acc, new[i], i \in heavy)

\* One more stack of the change is accounted for.
LEMMA AddedIs ==
  ASSUME NEW new \in Seq(Cash), NEW heavy, NEW i \in 1..Len(new), NEW acc \in Outcomes,
         NEW r, r = Added(new, heavy, acc, i)
  PROVE  r \in Outcomes /\ Total(r) = Total(acc) + Worth(new[i]) /\ Lengthened(acc.q, r.q)
<1> DEFINE s == new[i]
           h == i \in heavy
<1>1. s \in Cash
  OBVIOUS
<1>2. r = IF s.n = 0 THEN acc ELSE AddStack(acc, s, h)
  BY DEF Added
<1> HIDE DEF s, h
<1>3. Worth(s) \in Nat /\ (s.n = 0 => Worth(s) = 0) /\ (s.n # 0 => s \in Stacks)
  BY <1>1, CashIs
<1>4. CASE s.n = 0
  <2>1. acc.q \in Seq(Stacks) /\ acc.floor \in Nat /\ acc.gone \in Nat
    BY DEF Outcomes
  <2>2. Total(acc) \in Nat
    BY <2>1, PurseIs DEF Total
  <2>3. r = acc
    BY <1>2, <1>4
  <2>4. QED
    BY <2>1, <2>2, <2>3, <1>3, <1>4, LengthenedSame DEF s
<1>5. CASE s.n # 0
  <2>1. r = AddStack(acc, s, h)
    BY <1>2, <1>5
  <2>2. QED
    BY <2>1, <1>3, <1>5, AddStackIs DEF s
<1>6. QED
  BY <1>4, <1>5

\* The recursive function of AddMoney obeys its definition.
LEMMA AddMoneyUnfolds ==
  ASSUME NEW q \in Seq(Stacks), Len(q) <= PurseSize, NEW money, NEW heavy,
         NEW new \in Seq(Cash), new = ChangeFor(money)
  PROVE  \E f \in [0..Len(new) -> Outcomes] :
           /\ f[0] = [q |-> q, floor |-> 0, gone |-> 0]
           /\ \A i \in 1..Len(new) : f[i] = Added(new, heavy, f[i - 1], i)
           /\ AddMoney(q, money, heavy) = f[Len(new)]
<1> DEFINE N == Len(new)
           start == [q |-> q, floor |-> 0, gone |-> 0]
           Rule(f) == f = [i \in 0..N |-> IF i = 0 THEN start
                             ELSE IF new[i].n = 0 THEN f[i - 1]
                             ELSE AddStack(f[i - 1], new[i], i \in heavy)]
           added == CHOOSE f : Rule(f)
           U == Outcomes
           step == [i \in 1..N |-> [a \in U |-> Added(new, heavy, a, i)]]
<1>1. N \in Nat
  OBVIOUS
<1>2. AddMoney(q, money, heavy) = added[N]
  BY DEF AddMoney
<1>3. start \in U
  BY DEF Outcomes
<1>4. \A i \in 1..N, a \in U : Added(new, heavy, a, i) \in U
  BY AddedIs
<1>5. step \in [1..N -> [U -> U]]
  BY <1>4
<1>6. \A i \in 1..N, a \in U : step[i][a] = Added(new, heavy, a, i)
  OBVIOUS
<1> HIDE DEF U, N, step, start
<1>7. PICK f \in [0..N -> U] : IsRun(f, N, start, step)
  BY <1>1, <1>3, <1>5, Recursion
<1>8. f[0] = start /\ \A i \in 1..N : f[i] = Added(new, heavy, f[i - 1], i)
  BY <1>1, <1>6, <1>7 DEF IsRun
<1>9. Rule(f)
  <2>1. \A i \in 0..N : f[i] = IF i = 0 THEN start
                             ELSE IF new[i].n = 0 THEN f[i - 1]
                             ELSE AddStack(f[i - 1], new[i], i \in heavy)
    BY <1>1, <1>8 DEF Added
  <2>2. QED
    BY <2>1, <1>7
<1>10. Rule(added)
  <2> HIDE DEF Rule
  <2>1. QED
    BY <1>9
<1>11. added = f
  <2>1. \A i \in 0..N : added[i] = IF i = 0 THEN start
                                   ELSE IF new[i].n = 0 THEN added[i - 1]
                                   ELSE AddStack(added[i - 1], new[i], i \in heavy)
    <3> HIDE DEF added
    <3>1. QED
      BY <1>10
  <2>2. added = [i \in 0..N |-> added[i]]
    <3> HIDE DEF added
    <3>1. QED
      BY <1>10
  <2> DEFINE G == {i \in 0..N : added[i] = f[i]}
  <2> HIDE DEF added
  <2>3. 0 \in G
    BY <2>1, <1>1, <1>8
  <2>4. ASSUME NEW i \in 1..N, i - 1 \in G PROVE i \in G
    <3>1. i \in 0..N /\ i # 0 /\ added[i - 1] = f[i - 1]
      BY <2>4, <1>1
    <3>2. added[i] = Added(new, heavy, added[i - 1], i)
      BY <3>1, <2>1 DEF Added
    <3>3. f[i] = Added(new, heavy, f[i - 1], i)
      BY <1>8
    <3>4. QED
      BY <3>1, <3>2, <3>3
  <2>5. G \in SUBSET (0..N)
    OBVIOUS
  <2> HIDE DEF G
  <2>6. G = 0..N
    BY <1>1, <2>3, <2>4, <2>5, NatInduct
  <2>7. \A i \in 0..N : added[i] = f[i]
    BY <2>6 DEF G
  <2>8. QED
    BY <2>2, <2>7, <1>7
<1>12. AddMoney(q, money, heavy) = f[N]
  BY <1>2, <1>11
<1>13. QED
  BY <1>7, <1>8, <1>12 DEF N, U, start

\* addMoney() accounts for the sum it is asked for, and no stack of the purse loses
\* coins or changes its place from the end.
LEMMA AddMoneyIs ==
  ASSUME NEW q \in Seq(Stacks), Len(q) <= PurseSize, NEW money \in Nat, NEW heavy,
         NEW acc, acc = AddMoney(q, money, heavy)
  PROVE  acc \in Outcomes /\ Total(acc) = Money(q) + money /\ Lengthened(q, acc.q)
<1> DEFINE new == ChangeFor(money)
           N == Len(new)
           w == Worths(new)
<1>1. new \in Seq(Cash) /\ Count(w, 1..N) = money
  BY ChangeForIs
<1>2. N \in Nat /\ w \in [1..N -> Nat] /\ \A i \in 1..N : w[i] = Worth(new[i])
  BY <1>1, CashWorths
<1>3. PICK f \in [0..N -> Outcomes] :
        /\ f[0] = [q |-> q, floor |-> 0, gone |-> 0]
        /\ \A i \in 1..N : f[i] = Added(new, heavy, f[i - 1], i)
        /\ acc = f[N]
  <2> HIDE DEF new
  <2>1. new = ChangeFor(money)
    BY DEF new
  <2>2. QED
    BY <1>1, <2>1, AddMoneyUnfolds
<1> DEFINE G == {i \in 0..N : Total(f[i]) = Money(q) + Count(w, 1..i) /\ Lengthened(q, f[i].q)}
<1> HIDE DEF new, N, w
<1>4. Money(q) \in Nat
  BY PurseIs
<1>5. 0 \in G
  <2>1. f[0].q = q /\ f[0].floor = 0 /\ f[0].gone = 0
    BY <1>3
  <2>2. Total(f[0]) = Money(q)
    BY <2>1, <1>4 DEF Total
  <2>3. 1..0 = {}
    OBVIOUS
  <2>4. Count(w, 1..0) = 0
    BY <2>3, CountEmpty
  <2>5. QED
    BY <2>1, <2>2, <2>4, <1>2, <1>4, LengthenedSame
<1>6. ASSUME NEW i \in 1..N, i - 1 \in G PROVE i \in G
  <2> DEFINE a == f[i - 1]
             b == f[i]
             before == Count(w, 1..(i - 1))
  <2>1. i - 1 \in 0..N /\ i \in 0..N
    BY <1>2
  <2>2. a \in Outcomes /\ b \in Outcomes /\ b = Added(new, heavy, a, i)
    BY <2>1, <1>3
  <2>3. Total(a) = Money(q) + before /\ Lengthened(q, a.q)
    BY <1>6
  <2>4. i \in 1..Len(new)
    BY DEF N
  <2> HIDE DEF a, b
  <2>5. Total(b) = Total(a) + Worth(new[i]) /\ Lengthened(a.q, b.q)
    BY <2>2, <2>4, <1>1, AddedIs
  <2>6. Count(w, 1..i) = w[i] + before /\ w[i] = Worth(new[i])
    BY <1>2, CountLast
  <2>7. before \in Nat /\ w[i] \in Nat
    <3>1. IsFiniteSet(1..N) /\ 1..(i - 1) \in SUBSET (1..N)
      BY <1>2, FS_Interval
    <3>2. QED
      BY <3>1, <1>2, CountFinite
  <2>8. a.q \in Seq(Stacks) /\ b.q \in Seq(Stacks)
    BY <2>2 DEF Outcomes
  <2>9. Lengthened(q, b.q)
    BY <2>3, <2>5, <2>8, LengthenedFurther
  <2> HIDE DEF before
  <2>10. Total(b) = Money(q) + Count(w, 1..i)
    BY <2>3, <2>5, <2>6, <2>7, <1>4
  <2>11. QED
    BY <2>1, <2>9, <2>10 DEF b
<1>7. G \in SUBSET (0..N)
  OBVIOUS
<1> HIDE DEF G
<1>8. G = 0..N
  BY <1>2, <1>5, <1>6, <1>7, NatInduct
<1>9. N \in 0..N
  BY <1>2
<1>10. Total(f[N]) = Money(q) + Count(w, 1..N) /\ Lengthened(q, f[N].q)
  BY <1>8, <1>9 DEF G
<1>11. QED
  BY <1>1, <1>3, <1>9, <1>10 DEF N, w

-----------------------------------------------------------------------------
(***************************************************************************)
(* The order in which removeMoney() takes the stacks: the ones that go     *)
(* whole are the cheapest, and at most one is split.                       *)
(***************************************************************************)

\* C gives the elements before each one in an order of all of them by f.
Ranked(S, f, C) ==
  /\ IsFiniteSet(S) /\ f \in [S -> Nat] /\ C \in [S -> SUBSET S]
  /\ \A x \in S : f[x] # 0 /\ x \notin C[x]
  /\ \A x, y \in S : x # y => x \in C[y] \/ y \in C[x]
  /\ \A x, y \in S : x \in C[y] => C[x] \in SUBSET C[y]

\* What comes before an element, and the element, is worth no more than what comes
\* before a later one.
LEMMA RankedBefore ==
  ASSUME NEW S, NEW f, NEW C, Ranked(S, f, C)
  PROVE  /\ Count(f, {}) = 0 /\ \A s \in SUBSET S : Count(f, s) \in Nat /\ Count(f, s) <= Count(f, S)
         /\ \A x \in S : /\ Count(f, C[x]) \in Nat /\ f[x] \in Nat /\ f[x] # 0
                         /\ C[x] \cup {x} \in SUBSET S
                         /\ Count(f, C[x] \cup {x}) = Count(f, C[x]) + f[x]
         /\ \A x, y \in S : x \in C[y] => Count(f, C[x]) + f[x] <= Count(f, C[y])
<1> USE DEF Ranked
<1>0. \A s \in SUBSET S : Count(f, s) \in Nat
  BY CountFinite
<1>1. ASSUME NEW s \in SUBSET S, NEW t \in SUBSET S, s \in SUBSET t PROVE Count(f, s) <= Count(f, t)
  <2> DEFINE r == t \ s
  <2>1. r \in SUBSET S /\ s \cap r = {} /\ s \cup r = t
    BY <1>1
  <2> HIDE DEF r
  <2>2. Count(f, t) = Count(f, s) + Count(f, r)
    BY <2>1, CountUnion
  <2>3. QED
    BY <2>1, <2>2, <1>0
<1>2. ASSUME NEW x \in S
      PROVE  C[x] \cup {x} \in SUBSET S /\ Count(f, C[x] \cup {x}) = Count(f, C[x]) + f[x]
  <2> DEFINE s == C[x] \cup {x}
  <2>1. s \in SUBSET S /\ x \in s /\ s \ {x} = C[x]
    OBVIOUS
  <2> HIDE DEF s
  <2>2. Count(f, s) = f[x] + Count(f, s \ {x})
    BY <2>1, CountSplit
  <2>3. Count(f, C[x]) \in Nat /\ f[x] \in Nat
    BY <1>0
  <2>4. QED
    BY <2>1, <2>2, <2>3 DEF s
<1>3. ASSUME NEW x \in S, NEW y \in S, x \in C[y] PROVE Count(f, C[x]) + f[x] <= Count(f, C[y])
  <2>1. C[x] \cup {x} \in SUBSET C[y] /\ C[y] \in SUBSET S
    BY <1>3
  <2> DEFINE s == C[x] \cup {x}
             t == C[y]
  <2>2. s \in SUBSET S /\ t \in SUBSET S /\ s \in SUBSET t /\ Count(f, s) = Count(f, C[x]) + f[x]
    BY <2>1, <1>2
  <2> HIDE DEF s, t
  <2>3. Count(f, s) <= Count(f, t)
    BY <2>2, <1>1
  <2>4. QED
    BY <2>2, <2>3 DEF t
<1>4. S \in SUBSET S /\ \A x \in S : C[x] \in SUBSET S /\ f[x] \in Nat /\ f[x] # 0
  OBVIOUS
<1>5. \A s \in SUBSET S : Count(f, s) <= Count(f, S)
  BY <1>1, <1>4
<1>6. \A x \in S : Count(f, C[x]) \in Nat
  BY <1>0, <1>4
<1>7. QED
  BY <1>0, <1>2, <1>3, <1>4, <1>5, <1>6, CountEmpty

\* A set that holds what comes before its elements ends with one of them.
LEMMA RankedLast ==
  ASSUME NEW S, NEW f, NEW C, Ranked(S, f, C), NEW T \in SUBSET S, T # {}, \A x \in T : C[x] \in SUBSET T
  PROVE  \E c \in T : Count(f, T) = Count(f, C[c]) + f[c]
<1> DEFINE N == Count(f, S)
           B(x) == Count(f, C[x])
           D == {N - B(x) : x \in T}
<1>1. N \in Nat /\ \A x \in S : B(x) \in Nat /\ B(x) <= N
  BY RankedBefore DEF Ranked
<1>2. D \in SUBSET Nat /\ D # {}
  BY <1>1
<1>3. PICK m \in D : \A n \in D : m <= n
  BY <1>2, LeastOf
<1>4. PICK c \in T : m = N - B(c)
  BY <1>3
<1>5. \A x \in T : B(x) <= B(c)
  <2> TAKE x \in T
  <2>1. N - B(x) \in D
    OBVIOUS
  <2>2. N - B(c) <= N - B(x)
    BY <2>1, <1>3, <1>4
  <2>3. QED
    BY <2>2, <1>1
<1>6. \A x \in T : x # c => x \in C[c]
  <2> SUFFICES ASSUME NEW x \in T, x # c, c \in C[x] PROVE FALSE
    BY DEF Ranked
  <2>1. B(c) + f[c] <= B(x) /\ f[c] \in Nat /\ f[c] # 0 /\ B(c) \in Nat /\ B(x) \in Nat
    BY RankedBefore
  <2>2. B(x) <= B(c)
    BY <1>5
  <2> HIDE DEF B
  <2>3. QED
    BY <2>1, <2>2
<1>7. T = C[c] \cup {c}
  BY <1>6
<1>8. QED
  BY <1>7, RankedBefore

\* What is paid whole for m.
Wholes(S, f, C, m) == {x \in S : Count(f, C[x]) + f[x] <= m}

\* What is paid whole is what comes before the one that is split; when none is, it
\* is worth exactly what is to be paid.
LEMMA RankedWhole ==
  ASSUME NEW S, NEW f, NEW C, Ranked(S, f, C), NEW m \in Nat, m <= Count(f, S),
         NEW W, W = Wholes(S, f, C, m)
  PROVE  /\ \A y \in S : Count(f, C[y]) < m /\ y \notin W => W = C[y]
         /\ (\A y \in S \ W : ~(Count(f, C[y]) < m)) => Count(f, W) = m
<1> DEFINE B(x) == Count(f, C[x])
<1>1. \A x \in S : B(x) \in Nat /\ f[x] \in Nat /\ f[x] # 0
  BY RankedBefore
<1>2. \A x, y \in S : x \in C[y] => B(x) + f[x] <= B(y)
  BY RankedBefore
<1>3. \A x \in S : x \in W <=> B(x) + f[x] <= m
  BY DEF Wholes
<1>4. W \in SUBSET S /\ \A x \in S : C[x] \in SUBSET S
  BY DEF Ranked, Wholes
<1>s. \A x, y \in S : x # y => x \in C[y] \/ y \in C[x]
  BY DEF Ranked
<1>d. \A x \in S : x \notin C[x]
  BY DEF Ranked
<1> HIDE DEF B
<1>5. ASSUME NEW x \in S, NEW y \in W, x \in C[y] PROVE x \in W
  <2>1. B(x) + f[x] <= B(y) /\ B(y) + f[y] <= m
    BY <1>2, <1>3, <1>4, <1>5
  <2>2. QED
    BY <2>1, <1>1, <1>3, <1>4
<1>6. ASSUME NEW y \in S, y \notin W PROVE W \in SUBSET C[y]
  BY <1>5, <1>6, <1>s, <1>4
<1>7. ASSUME NEW y \in S, B(y) < m, y \notin W PROVE W = C[y]
  <2>1. ASSUME NEW x \in C[y] PROVE x \in W
    <3>1. x \in S
      BY <1>4
    <3>2. B(x) + f[x] <= B(y)
      BY <1>2, <3>1
    <3>3. QED
      BY <3>1, <3>2, <1>1, <1>3, <1>7
  <2>2. QED
    BY <2>1, <1>6, <1>7
<1>8. Count(f, W) \in Nat /\ Count(f, W) <= m
  <2>1. Count(f, W) \in Nat
    BY <1>4, RankedBefore
  <2>2. CASE W = {}
    BY <2>1, <2>2, CountEmpty
  <2>3. CASE W # {}
    <3>1. \A x \in W : C[x] \in SUBSET W
      BY <1>4, <1>5
    <3>2. PICK c \in W : Count(f, W) = Count(f, C[c]) + f[c]
      <4>1. \A T \in SUBSET S : T # {} /\ (\A x \in T : C[x] \in SUBSET T)
                               => \E c \in T : Count(f, T) = Count(f, C[c]) + f[c]
        BY RankedLast
      <4>2. W \in SUBSET S
        BY <1>4
      <4>3. QED
        BY <4>1, <4>2, <2>3, <3>1, Zenon
    <3>3. Count(f, W) = B(c) + f[c]
      BY <3>2 DEF B
    <3>4. QED
      BY <2>1, <3>3, <1>3, <1>4
  <2>4. QED
    BY <2>2, <2>3
<1>9. ASSUME \A y \in S \ W : ~(B(y) < m) PROVE Count(f, W) = m
  <2>1. CASE W = S
    BY <2>1, <1>8
  <2>2. CASE W # S
    <3> DEFINE D == {B(x) : x \in S \ W}
    <3>1. D \in SUBSET Nat /\ D # {}
      BY <2>2, <1>1, <1>4
    <3>2. PICK k \in D : \A n \in D : k <= n
      BY <3>1, LeastOf
    <3>3. PICK b \in S \ W : k = B(b)
      BY <3>2
    <3>4. \A x \in S \ W : B(b) <= B(x)
      BY <3>2, <3>3
    <3>5. ASSUME NEW x \in C[b] PROVE x \in W
      <4>1. x \in S
        BY <1>4
      <4>2. B(x) + f[x] <= B(b)
        BY <1>2, <4>1
      <4>3. x \notin W => B(b) <= B(x)
        BY <3>4, <4>1
      <4>4. QED
        BY <4>1, <4>2, <4>3, <1>1
    <3>6. W = C[b]
      BY <3>5, <1>6
    <3>7. Count(f, W) = B(b)
      BY <3>6 DEF B
    <3>8. B(b) >= m
      BY <1>1, <1>9
    <3>9. QED
      BY <3>7, <3>8, <1>8
  <2>3. QED
    BY <2>1, <2>2
<1>10. QED
  BY <1>7, <1>9 DEF B

\* Such is the order of moneyMap.
LEMMA CheaperRanks ==
  ASSUME NEW q \in Seq(Stacks)
  PROVE  /\ Ranked(1..Len(q), Worths(q), [i \in 1..Len(q) |-> Cheaper(q, i)])
         /\ \A i \in 1..Len(q) : MoneyBefore(q, i) = Count(Worths(q), Cheaper(q, i))
<1> DEFINE S == 1..Len(q)
           f == Worths(q)
           C == [i \in S |-> Cheaper(q, i)]
<1>1. DOMAIN q = S /\ IsFiniteSet(S) /\ f \in [S -> Nat] /\ \A i \in S : q[i] \in Stacks /\ f[i] = Worth(q[i])
  BY PurseIs
<1>2. \A i \in S : f[i] # 0
  BY <1>1, StackIs
<1>3. \A i \in S : Cheaper(q, i) = {j \in S : f[j] < f[i] \/ (f[j] = f[i] /\ j < i)}
  BY <1>1 DEF Cheaper
<1>4. \A i \in S : C[i] = Cheaper(q, i)
  OBVIOUS
<1>5. S \in SUBSET Int /\ \A i \in S : f[i] \in Int
  BY <1>1
<1>6. \A i, j \in S : j \in C[i] <=> f[j] < f[i] \/ (f[j] = f[i] /\ j < i)
  BY <1>3, <1>4
<1>7. C \in [S -> SUBSET S]
  BY <1>3
<1> HIDE DEF S, f, C
<1>8. \A x, y \in S : x # y => x \in C[y] \/ y \in C[x]
  BY <1>5, <1>6
<1>9. \A x \in S : x \notin C[x]
  BY <1>5, <1>6
<1>10. ASSUME NEW x \in S, NEW y \in S, x \in C[y] PROVE C[x] \in SUBSET C[y]
  <2>1. ASSUME NEW z \in C[x] PROVE z \in C[y]
    <3>1. z \in S
      BY <1>7
    <3>2. z \in Int /\ x \in Int /\ y \in Int /\ f[z] \in Int /\ f[x] \in Int /\ f[y] \in Int
      BY <3>1, <1>5
    <3>3. (f[z] < f[x] \/ (f[z] = f[x] /\ z < x)) /\ (f[x] < f[y] \/ (f[x] = f[y] /\ x < y))
      BY <3>1, <2>1, <1>6, <1>10
    <3>4. f[z] < f[y] \/ (f[z] = f[y] /\ z < y)
      BY <3>2, <3>3
    <3>5. QED
      BY <3>1, <3>4, <1>6
  <2>2. QED
    BY <2>1
<1>11. Ranked(S, f, C)
  BY <1>1, <1>2, <1>7, <1>8, <1>9, <1>10 DEF Ranked
<1>12. ASSUME NEW i \in S PROVE MoneyBefore(q, i) = Count(f, Cheaper(q, i))
  <2> DEFINE s == Cheaper(q, i)
  <2>1. s \in SUBSET S
    BY <1>3
  <2>2. [j \in s |-> Worth(q[j])] = [j \in s |-> f[j]]
    BY <2>1, <1>1
  <2>3. MoneyBefore(q, i) = SumFunction([j \in s |-> f[j]])
    BY <2>2 DEF MoneyBefore
  <2> HIDE DEF s
  <2>4. SumFunction([j \in s |-> f[j]]) = Count(f, s)
    BY <2>1, <1>1, SumOn
  <2>5. QED
    BY <2>3, <2>4 DEF s
<1>13. QED
  BY <1>11, <1>12 DEF S, f, C

-----------------------------------------------------------------------------
(***************************************************************************)
(* Coins are taken from a stack.                                           *)
(***************************************************************************)

\* r is q without its i-th stack.
WithoutStack(q, i, r) ==
  /\ q \in Seq(Stacks) /\ r \in Seq(Stacks) /\ i \in 1..Len(q) /\ Len(r) = Len(q) - 1
  /\ \A j \in 1..Len(r) : r[j] = IF j < i THEN q[j] ELSE q[j + 1]

\* RemoveAt() of the library does that.
LEMMA RemoveAtIs ==
  ASSUME NEW q \in Seq(Stacks), NEW i \in 1..Len(q)
  PROVE  WithoutStack(q, i, RemoveAt(q, i))
<1> DEFINE a == SubSeq(q, 1, i - 1)
           b == SubSeq(q, i + 1, Len(q))
           n == Len(q)
           r == a \o b
<1>1. n \in Nat /\ i \in Nat /\ 1 <= i /\ i <= n
  OBVIOUS
<1>2. a \in Seq(Stacks) /\ Len(a) = i - 1 /\ \A j \in 1..(i - 1) : a[j] = q[j]
  BY <1>1
<1>3. b \in Seq(Stacks) /\ Len(b) = n - i /\ \A j \in 1..(n - i) : b[j] = q[j + i]
  BY <1>1
<1> HIDE DEF a, b, n
<1>4. r \in Seq(Stacks) /\ Len(r) = n - 1
  <2>1. r \in Seq(Stacks) /\ Len(r) = Len(a) + Len(b)
    BY <1>2, <1>3, ConcatProperties
  <2>2. Len(a) + Len(b) = n - 1
    BY <1>1, <1>2, <1>3
  <2>3. QED
    BY <2>1, <2>2
<1>5. \A j \in 1..(n - 1) : r[j] = IF j < i THEN a[j] ELSE b[j - (i - 1)]
  <2>1. Len(a) + Len(b) = n - 1
    BY <1>1, <1>2, <1>3
  <2>2. \A j \in 1..(Len(a) + Len(b)) : r[j] = IF j <= Len(a) THEN a[j] ELSE b[j - Len(a)]
    BY <1>2, <1>3, ConcatProperties
  <2>3. \A j \in 1..(n - 1) : j <= i - 1 <=> j < i
    BY <1>1
  <2>4. QED
    BY <2>1, <2>2, <2>3, <1>2
<1>6. ASSUME NEW j \in 1..(n - 1) PROVE r[j] = IF j < i THEN q[j] ELSE q[j + 1]
  <2>1. CASE j < i
    <3>1. j \in 1..(i - 1)
      BY <2>1, <1>1
    <3>2. QED
      BY <2>1, <3>1, <1>2, <1>5
  <2>2. CASE ~(j < i)
    <3>1. j - (i - 1) \in 1..(n - i) /\ (j - (i - 1)) + i = j + 1
      BY <2>2, <1>1
    <3>2. b[j - (i - 1)] = q[j + 1]
      BY <3>1, <1>3
    <3>3. QED
      BY <2>2, <3>2, <1>5
  <2>3. QED
    BY <2>1, <2>2
<1>7. RemoveAt(q, i) = r
  BY DEF RemoveAt, a, b, n
<1> HIDE DEF r
<1>8. QED
  BY <1>4, <1>6, <1>7 DEF WithoutStack, n

\* The purse loses the worth of the stack.
LEMMA MoneyWithout ==
  ASSUME NEW q, NEW i, NEW r, WithoutStack(q, i, r)
  PROVE  Money(q) = Money(r) + Worth(q[i])
<1> DEFINE g == [j \in 1..Len(r) |-> IF j < i THEN j ELSE j + 1]
           S == 1..Len(q)
           R == S \ {i}
           w == Worths(q)
<1>1. q \in Seq(Stacks) /\ r \in Seq(Stacks) /\ i \in S /\ Len(r) = Len(q) - 1 /\ Len(q) \in Nat /\ Len(r) \in Nat
  BY DEF WithoutStack
<1>2. Sublist(q, r, g, R)
  <2>1. /\ g \in [1..Len(r) -> 1..Len(q)] /\ (\A j, k \in 1..Len(r) : g[j] = g[k] => j = k)
        /\ R \in SUBSET (1..Len(q))
    BY <1>1
  <2>2. \A j \in 1..Len(r) : r[j] = q[g[j]] /\ g[j] \in R
    BY <1>1 DEF WithoutStack
  <2>3. \A s \in R : \E j \in 1..Len(r) : g[j] = s
    <3>1. ASSUME NEW s \in R, s < i PROVE s \in 1..Len(r) /\ g[s] = s
      BY <1>1, <3>1
    <3>2. ASSUME NEW s \in R, ~(s < i) PROVE s - 1 \in 1..Len(r) /\ g[s - 1] = s
      BY <1>1, <3>2
    <3>3. QED
      BY <3>1, <3>2
  <2> HIDE DEF g, R
  <2>4. QED
    BY <1>1, <2>1, <2>2, <2>3 DEF Sublist
<1> HIDE DEF g, R
<1>4. Money(r) = Count(w, R)
  BY <1>2, MoneyPart
<1>5. IsFiniteSet(S) /\ w \in [S -> Nat] /\ w[i] = Worth(q[i]) /\ Money(q) = Count(w, S) /\ w[i] \in Nat
  BY <1>1, PurseIs
<1>6. Money(r) \in Nat
  BY <1>1, PurseIs
<1>7. i \in S
  BY <1>1
<1> HIDE DEF w, S
<1>8. \A T : IsFiniteSet(T) => \A y \in T : \A f \in [T -> Nat] : Count(f, T) = f[y] + Count(f, T \ {y})
  BY CountSplit
<1>9. Count(w, S) = w[i] + Count(w, S \ {i})
  BY <1>5, <1>7, <1>8, Zenon
<1>10. QED
  BY <1>4, <1>5, <1>6, <1>9 DEF R

\* r is q with fewer coins in its i-th stack.
Fewer(q, i, k, r) ==
  /\ q \in Seq(Stacks) /\ r \in Seq(Stacks) /\ i \in 1..Len(q) /\ Len(r) = Len(q) /\ k \in Nat
  /\ \A j \in 1..Len(q) : j # i => r[j] = q[j]
  /\ r[i].coin = q[i].coin /\ r[i].n = q[i].n - k

\* The purse loses the worth of the coins.
LEMMA MoneyFewer ==
  ASSUME NEW q, NEW i, NEW k, NEW r, Fewer(q, i, k, r)
  PROVE  Money(q) = Money(r) + k * Unit(q[i].coin)
<1> DEFINE S == 1..Len(q)
           f == Worths(q)
           h == Worths(r)
           u == Unit(q[i].coin)
           m == q[i].n
           a == f[i]
           b == h[i]
<1>1. q \in Seq(Stacks) /\ r \in Seq(Stacks) /\ i \in S /\ Len(r) = Len(q) /\ k \in Nat
  BY DEF Fewer
<1>2. /\ IsFiniteSet(S) /\ f \in [S -> Nat] /\ (\A j \in S : f[j] = Worth(q[j]) /\ q[j] \in Stacks)
      /\ Money(q) = SumFunction(f) /\ Money(q) \in Nat
  BY <1>1, PurseIs
<1>3. /\ h \in [S -> Nat] /\ (\A j \in S : h[j] = Worth(r[j]) /\ r[j] \in Stacks)
      /\ Money(r) = SumFunction(h) /\ Money(r) \in Nat
  BY <1>1, PurseIs
<1>4. \A j \in S : j # i => h[j] = f[j]
  BY <1>2, <1>3 DEF Fewer
<1>5. a = m * u /\ b = (m - k) * u /\ m \in Nat /\ m - k \in Nat /\ u \in Nat /\ a \in Nat /\ b \in Nat
  <2>1. q[i] \in Stacks /\ r[i] \in Stacks /\ a = Worth(q[i]) /\ b = Worth(r[i])
    BY <1>1, <1>2, <1>3
  <2>2. q[i].coin \in Coins /\ m \in Nat /\ r[i].n \in Nat /\ Worth(q[i]) \in Nat /\ Worth(r[i]) \in Nat
    BY <2>1, StackIs
  <2>3. r[i].n = m - k /\ r[i].coin = q[i].coin
    BY DEF Fewer
  <2>4. u \in Nat
    BY <2>2, UnitNat
  <2>5. QED
    BY <2>1, <2>2, <2>3, <2>4 DEF Worth
<1>6. i \in S
  BY <1>1
<1> HIDE DEF S, f, h, u, m
<1>7. \A T : IsFiniteSet(T) => \A y, z \in [T -> Nat] : \A x \in T :
        (\A j \in T : j # x => z[j] = y[j]) => SumFunction(z) + y[x] = SumFunction(y) + z[x]
  BY SumChange
<1>8. SumFunction(h) + a = SumFunction(f) + b
  <2>1. IsFiniteSet(S) /\ f \in [S -> Nat] /\ h \in [S -> Nat]
    BY <1>2, <1>3
  <2>2. \A x \in S : (\A j \in S : j # x => h[j] = f[j]) => SumFunction(h) + f[x] = SumFunction(f) + h[x]
    BY <2>1, <1>7, Zenon
  <2>3. QED
    BY <2>2, <1>4, <1>6
<1> HIDE DEF a, b
<1>9. m * u = (m - k) * u + k * u /\ k * u \in Nat
  <2> DEFINE d == m - k
  <2>1. d \in Nat /\ m = d + k
    BY <1>1, <1>5
  <2> HIDE DEF d
  <2>2. (d + k) * u = d * u + k * u
    BY <2>1, <1>1, <1>5
  <2>3. k * u \in Nat
    BY <1>1, <1>5
  <2>4. QED
    BY <2>1, <2>2, <2>3 DEF d
<1> DEFINE x == k * u
           y == (m - k) * u
           z == m * u
<1>10. z = y + x /\ a = z /\ b = y /\ x \in Nat
  BY <1>5, <1>9
<1> HIDE DEF x, y, z
<1>11. Money(q) = Money(r) + x
  <2>1. Money(r) + a = Money(q) + b /\ a = b + x /\ b \in Nat
    BY <1>2, <1>3, <1>5, <1>8, <1>10
  <2>2. Money(q) \in Nat /\ Money(r) \in Nat /\ x \in Nat
    BY <1>2, <1>3, <1>10
  <2>3. QED
    BY <2>1, <2>2
<1>12. QED
  BY <1>11 DEF x, u

\* Taking coins from a stack, which may empty it, costs the purse their worth.
LEMMA TakeCoinsIs ==
  ASSUME NEW q \in Seq(Stacks), NEW i \in 1..Len(q), NEW k \in Nat, 1 <= k, k <= q[i].n,
         NEW r, r = TakeCoins(q, i, k)
  PROVE  r \in Seq(Stacks) /\ Len(r) <= Len(q) /\ Money(q) = Money(r) + k * Unit(q[i].coin)
<1>1. q[i] \in Stacks /\ Len(q) \in Nat
  OBVIOUS
<1>2. q[i].n \in Nat /\ q[i].n <= StackSize /\ StackSize \in Nat /\ q[i].coin \in Coins
  BY <1>1, StackIs
<1>3. CASE q[i].n = k
  <2>1. r = RemoveAt(q, i)
    BY <1>3 DEF TakeCoins
  <2>2. WithoutStack(q, i, r)
    BY <2>1, RemoveAtIs
  <2>3. Money(q) = Money(r) + Worth(q[i])
    BY <2>2, MoneyWithout
  <2>4. Worth(q[i]) = k * Unit(q[i].coin)
    BY <1>3 DEF Worth
  <2>5. r \in Seq(Stacks) /\ Len(r) = Len(q) - 1
    BY <2>2 DEF WithoutStack
  <2>6. QED
    BY <2>3, <2>4, <2>5, <1>1
<1>4. CASE q[i].n # k
  <2> DEFINE x == [q[i] EXCEPT !.n = @ - k]
  <2>1. r = [q EXCEPT ![i] = x]
    BY <1>4 DEF TakeCoins
  <2>2. x.coin = q[i].coin /\ x.n = q[i].n - k /\ x \in Stacks
    BY <1>1, <1>2, <1>4 DEF Stacks
  <2> HIDE DEF x
  <2>3. r \in Seq(Stacks) /\ Len(r) = Len(q) /\ r[i] = x /\ \A j \in 1..Len(q) : j # i => r[j] = q[j]
    BY <2>1, <2>2
  <2>4. Fewer(q, i, k, r)
    BY <2>2, <2>3 DEF Fewer
  <2>5. Money(q) = Money(r) + k * Unit(q[i].coin)
    BY <2>4, MoneyFewer
  <2>6. QED
    BY <2>3, <2>5, <1>1
<1>5. QED
  BY <1>3, <1>4

-----------------------------------------------------------------------------
(***************************************************************************)
(* removeMoney(): what it takes, less the change it gives, is the sum it   *)
(* is asked for.                                                           *)
(***************************************************************************)

\* The places left when W are gone.
LEMMA PlacesLeft ==
  ASSUME NEW n \in Nat, NEW W
  PROVE  LET k == Remaining([i \in 1..n |-> i], W)
         IN  k \in Seq(1..n) /\ Len(k) <= n /\ IsInjective(k) /\ Range(k) = (1..n) \ W
<1> DEFINE S == 1..n
           id == [i \in S |-> i]
           k == Remaining(id, W)
<1>1. id \in Seq(S) /\ Len(id) = n /\ IsInjective(id) /\ Range(id) = S
  BY DEF IsInjective, Range
<1> HIDE DEF id, S
<1>2. k \in Seq(S) /\ Len(k) <= Len(id) /\ IsInjective(k) /\ Range(k) = Range(id) \ W
  BY <1>1, RemainingLeaves
<1> HIDE DEF k
<1>3. k \in Seq(S) /\ Len(k) <= n /\ IsInjective(k) /\ Range(k) = S \ W
  BY <1>1, <1>2
<1>4. QED
  BY <1>3 DEF k, id, S

\* The stacks of q that are left when those at the places W are gone.
Keeps(q, W, kept, r) ==
  /\ q \in Seq(Stacks) /\ W \in SUBSET (1..Len(q))
  /\ kept = Remaining([i \in DOMAIN q |-> i], W)
  /\ r = [j \in DOMAIN kept |-> q[kept[j]]]

\* What is kept, and what it is worth.
LEMMA KeptIs ==
  ASSUME NEW q, NEW W, NEW kept, NEW r, Keeps(q, W, kept, r)
  PROVE  /\ Len(r) \in Nat /\ Len(r) <= Len(q) /\ DOMAIN kept = 1..Len(r) /\ r \in Seq(Stacks)
         /\ \A j \in 1..Len(r) : kept[j] \in (1..Len(q)) \ W /\ r[j] = q[kept[j]]
         /\ \A s \in (1..Len(q)) \ W : \E j \in 1..Len(r) : kept[j] = s
         /\ Count(Worths(q), W) \in Nat /\ Money(q) = Money(r) + Count(Worths(q), W)
<1> DEFINE S == 1..Len(q)
           R == S \ W
           n == Len(kept)
           w == Worths(q)
<1>0. q \in Seq(Stacks) /\ Len(q) \in Nat /\ DOMAIN q = S /\ W \in SUBSET S
  BY DEF Keeps
<1>1. kept = Remaining([i \in S |-> i], W)
  BY <1>0 DEF Keeps
<1>3. kept \in Seq(S) /\ Len(kept) <= Len(q) /\ IsInjective(kept) /\ Range(kept) = R
  BY <1>0, <1>1, PlacesLeft
<1>4. n \in Nat /\ DOMAIN kept = 1..n /\ kept \in [1..n -> S]
  <2> HIDE DEF S
  <2>1. QED
    BY <1>3
<1>5. /\ \A j \in 1..n : kept[j] \in R
      /\ \A s \in R : \E j \in 1..n : kept[j] = s
      /\ \A j, k \in 1..n : kept[j] = kept[k] => j = k
  BY <1>3, <1>4 DEF Range, IsInjective
<1>6. r = [j \in 1..n |-> q[kept[j]]] /\ \A j \in 1..n : q[kept[j]] \in Stacks
  BY <1>0, <1>4 DEF Keeps
<1>7. r \in Seq(Stacks) /\ Len(r) = n /\ \A j \in 1..n : r[j] = q[kept[j]]
  BY <1>4, <1>6
<1> HIDE DEF n, R
<1>8. R \in SUBSET S /\ W \in SUBSET S /\ W \cap R = {} /\ W \cup R = S
  BY <1>0 DEF R
<1>9. Sublist(q, r, kept, R)
  BY <1>0, <1>4, <1>5, <1>7, <1>8 DEF Sublist
<1>10. Money(r) = Count(w, R) /\ Money(r) \in Nat
  BY <1>7, <1>9, MoneyPart, PurseIs
<1>11. IsFiniteSet(S) /\ w \in [S -> Nat] /\ Money(q) = Count(w, S)
  BY <1>0, PurseIs
<1> HIDE DEF S, w
<1>12. Count(w, W \cup R) = Count(w, W) + Count(w, R) /\ Count(w, W) \in Nat
  BY <1>8, <1>11, CountUnion, CountFinite
<1>13. Money(q) = Money(r) + Count(w, W)
  <2>1. Count(w, W \cup R) = Count(w, S)
    BY <1>8
  <2>2. QED
    BY <2>1, <1>10, <1>11, <1>12
<1>14. QED
  BY <1>3, <1>4, <1>5, <1>7, <1>12, <1>13 DEF n, R, S, w

\* The split of the stack b, of which rest is to be paid.
Splits(q, b, rest, heavy, unit, count, acc, r) ==
  /\ unit = Unit(q[b].coin)
  /\ count = RemoveCount(rest, unit)
  /\ acc = AddMoney(q, count * unit - rest, heavy)
  /\ r = [acc EXCEPT !.q = TakeCoins(@, b + Len(@) - Len(q), count)]

\* The change for the coins taken from that stack comes back, so the purse loses rest.
LEMMA SplitIs ==
  ASSUME NEW q \in Seq(Stacks), Len(q) <= PurseSize, NEW b \in 1..Len(q), NEW rest \in Nat, rest # 0,
         rest < Worth(q[b]), NEW heavy, NEW unit, NEW count, NEW acc, NEW r,
         Splits(q, b, rest, heavy, unit, count, acc, r)
  PROVE  r \in Outcomes /\ Total(r) = Money(q) - rest
<1> DEFINE n == q[b].n
           p == count * unit
           change == p - rest
           i == b + Len(acc.q) - Len(q)
           t == TakeCoins(acc.q, i, count)
<1>1. q[b] \in Stacks /\ n \in Nat /\ unit \in Nat /\ unit # 0 /\ Worth(q[b]) = n * unit /\ Worth(q[b]) \in Nat
  BY StackIs, UnitNat DEF Worth, Splits
<1>2. rest <= n * unit
  BY <1>1
<1>3. count \in Nat /\ 1 <= count /\ count <= n /\ rest <= p /\ p \in Nat
  <2> HIDE DEF n
  <2>1. QED
    BY <1>1, <1>2, RemoveCountIs DEF Splits
<1> HIDE DEF n, p
<1>4. change \in Nat
  BY <1>3
<1>5. acc = AddMoney(q, change, heavy)
  BY DEF p, Splits
<1>6. change + rest = p
  BY <1>3
<1> HIDE DEF change
<1>7. acc \in Outcomes /\ Total(acc) = Money(q) + change /\ Lengthened(q, acc.q)
  BY <1>4, <1>5, AddMoneyIs
<1>8. acc.q \in Seq(Stacks) /\ acc.floor \in Nat /\ acc.gone \in Nat /\ Len(acc.q) <= PurseSize
  BY <1>7 DEF Outcomes
<1>9. i \in 1..Len(acc.q) /\ acc.q[i].coin = q[b].coin /\ acc.q[i].n >= n
  <2>1. Len(q) \in Nat /\ Len(acc.q) \in Nat /\ Len(q) <= Len(acc.q)
    BY <1>7, <1>8 DEF Lengthened
  <2>2. b + (Len(acc.q) - Len(q)) = i /\ i \in 1..Len(acc.q)
    BY <2>1
  <2>3. QED
    BY <2>2, <1>7 DEF Lengthened, n
<1>10. acc.q[i] \in Stacks /\ acc.q[i].n \in Nat
  BY <1>8, <1>9, StackIs
<1>11. count <= acc.q[i].n
  BY <1>1, <1>3, <1>9, <1>10
<1> HIDE DEF i
<1>12. t \in Seq(Stacks) /\ Len(t) <= Len(acc.q) /\ Money(acc.q) = Money(t) + p
  <2>1. t = TakeCoins(acc.q, i, count) /\ q[b].coin = acc.q[i].coin
    BY <1>9
  <2> DEFINE z == acc.q
  <2>2. z \in Seq(Stacks) /\ i \in 1..Len(z) /\ count <= z[i].n /\ t = TakeCoins(z, i, count)
    BY <1>8, <1>9, <1>11, <2>1
  <2>3. p = count * Unit(z[i].coin)
    BY <2>1 DEF p, Splits
  <2> HIDE DEF t, z
  <2>4. t \in Seq(Stacks) /\ Len(t) <= Len(z) /\ Money(z) = Money(t) + count * Unit(z[i].coin)
    BY <1>3, <2>2, TakeCoinsIs
  <2>5. QED
    BY <2>3, <2>4 DEF z
<1>13. r = [acc EXCEPT !.q = t]
  BY DEF i, Splits
<1> HIDE DEF t
<1>14. r.q = t /\ r.floor = acc.floor /\ r.gone = acc.gone /\ r \in [q : Seq(Stacks), floor : Nat, gone : Nat]
  BY <1>12, <1>13, <1>7 DEF Outcomes
<1>15. Len(t) <= PurseSize
  <2>1. Len(t) \in Nat /\ Len(acc.q) \in Nat /\ PurseSize \in Nat
    BY <1>8, <1>12, BankAssumption
  <2>2. QED
    BY <2>1, <1>8, <1>12
<1>16. Money(t) \in Nat /\ Money(acc.q) \in Nat /\ Money(q) \in Nat
  BY <1>8, <1>12, PurseIs
<1>17. Total(r) = Money(t) + acc.floor + acc.gone /\ Total(acc) = Money(acc.q) + acc.floor + acc.gone
  BY <1>14 DEF Total
<1>18. Total(r) = Money(q) - rest
  <2> DEFINE x == Money(t)
             y == Money(acc.q)
             z == acc.floor + acc.gone
             v == Money(q)
  <2>1. x \in Nat /\ y \in Nat /\ z \in Nat /\ v \in Nat /\ y = x + p /\ change + rest = p /\ change \in Nat
    BY <1>4, <1>6, <1>8, <1>12, <1>16
  <2>2. Total(r) = x + z /\ y + z = v + change
    BY <1>7, <1>8, <1>16, <1>17
  <2> HIDE DEF x, y, z, v
  <2>3. Total(r) = v - rest
    BY <2>1, <2>2
  <2>4. QED
    BY <2>3 DEF v
<1>19. QED
  BY <1>14, <1>15, <1>18 DEF Outcomes

\* removeMoney() of a sum that the purse holds accounts for all but that sum.
LEMMA RemoveMoneyIs ==
  ASSUME NEW q \in Seq(Stacks), Len(q) <= PurseSize, NEW money \in Nat, money <= Money(q), NEW heavy,
         NEW r, r = RemoveMoney(q, money, heavy)
  PROVE  r \in Outcomes /\ Total(r) = Money(q) - money
<1> DEFINE Whole(i) == MoneyBefore(q, i) + Worth(q[i]) <= money
           Split(i) == MoneyBefore(q, i) < money /\ ~Whole(i)
           W == {i \in DOMAIN q : Whole(i)}
           kept == Remaining([i \in DOMAIN q |-> i], W)
           q1 == [j \in DOMAIN kept |-> q[kept[j]]]
           b == CHOOSE j \in DOMAIN kept : Split(kept[j])
           rest == money - MoneyBefore(q, kept[b])
           unit == Unit(q1[b].coin)
           count == RemoveCount(rest, unit)
           acc == AddMoney(q1, count * unit - rest, heavy)
           all == \A j \in DOMAIN kept : ~Split(kept[j])
           S == 1..Len(q)
           f == Worths(q)
           C == [i \in S |-> Cheaper(q, i)]
<1>1. /\ all => r = [q |-> q1, floor |-> 0, gone |-> 0]
      /\ ~all => r = [acc EXCEPT !.q = TakeCoins(@, b + Len(@) - Len(q1), count)]
  BY DEF RemoveMoney
<1>2. DOMAIN q = S /\ f \in [S -> Nat] /\ Money(q) = Count(f, S) /\ Money(q) \in Nat
      /\ \A i \in S : f[i] = Worth(q[i])
  BY PurseIs
<1>3. Ranked(S, f, C) /\ \A i \in S : MoneyBefore(q, i) = Count(f, C[i])
  BY CheaperRanks
<1>4. \A i \in S : Whole(i) <=> Count(f, C[i]) + f[i] <= money
  BY <1>2, <1>3
<1>5. W = {i \in S : Count(f, C[i]) + f[i] <= money} /\ W \in SUBSET S
  BY <1>2, <1>4
<1>6. \A i \in S : Split(i) <=> Count(f, C[i]) < money /\ i \notin W
  BY <1>3, <1>2
<1> HIDE DEF S, f, C, W, Split, Whole
<1>7. \A i \in S : Count(f, C[i]) \in Nat /\ f[i] \in Nat
  BY <1>3, RankedBefore
<1>8. /\ \A y \in S : Count(f, C[y]) < money /\ y \notin W => W = C[y]
      /\ (\A y \in S \ W : ~(Count(f, C[y]) < money)) => Count(f, W) = money
  <2>1. money <= Count(f, S) /\ W = Wholes(S, f, C, money)
    BY <1>2, <1>5 DEF Wholes
  <2>2. QED
    BY <2>1, <1>3, RankedWhole
<1>9. W \in SUBSET (1..Len(q))
  BY <1>5 DEF S
<1>10. /\ Len(q1) \in Nat /\ Len(q1) <= Len(q) /\ DOMAIN kept = 1..Len(q1) /\ q1 \in Seq(Stacks)
       /\ \A j \in 1..Len(q1) : kept[j] \in S \ W /\ q1[j] = q[kept[j]]
       /\ \A s \in S \ W : \E j \in 1..Len(q1) : kept[j] = s
       /\ Count(f, W) \in Nat /\ Money(q) = Money(q1) + Count(f, W)
  <2>1. kept = Remaining([i \in DOMAIN q |-> i], W) /\ q1 = [j \in DOMAIN kept |-> q[kept[j]]]
    OBVIOUS
  <2> HIDE DEF kept, q1
  <2>2. Keeps(q, W, kept, q1)
    BY <2>1, <1>9 DEF Keeps
  <2>3. QED
    BY <2>2, KeptIs DEF S, f
<1> HIDE DEF kept, q1
<1>11. Len(q1) <= PurseSize /\ Money(q1) \in Nat
  BY <1>10, BankAssumption, PurseIs
<1>12. CASE all
  <2>1. \A y \in S \ W : ~(Count(f, C[y]) < money)
    BY <1>6, <1>10, <1>12
  <2>2. Count(f, W) = money
    BY <2>1, <1>8
  <2>3. r = [q |-> q1, floor |-> 0, gone |-> 0]
    BY <1>1, <1>12
  <2>4. r \in Outcomes
    BY <2>3, <1>10, <1>11 DEF Outcomes
  <2>5. Total(r) = Money(q1)
    BY <2>3, <1>11 DEF Total
  <2>6. QED
    BY <2>2, <2>4, <2>5, <1>10, <1>11, <1>2
<1>13. CASE ~all
  <2>1. b \in DOMAIN kept /\ Split(kept[b])
    BY <1>13
  <2> DEFINE y == kept[b]
  <2>2. r = [acc EXCEPT !.q = TakeCoins(@, b + Len(@) - Len(q1), count)]
    BY <1>1, <1>13
  <2> HIDE DEF b
  <2>3. b \in 1..Len(q1) /\ y \in S /\ y \notin W /\ q1[b] = q[y]
    BY <2>1, <1>10
  <2>4. Split(y)
    BY <2>1
  <2> HIDE DEF y
  <2>5. Count(f, C[y]) < money /\ W = C[y] /\ MoneyBefore(q, y) = Count(f, W)
    BY <2>3, <2>4, <1>6, <1>8, <1>3
  <2>6. rest = money - Count(f, W) /\ rest \in Nat /\ rest # 0
    BY <2>5, <1>10 DEF y
  <2>7. ~(Count(f, C[y]) + f[y] <= money)
    BY <2>3, <1>5
  <2>8. rest < Worth(q1[b])
    <3>1. Worth(q1[b]) = f[y] /\ f[y] \in Nat
      BY <2>3, <1>2, <1>7
    <3> HIDE DEF rest
    <3>2. QED
      BY <3>1, <2>5, <2>6, <2>7, <1>10
  <2> HIDE DEF rest
  <2>9. r \in Outcomes /\ Total(r) = Money(q1) - rest
    <3>1. unit = Unit(q1[b].coin) /\ count = RemoveCount(rest, unit) /\ acc = AddMoney(q1, count * unit - rest, heavy)
      OBVIOUS
    <3> HIDE DEF acc, count, unit
    <3>2. q1 \in Seq(Stacks) /\ Len(q1) <= PurseSize /\ b \in 1..Len(q1) /\ rest \in Nat /\ rest # 0
      BY <2>3, <2>6, <1>10, <1>11
    <3>3. Splits(q1, b, rest, heavy, unit, count, acc, r)
      BY <3>1, <2>2 DEF Splits
    <3>4. QED
      BY <3>2, <3>3, <2>8, SplitIs
  <2>10. QED
    BY <2>6, <2>9, <1>10, <1>11, <1>2
<1> HIDE DEF all
<1>14. QED
  BY <1>12, <1>13

-----------------------------------------------------------------------------
(***************************************************************************)
(* The operations of the bank, and the theorem.                            *)
(***************************************************************************)

\* The purses of all players, and the money in them.
HeldPurses == [Owners -> BoundedSeq(Stacks, PurseSize)]

\* The money in all purses.
InPurses(pu) == SumFunction([p \in Owners |-> Money(pu[p])])

\* The players are finitely many, and bankables.
LEMMA OwnersFinite == IsFiniteSet(Owners) /\ IsFiniteSet(Bankables) /\ Owners \in SUBSET Bankables
<1>1. IsFiniteSet(Bankables) /\ Owners \in SUBSET Bankables
  BY BankAssumption DEF Bankables
<1>2. QED
  BY <1>1, FS_Subset

\* g is f with another value at x.
SetTo(f, x, v, g) == g = [f EXCEPT ![x] = v]

\* A sum of which one term changes.
LEMMA SumBecomes ==
  ASSUME NEW S, IsFiniteSet(S), NEW f \in [S -> Nat], NEW g \in [S -> Nat], NEW x \in S,
         \A y \in S : y # x => g[y] = f[y]
  PROVE  /\ SumFunction(g) + f[x] = SumFunction(f) + g[x]
         /\ SumFunction(g) \in Nat /\ SumFunction(f) \in Nat
<1>1. SumFunction(g) + f[x] = SumFunction(f) + g[x]
  BY SumChange
<1>2. SumFunction(g) \in Nat /\ SumFunction(f) \in Nat
  BY SumIsCount
<1>3. QED
  BY <1>1, <1>2

\* One purse changes.
LEMMA PurseChange ==
  ASSUME NEW pu \in HeldPurses, NEW p \in Owners, NEW x \in Seq(Stacks), Len(x) <= PurseSize,
         NEW v, SetTo(pu, p, x, v)
  PROVE  /\ v \in HeldPurses /\ InPurses(v) \in Nat /\ InPurses(pu) \in Nat
         /\ Money(x) \in Nat /\ Money(pu[p]) \in Nat
         /\ InPurses(v) + Money(pu[p]) = InPurses(pu) + Money(x)
<1> DEFINE B == BoundedSeq(Stacks, PurseSize)
           f == [o \in Owners |-> Money(pu[o])]
           g == [o \in Owners |-> Money(v[o])]
<1>1. \A y \in B : y \in Seq(Stacks) /\ Money(y) \in Nat
  BY BoundedIs, PurseIs
<1>2. x \in B
  BY BoundedIs
<1> HIDE DEF B
<1>3. pu \in [Owners -> B]
  BY DEF HeldPurses, B
<1>4. v \in [Owners -> B] /\ v[p] = x /\ \A o \in Owners : o # p => v[o] = pu[o]
  BY <1>2, <1>3 DEF SetTo
<1>5. f \in [Owners -> Nat] /\ g \in [Owners -> Nat] /\ f[p] = Money(pu[p]) /\ g[p] = Money(x)
  BY <1>1, <1>3, <1>4
<1>6. \A o \in Owners : o # p => g[o] = f[o]
  BY <1>4
<1>7. InPurses(v) = SumFunction(g) /\ InPurses(pu) = SumFunction(f)
  BY DEF InPurses
<1> HIDE DEF f, g
<1>8. SumFunction(g) + f[p] = SumFunction(f) + g[p] /\ SumFunction(g) \in Nat /\ SumFunction(f) \in Nat
  BY <1>5, <1>6, OwnersFinite, SumBecomes
<1>9. v \in HeldPurses
  BY <1>4 DEF HeldPurses, B
<1>10. QED
  BY <1>5, <1>7, <1>8, <1>9

\* One balance changes.
LEMMA BalanceChange ==
  ASSUME NEW f \in [Bankables -> Nat], NEW b \in Bankables, NEW n \in Nat,
         NEW g, SetTo(f, b, n, g)
  PROVE  /\ g \in [Bankables -> Nat] /\ SumFunction(f) \in Nat /\ SumFunction(g) \in Nat
         /\ SumFunction(g) + f[b] = SumFunction(f) + n
<1>1. g \in [Bankables -> Nat] /\ g[b] = n /\ \A y \in Bankables : y # b => g[y] = f[y]
  BY DEF SetTo
<1>2. QED
  BY <1>1, OwnersFinite, SumBecomes

\* The inductive invariant of the bank.
BankInv == BankTypeOK /\ purse \in HeldPurses

\* The invariant, with the operators of the proofs.
LEMMA BankInvIs ==
  BankInv <=> /\ balance \in [Bankables -> Nat] /\ purse \in HeldPurses
              /\ floor \in Nat /\ spent \in Nat /\ lost \in Nat
BY DEF BankInv, BankTypeOK, HeldPurses

\* The invariant of the next state.
LEMMA BankInvIsNext ==
  BankInv' <=> /\ balance' \in [Bankables -> Nat] /\ purse' \in HeldPurses
               /\ floor' \in Nat /\ spent' \in Nat /\ lost' \in Nat
BY DEF BankInv, BankTypeOK, HeldPurses

\* The wealth of all, with the operators of the proofs.
LEMMA WealthIs == /\ Wealth = SumFunction(balance) + InPurses(purse)
                  /\ Wealth' = SumFunction(balance') + InPurses(purse')
BY DEF Wealth, InPurses

\* What a step of the bank keeps.
BankKeeps == BankInv' /\ (Wealth + floor + spent + lost)' = Wealth

\* The purse of a player.
LEMMA HeldPurse ==
  ASSUME NEW pu \in HeldPurses, NEW p \in Owners
  PROVE  pu[p] \in Seq(Stacks) /\ Len(pu[p]) <= PurseSize /\ Money(pu[p]) \in Nat
<1>1. pu[p] \in BoundedSeq(Stacks, PurseSize)
  BY DEF HeldPurses
<1>2. pu[p] \in Seq(Stacks) /\ Len(pu[p]) <= PurseSize
  BY <1>1, BoundedIs
<1>3. QED
  BY <1>2, PurseIs

\* A call ends with the outcome acc.
LEMMA KeepIs ==
  ASSUME BankInv, NEW p \in Owners, NEW acc \in Outcomes, Keep(p, acc)
  PROVE  /\ purse' \in HeldPurses /\ floor' \in Nat /\ lost' \in Nat
         /\ InPurses(purse) \in Nat /\ InPurses(purse') \in Nat /\ Total(acc) \in Nat
         /\ InPurses(purse') + floor' + lost' + Money(purse[p]) = InPurses(purse) + Total(acc)
<1> DEFINE x == acc.q
<1>1. x \in Seq(Stacks) /\ Len(x) <= PurseSize /\ acc.floor \in Nat /\ acc.gone \in Nat
  BY DEF Outcomes
<1>2. purse \in HeldPurses /\ purse' = [purse EXCEPT ![p] = x] /\ floor' = acc.floor /\ lost' = acc.gone
  BY DEF BankInv, Keep
<1>3. Total(acc) = Money(x) + floor' + lost'
  BY <1>2 DEF Total
<1> HIDE DEF x
<1>4. /\ purse' \in HeldPurses /\ InPurses(purse') \in Nat /\ InPurses(purse) \in Nat
      /\ Money(x) \in Nat /\ Money(purse[p]) \in Nat
      /\ InPurses(purse') + Money(purse[p]) = InPurses(purse) + Money(x)
  <2>1. SetTo(purse, p, x, purse')
    BY <1>2 DEF SetTo
  <2>2. QED
    BY <2>1, <1>1, <1>2, PurseChange
<1>5. floor' \in Nat /\ lost' \in Nat
  BY <1>1, <1>2
<1>6. QED
  BY <1>3, <1>4, <1>5

\* transferTo() debits what it credits, even to the same account.
LEMMA StepTransferTo ==
  ASSUME BankInv, NEW a \in Bankables, NEW b \in Bankables, NEW sum \in Nat, TransferTo(a, b, sum)
  PROVE  BankKeeps
<1> DEFINE mid == [balance EXCEPT ![a] = balance[a] - sum]
<1>1. balance \in [Bankables -> Nat] /\ purse \in HeldPurses
  BY BankInvIs
<1>2. balance[a] \in Nat /\ balance[a] >= sum /\ balance[a] - sum \in Nat
  BY <1>1 DEF TransferTo
<1>3. balance' = [mid EXCEPT ![b] = mid[b] + sum] /\ purse' = purse /\ floor' = 0 /\ spent' = 0 /\ lost' = 0
  BY DEF TransferTo, Credit
<1>4. SetTo(balance, a, balance[a] - sum, mid) /\ SetTo(mid, b, mid[b] + sum, balance')
  BY <1>3 DEF SetTo
<1> HIDE DEF mid
<1>5. /\ mid \in [Bankables -> Nat] /\ SumFunction(balance) \in Nat /\ SumFunction(mid) \in Nat
      /\ SumFunction(mid) + balance[a] = SumFunction(balance) + (balance[a] - sum)
  BY <1>1, <1>2, <1>4, BalanceChange
<1>6. mid[b] \in Nat /\ mid[b] + sum \in Nat
  BY <1>5
<1>7. /\ balance' \in [Bankables -> Nat] /\ SumFunction(balance') \in Nat
      /\ SumFunction(balance') + mid[b] = SumFunction(mid) + (mid[b] + sum)
  BY <1>4, <1>5, <1>6, BalanceChange
<1>8. SumFunction(balance') = SumFunction(balance)
  <2>1. SumFunction(mid) + sum = SumFunction(balance)
    BY <1>2, <1>5
  <2>2. SumFunction(balance') = SumFunction(mid) + sum
    <3> DEFINE x == SumFunction(balance')
               y == SumFunction(mid)
               z == mid[b]
    <3>1. x \in Nat /\ y \in Nat /\ z \in Nat /\ x + z = y + (z + sum)
      BY <1>5, <1>6, <1>7
    <3> HIDE DEF x, y, z
    <3>2. x = y + sum
      BY <3>1
    <3>3. QED
      BY <3>2 DEF x, y
  <2>3. QED
    BY <2>1, <2>2
<1>9. BankInv'
  BY <1>1, <1>3, <1>7, BankInvIsNext
<1>10. Wealth' = Wealth
  BY <1>3, <1>8, WealthIs
<1>11. Wealth \in Nat
  <2>1. InPurses(purse) \in Nat
    <3>1. [p \in Owners |-> Money(purse[p])] \in [Owners -> Nat]
      BY <1>1, HeldPurse
    <3> DEFINE f == [p \in Owners |-> Money(purse[p])]
    <3> HIDE DEF f
    <3>2. SumFunction(f) \in Nat
      BY <3>1, OwnersFinite, SumIsCount DEF f
    <3>3. QED
      BY <3>2 DEF InPurses, f
  <2>2. QED
    BY <2>1, <1>5, WealthIs
<1>12. (Wealth + floor + spent + lost)' = Wealth
  BY <1>3, <1>10, <1>11
<1>13. QED
  BY <1>9, <1>12 DEF BankKeeps

\* What the purse and the account lose together was paid or is on the floor or gone.
LEMMA Balanced ==
  ASSUME NEW i \in Nat, NEW j \in Nat, NEW k \in Nat, NEW l \in Nat, NEW x \in Nat, NEW y \in Nat,
         NEW t \in Nat, NEW n \in Nat, NEW u \in Nat, NEW v \in Nat, NEW w \in Nat,
         j + y = i + n, l + u + w + x = k + t, t + n + v = x + y
  PROVE  (j + l) + u + v + w = i + k
OBVIOUS

\* A step that ends a call on a purse and changes one balance by the difference.
LEMMA StepMoney ==
  ASSUME BankInv, NEW p \in Owners, NEW acc \in Outcomes, Keep(p, acc),
         NEW b \in Bankables, NEW n \in Nat, SetTo(balance, b, n, balance'), spent' \in Nat,
         Total(acc) + n + spent' = Money(purse[p]) + balance[b]
  PROVE  BankKeeps
<1>1. balance \in [Bankables -> Nat] /\ purse \in HeldPurses /\ balance[b] \in Nat
  BY BankInvIs
<1>2. /\ balance' \in [Bankables -> Nat] /\ SumFunction(balance) \in Nat /\ SumFunction(balance') \in Nat
      /\ SumFunction(balance') + balance[b] = SumFunction(balance) + n
  BY <1>1, BalanceChange
<1>3. /\ purse' \in HeldPurses /\ floor' \in Nat /\ lost' \in Nat
      /\ InPurses(purse) \in Nat /\ InPurses(purse') \in Nat /\ Total(acc) \in Nat
      /\ InPurses(purse') + floor' + lost' + Money(purse[p]) = InPurses(purse) + Total(acc)
  BY KeepIs
<1>4. Money(purse[p]) \in Nat
  BY <1>1, HeldPurse
<1>5. BankInv'
  BY <1>2, <1>3, BankInvIsNext
<1> DEFINE i == SumFunction(balance)
           j == SumFunction(balance')
           k == InPurses(purse)
           l == InPurses(purse')
           x == Money(purse[p])
           y == balance[b]
           t == Total(acc)
           u == floor'
           v == spent'
           w == lost'
<1>6. Wealth = i + k /\ Wealth' = j + l
  BY WealthIs
<1>7. i \in Nat /\ j \in Nat /\ k \in Nat /\ l \in Nat /\ x \in Nat /\ y \in Nat /\ t \in Nat
      /\ u \in Nat /\ w \in Nat /\ v \in Nat
  BY <1>1, <1>2, <1>3, <1>4
<1>8. j + y = i + n /\ l + u + w + x = k + t /\ t + n + v = x + y
  BY <1>2, <1>3
<1> HIDE DEF i, j, k, l, x, y, t, u, v, w
<1>9. (j + l) + u + v + w = i + k
  BY <1>7, <1>8, Balanced
<1>10. (Wealth + floor + spent + lost)' = Wealth
  BY <1>6, <1>9 DEF u, v, w
<1>11. QED
  BY <1>5, <1>10 DEF BankKeeps

\* withdraw() turns money of an account into coins.
LEMMA StepWithdraw ==
  ASSUME BankInv, NEW a \in Bankables, NEW p \in Owners, NEW sum \in Nat, Withdraw(a, p, sum)
  PROVE  BankKeeps
<1>1. PICK heavy \in Heavies : Keep(p, AddMoney(purse[p], sum, heavy))
  BY DEF Withdraw
<1> DEFINE acc == AddMoney(purse[p], sum, heavy)
           n == balance[a] - sum
<1>2. SetTo(balance, a, n, balance') /\ spent' = 0 /\ balance[a] >= sum
  BY DEF Withdraw, SetTo
<1>3. balance[a] \in Nat /\ purse \in HeldPurses
  BY BankInvIs
<1>4. n \in Nat /\ n + sum = balance[a]
  BY <1>2, <1>3
<1>5. purse[p] \in Seq(Stacks) /\ Len(purse[p]) <= PurseSize /\ Money(purse[p]) \in Nat
  BY <1>3, HeldPurse
<1>6. acc \in Outcomes /\ Total(acc) = Money(purse[p]) + sum
  BY <1>5, AddMoneyIs
<1>7. Keep(p, acc)
  BY <1>1
<1> HIDE DEF acc, n
<1>8. Total(acc) + n + spent' = Money(purse[p]) + balance[a]
  BY <1>2, <1>4, <1>5, <1>6
<1>9. spent' \in Nat
  BY <1>2
<1>10. QED
  BY <1>2, <1>4, <1>6, <1>7, <1>8, <1>9, StepMoney

\* deposit() turns coins into money of an account.
LEMMA StepDeposit ==
  ASSUME BankInv, NEW b \in Bankables, NEW p \in Owners, NEW sum \in Nat, Deposit(p, b, sum)
  PROVE  BankKeeps
<1>1. PICK heavy \in Heavies : Keep(p, RemoveMoney(purse[p], sum, heavy))
  BY DEF Deposit
<1> DEFINE acc == RemoveMoney(purse[p], sum, heavy)
           n == balance[b] + sum
<1>2. SetTo(balance, b, n, balance') /\ spent' = 0 /\ sum <= Money(purse[p])
  <2>1. balance \in [Bankables -> Nat] /\ Money(purse[p]) \in Nat
    BY BankInvIs, HeldPurse
  <2>2. QED
    BY <2>1 DEF Deposit, Credit, SetTo
<1>3. balance[b] \in Nat /\ purse \in HeldPurses
  BY BankInvIs
<1>4. n \in Nat /\ n = balance[b] + sum
  BY <1>3
<1>5. purse[p] \in Seq(Stacks) /\ Len(purse[p]) <= PurseSize /\ Money(purse[p]) \in Nat
  BY <1>3, HeldPurse
<1>6. acc \in Outcomes /\ Total(acc) = Money(purse[p]) - sum
  BY <1>2, <1>5, RemoveMoneyIs
<1>7. Keep(p, acc)
  BY <1>1
<1> HIDE DEF acc, n
<1>8. Total(acc) + n + spent' = Money(purse[p]) + balance[b]
  BY <1>2, <1>3, <1>4, <1>5, <1>6
<1>9. spent' \in Nat
  BY <1>2
<1>10. QED
  BY <1>2, <1>4, <1>6, <1>7, <1>8, <1>9, StepMoney

\* A payment takes coins first and the rest from the account.
LEMMA StepPay ==
  ASSUME BankInv, NEW p \in Owners, NEW sum \in Nat, Pay(p, sum)
  PROVE  BankKeeps
<1> DEFINE inCoins == Least(sum, Money(purse[p]))
           n == balance[p] - (sum - inCoins)
<1>1. PICK heavy \in Heavies : Keep(p, RemoveMoney(purse[p], inCoins, heavy))
  BY DEF Pay
<1> DEFINE acc == RemoveMoney(purse[p], inCoins, heavy)
<1>2. SetTo(balance, p, n, balance') /\ spent' = sum /\ Money(purse[p]) + balance[p] >= sum
  BY DEF Pay, SetTo
<1>3. p \in Bankables
  BY OwnersFinite
<1>4. balance[p] \in Nat /\ purse \in HeldPurses
  BY <1>3, BankInvIs
<1>5. purse[p] \in Seq(Stacks) /\ Len(purse[p]) <= PurseSize /\ Money(purse[p]) \in Nat
  BY <1>4, HeldPurse
<1>6. inCoins \in Nat /\ inCoins <= sum /\ inCoins <= Money(purse[p]) /\ (inCoins = sum \/ inCoins = Money(purse[p]))
  BY <1>5 DEF Least
<1>7. Keep(p, acc)
  BY <1>1
<1>d. n = balance[p] - (sum - inCoins)
  OBVIOUS
<1>a. acc = RemoveMoney(purse[p], inCoins, heavy)
  OBVIOUS
<1> HIDE DEF acc, n, inCoins
<1>8. n \in Nat
  BY <1>2, <1>4, <1>5, <1>6, <1>d
<1>9. acc \in Outcomes /\ Total(acc) = Money(purse[p]) - inCoins
  BY <1>5, <1>6, <1>a, RemoveMoneyIs
<1>10. spent' \in Nat /\ Total(acc) + n + spent' = Money(purse[p]) + balance[p]
  BY <1>2, <1>4, <1>5, <1>6, <1>9, <1>d
<1>11. QED
  BY <1>2, <1>3, <1>7, <1>8, <1>9, <1>10, StepMoney

\* Bank: for any players and guilds, any stack size, exchange rate and room in the
\* purses, every transfer, withdrawal, deposit and payment moves exactly the amount asked for, overdraws no account and overfills no
\* stack or purse; money leaves the game only where it is paid or where
\* internalAddItem() destroys coins it has no room for.
THEOREM MoneyStaysAccounted == BankSpec => MoneyAccounted
<1>1. BankInit => BankInv
  <2> SUFFICES ASSUME BankInit PROVE BankInv
    OBVIOUS
  <2>1. Savings \in SUBSET Nat
    BY BankAssumption
  <2>2. QED
    BY <2>1, BankInvIs DEF BankInit, HeldPurses
<1>2. ASSUME BankInv, BankNext PROVE BankKeeps
  <2>1. PICK p \in Owners, sum \in Sums :
          \/ \E b \in Bankables : TransferTo(p, b, sum) \/ TransferTo(b, p, sum)
          \/ \E b \in Bankables : Withdraw(b, p, sum) \/ Deposit(p, b, sum)
          \/ Pay(p, sum)
    BY <1>2 DEF BankNext
  <2>2. p \in Bankables /\ sum \in Nat
    BY OwnersFinite, BankAssumption
  <2>3. QED
    BY <1>2, <2>1, <2>2, StepTransferTo, StepWithdraw, StepDeposit, StepPay
<1>3. BankInv /\ [BankNext]_bankVars => BankInv'
  <2>1. ASSUME BankInv, UNCHANGED bankVars PROVE BankInv'
    BY <2>1, BankInvIs, BankInvIsNext DEF bankVars
  <2>2. QED
    BY <1>2, <2>1 DEF BankKeeps
<1>4. BankInv /\ [BankNext]_bankVars
        => [BankTypeOK' /\ (Wealth + floor + spent + lost)' = Wealth]_bankVars
  BY <1>2 DEF BankKeeps, BankInv
<1>5. QED
  BY <1>1, <1>3, <1>4, PTL DEF BankSpec, MoneyAccounted
=============================================================================
