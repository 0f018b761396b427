------------------------------- MODULE Market -------------------------------
(***************************************************************************)
(* The market: the market handlers of src/game/game.cpp, the table         *)
(* market_offers behind src/io/iomarket.cpp, and the expiry of offers.     *)
(*                                                                         *)
(* The handlers run on the dispatcher thread, each with its queries.  The  *)
(* expiry is in two parts: checkExpiredOffers has a pool thread SELECT the *)
(* old offers, and its callback processExpiredOffers runs later on the     *)
(* dispatcher with the rows of that SELECT.                                *)
(*                                                                         *)
(* One ware is traded.  An owner who is offline is loaded, credited and    *)
(* saved by the same handler, so his account is his account here; module   *)
(* PlayerSave is about those saves.  market_history is left out.           *)
(***************************************************************************)
EXTENDS Integers, FiniteSets, Functions

CONSTANTS
  Traders,
  Amounts,       \* the amounts and prices asked for
  Prices,
  MaxIds,        \* bound of the model: offers made in a run
  MaxOwn,        \* MAX_MARKET_OFFERS_AT_A_TIME_PER_PLAYER, 0 for no limit
  FeeUnit,       \* 100
  FeeMin,        \* 20
  FeeMax,        \* 100000
  StartBank, StartPurse, StartStash, StartLocker,   \* what each trader has
  DbFails,       \* TRUE: one statement that changes market_offers may fail
  NoOffer

Ids == 1..MaxIds
Offers == [owner : Traders, sale : BOOLEAN, amount : Nat, price : Prices]

ASSUME MarketAssumption ==
  /\ IsFiniteSet(Traders) /\ NoOffer \notin Offers
  /\ Amounts \subseteq Nat \ {0} /\ Prices \subseteq Nat \ {0}
  /\ {MaxIds, MaxOwn, FeeMin, FeeMax, StartBank, StartPurse, StartStash,
      StartLocker} \subseteq Nat
  /\ FeeUnit \in Nat \ {0} /\ DbFails \in BOOLEAN

VARIABLES
  inMarket,   \* traders with the market window open
  bank,       \* bank balances
  coins,      \* worth of the coins carried
  stash,      \* wares in the stash
  locker,     \* wares in the depot locker and its inbox
  offers,     \* market_offers
  nextId,
  selected,   \* rows of a SELECT of checkExpiredOffers, for the callback
  fees,       \* history: fees paid
  dropped,    \* history: wares removed by a sale that then failed
  mishaps     \* history: what went wrong so far

marketVars == <<inMarket, bank, coins, stash, locker, offers, nextId, selected,
                fees, dropped, mishaps>>
holdings == <<bank, coins, stash, locker>>

Open == {i \in Ids : offers[i] # NoOffer}

MarketInit ==
  /\ inMarket = {}
  /\ bank = [p \in Traders |-> StartBank]
  /\ coins = [p \in Traders |-> StartPurse]
  /\ stash = [p \in Traders |-> StartStash]
  /\ locker = [p \in Traders |-> StartLocker]
  /\ offers = [i \in Ids |-> NoOffer]
  /\ nextId = 1
  /\ selected = {}
  /\ fees = 0 /\ dropped = 0 /\ mishaps = {}

-----------------------------------------------------------------------------
Smaller(a, b) == IF a < b THEN a ELSE b
Larger(a, b) == IF a > b THEN a ELSE b

Fee(amount, price) == Larger(FeeMin, Smaller(FeeMax, (price \div FeeUnit) * amount))

Funds(p) == bank[p] + coins[p]
Wares(p) == stash[p] + locker[p]

\* Bound of the model: at most one statement fails.
MayFail == DbFails /\ mishaps = {}

\* A statement that changes market_offers.  None of its callers but
\* moveOfferToHistory looks at its result.
Execute(new, mishap) ==
  \/ offers' = new /\ UNCHANGED mishaps
  \/ MayFail /\ UNCHANGED offers /\ mishaps' = {mishap}

\* removeOfferItems takes the wares from the stash, then from the locker.
\* When there are too few, those are gone already.
RemoveOfferItems(p, amount) ==
  /\ stash' = [stash EXCEPT ![p] = Larger(0, @ - amount)]
  /\ locker' = [locker EXCEPT ![p] = Larger(0, @ - Larger(0, amount - stash[p]))]

\* removeMoney(player, sum, 0, useBalance = true): coins first.
RemoveMoneyOf(p, sum) ==
  /\ coins' = [coins EXCEPT ![p] = Larger(0, @ - sum)]
  /\ bank' = [bank EXCEPT ![p] = @ - Larger(0, sum - coins[p])]

EnterMarket(p) ==
  /\ inMarket' = inMarket \cup {p}
  /\ UNCHANGED <<holdings, offers, nextId, selected, fees, dropped, mishaps>>

\* playerLeaveMarket, and onCreatureMove.
LeaveMarket(p) ==
  /\ inMarket' = inMarket \ {p}
  /\ UNCHANGED <<holdings, offers, nextId, selected, fees, dropped, mishaps>>

\* checkCanInitCreateMarketOffer.
CanCreate(p) ==
  /\ p \in inMarket
  /\ nextId <= MaxIds
  /\ MaxOwn # 0 => Cardinality({i \in Open : offers[i].owner = p}) < MaxOwn

\* IOMarket::createOffer.
CreateOffer(p, sale, amount, price) ==
  /\ Execute([offers EXCEPT ![nextId] = [owner |-> p, sale |-> sale,
                                         amount |-> amount, price |-> price]],
             "failedInsert")
  /\ nextId' = nextId + 1

\* playerCreateMarketOffer of a sale.  The client only lets a player offer what
\* he has, but the handler does not check it before it takes the wares.
CreateSellOffer(p, amount, price) ==
  /\ CanCreate(p)
  /\ Fee(amount, price) <= Funds(p)
  /\ RemoveOfferItems(p, amount)
  /\ \/ /\ Wares(p) >= amount
        /\ RemoveMoneyOf(p, Fee(amount, price))
        /\ CreateOffer(p, TRUE, amount, price)
        /\ fees' = fees + Fee(amount, price)
        /\ UNCHANGED dropped
     \/ /\ Wares(p) < amount
        /\ dropped' = dropped + Wares(p)
        /\ UNCHANGED <<bank, coins, offers, nextId, fees, mishaps>>
  /\ UNCHANGED <<inMarket, selected>>

\* playerCreateMarketOffer of a purchase: the price is paid in advance.
CreateBuyOffer(p, amount, price) ==
  LET total == price * amount + Fee(amount, price) IN
  /\ CanCreate(p)
  /\ total <= Funds(p)
  /\ RemoveMoneyOf(p, total)
  /\ CreateOffer(p, FALSE, amount, price)
  /\ fees' = fees + Fee(amount, price)
  /\ UNCHANGED <<inMarket, stash, locker, selected, dropped>>

\* What goes back to the owner of an offer of which amount is left.
GiveBack(o, amount) ==
  /\ locker' = [locker EXCEPT ![o.owner] = IF o.sale THEN @ + amount ELSE @]
  /\ bank' = [bank EXCEPT ![o.owner] = IF o.sale THEN @ ELSE @ + o.price * amount]

\* playerCancelMarketOffer: the refund comes before moveOfferToHistory, whose
\* result is ignored.
CancelOffer(p, i) ==
  /\ p \in inMarket /\ i \in Open /\ offers[i].owner = p
  /\ GiveBack(offers[i], offers[i].amount)
  /\ Execute([offers EXCEPT ![i] = NoOffer], "failedDelete")
  /\ UNCHANGED <<inMarket, coins, stash, nextId, selected, fees, dropped>>

AcceptedWhole(i, amount) == [offers EXCEPT ![i] = NoOffer]   \* mutant

\* deleteOffer or acceptOffer.
Accepted(i, amount) ==
  LET left == [offers[i] EXCEPT !.amount = @ - amount] IN
  [offers EXCEPT ![i] = IF offers[i].amount = amount THEN NoOffer ELSE left]

\* An offer is accepted in part between a SELECT of the expiry and its callback.
StaleExpiry(i, amount) ==
  (\E r \in selected : r.id = i) /\ amount < offers[i].amount

UpdateOffer(i, amount) ==
  /\ \/ offers' = Accepted(i, amount) /\ mishaps' = mishaps \cup
          (IF StaleExpiry(i, amount) THEN {"staleExpiry"} ELSE {})
     \/ MayFail /\ UNCHANGED offers /\ mishaps' = {"failedDelete"}
  /\ UNCHANGED <<inMarket, nextId, selected, fees>>

\* The guards playerAcceptMarketOffer shares between its two sides.
CanAcceptOffer(p, i, amount) ==
  /\ p \in inMarket /\ i \in Open
  /\ amount <= offers[i].amount
  /\ offers[i].owner # p

\* playerAcceptMarketOffer of a buy offer: p sells to its owner, who has paid.
SellToOffer(p, i, amount) ==
  LET o == offers[i] IN
  /\ CanAcceptOffer(p, i, amount) /\ ~o.sale
  /\ stash' = [stash EXCEPT ![p] = Larger(0, @ - amount)]
  /\ LET taken == [locker EXCEPT ![p] = Larger(0, @ - Larger(0, amount - stash[p]))] IN
     \/ /\ Wares(p) >= amount
        /\ bank' = [bank EXCEPT ![p] = @ + o.price * amount]
        /\ locker' = [taken EXCEPT ![o.owner] = @ + amount]
        /\ UpdateOffer(i, amount)
        /\ UNCHANGED dropped
     \/ /\ Wares(p) < amount
        /\ locker' = taken
        /\ dropped' = dropped + Wares(p)
        /\ UNCHANGED <<inMarket, bank, offers, nextId, selected, fees, mishaps>>
  /\ UNCHANGED coins

\* playerAcceptMarketOffer of a sell offer: p pays its owner, from his balance
\* and then with coins.
BuyFromOffer(p, i, amount) ==
  LET o == offers[i]
      total == o.price * amount
  IN  /\ CanAcceptOffer(p, i, amount) /\ o.sale
      /\ total <= Funds(p)
      /\ bank' = [bank EXCEPT ![p] = Larger(0, @ - total), ![o.owner] = @ + total]
      /\ coins' = [coins EXCEPT ![p] = @ - Larger(0, total - bank[p])]
      /\ locker' = [locker EXCEPT ![p] = @ + amount]
      /\ UpdateOffer(i, amount)
      /\ UNCHANGED <<stash, dropped>>

-----------------------------------------------------------------------------
\* checkExpiredOffers: the SELECT, on a pool thread, finds the offers that are
\* old enough, which are the first ones made.  One such check is under way at a
\* time; the next is minutes later.
CheckExpiredOffers(last) ==
  /\ selected = {}
  /\ selected' = {[id |-> i, row |-> offers[i]] : i \in Open \cap 1..last}
  /\ selected' # {}
  /\ UNCHANGED <<inMarket, holdings, offers, nextId, fees, dropped, mishaps>>

\* moveOfferToHistory finds the offer, so its owner gets a refund.
Refunded(r) == r.id \in Open

\* The wares and the gold that go back to p for these rows.
WaresBack(p, rows) ==
  SumFunction([r \in rows |-> IF r.row.owner = p /\ r.row.sale THEN r.row.amount ELSE 0])
GoldBack(p, rows) ==
  SumFunction([r \in rows |-> IF r.row.owner = p /\ ~r.row.sale
                               THEN r.row.price * r.row.amount ELSE 0])

\* processExpiredOffers on the dispatcher: what the rows say goes back to the
\* owners.  A failed DELETE leaves an offer alone and skips its refund.
ProcessExpiredOffers ==
  /\ selected # {}
  /\ \E failed \in IF MayFail THEN SUBSET selected ELSE {{}} :
       LET done == {r \in selected \ failed : Refunded(r)} IN
       /\ offers' = [i \in Ids |-> IF \E r \in done : r.id = i THEN NoOffer ELSE offers[i]]
       /\ locker' = [p \in Traders |-> locker[p] + WaresBack(p, done)]
       /\ bank' = [p \in Traders |-> bank[p] + GoldBack(p, done)]
  /\ selected' = {}
  /\ UNCHANGED <<inMarket, coins, stash, nextId, fees, dropped, mishaps>>

MarketNext ==
  \/ \E p \in Traders :
       \/ EnterMarket(p) \/ LeaveMarket(p)
       \/ \E a \in Amounts, v \in Prices :
            CreateSellOffer(p, a, v) \/ CreateBuyOffer(p, a, v)
       \/ \E i \in Ids :
            \/ CancelOffer(p, i)
            \/ \E a \in Amounts : SellToOffer(p, i, a) \/ BuyFromOffer(p, i, a)
  \/ \E last \in Ids : CheckExpiredOffers(last)
  \/ ProcessExpiredOffers

MarketSpec == MarketInit /\ [][MarketNext]_marketVars

-----------------------------------------------------------------------------
(***************************************************************************)
(* Properties.                                                             *)
(***************************************************************************)

\* The accounts, the table and the rows of a pending expiry keep their types:
\* no accepted amount and no fee takes more than there is.
MarketTypeOK ==
  /\ inMarket \subseteq Traders
  /\ \A f \in {bank, coins, stash, locker} : f \in [Traders -> Nat]
  /\ \A i \in Open : offers[i] \in Offers /\ offers[i].amount > 0
  /\ nextId \in 1..(MaxIds + 1)
  /\ \A r \in selected : r.id \in Ids /\ r.row \in Offers

\* What the open offers stand for: gold paid in advance, wares to be sold.
Advances == [i \in Ids |-> IF i \in Open /\ ~offers[i].sale
                           THEN offers[i].price * offers[i].amount ELSE 0]
OnSale == [i \in Ids |-> IF i \in Open /\ offers[i].sale THEN offers[i].amount ELSE 0]

Gold == SumFunction([p \in Traders |-> Funds(p)]) + fees + SumFunction(Advances)
Goods == SumFunction([p \in Traders |-> Wares(p)]) + dropped + SumFunction(OnSale)

AllGold == Cardinality(Traders) * (StartBank + StartPurse)
AllGoods == Cardinality(Traders) * (StartStash + StartLocker)

\* The market creates neither gold nor wares: what the players hold, what their
\* open offers stand for and what was paid in fees or dropped never exceeds what
\* was there, through every creation, cancellation, partial acceptance and
\* expiry.  The exceptions are an offer accepted in part while the expiry waits
\* for its callback, and a failed statement after the refund or the sale.
NothingCloned ==
  mishaps \cap {"staleExpiry", "failedDelete"} = {} =>
    Gold <= AllGold /\ Goods <= AllGoods

\* Nothing is lost either, except by a failed INSERT of a paid offer.
NothingVanishes ==
  "failedInsert" \notin mishaps => Gold >= AllGold /\ Goods >= AllGoods

\* Gold and wares are accounted for, with the exceptions named above.
WaresAccounted == MarketTypeOK /\ NothingCloned /\ NothingVanishes

\* "The player may lose the item ... but will not clone": no sequence of market
\* operations clones gold or wares while the database works.  An expiry that
\* races with an acceptance refunds the amount its SELECT saw.
ExpiryWillNotClone ==
  "failedDelete" \notin mishaps => Gold <= AllGold /\ Goods <= AllGoods
=============================================================================
