----------------------------- MODULE MCPlayers -----------------------------
(***************************************************************************)
(* Small instances of Trade, Bank, Market, Party, Chat and House for TLC.  *)
(* They share no state in their modules, so a behaviour is one of one of   *)
(* them: part says of which, and the others stay as they are.              *)
(***************************************************************************)
EXTENDS TLC, Trade, Bank, Market, Party, Chat, House

CONSTANTS
  p1, p2, p3, bag, coin, sword, o1, gd, t1, t2,
  f1, f2, f3, f4, h1, h2, h3, h4,
  m1, m2, qa, qb, hall, r1, r2, lamp

VARIABLE part

vars == <<part, tradeVars, bankVars, marketVars, partyVars, chatVars, houseVars>>

\* Positions 1 and 3 do not see each other.
BlockedPairs == {{1, 3}}

\* p2 and p3 carry no stack to begin with, and no two traders differ.
Alike == Permutations({p2, p3}) \cup Permutations(Traders)

\* One initial state of the parts that do not move.
NoGoods == \A i \in Items : loc[i] = Ground
NoMoney ==
  /\ \A b \in Bankables : balance[b] = 0
  /\ \A p \in Owners : purse[p] = <<>>
NoHouse == onRestart /\ has[r1] = Belongings

Init ==
  /\ part \in {"trade", "bank", "market", "party", "chat", "house"}
  /\ TradeInit /\ (part # "trade" => NoGoods)
  /\ BankInit /\ (part # "bank" => NoMoney)
  /\ HouseInit /\ (part # "house" => NoHouse)
  /\ MarketInit /\ PartyInit /\ ChatInit

Next ==
  /\ UNCHANGED part
  /\ \/ /\ part = "trade" /\ TradeNext
        /\ UNCHANGED <<bankVars, marketVars, partyVars, chatVars, houseVars>>
     \/ /\ part = "bank" /\ BankNext
        /\ UNCHANGED <<tradeVars, marketVars, partyVars, chatVars, houseVars>>
     \/ /\ part = "market" /\ MarketNext
        /\ UNCHANGED <<tradeVars, bankVars, partyVars, chatVars, houseVars>>
     \/ /\ part = "party" /\ PartyNext
        /\ UNCHANGED <<tradeVars, bankVars, marketVars, chatVars, houseVars>>
     \/ /\ part = "chat" /\ ChatNext
        /\ UNCHANGED <<tradeVars, bankVars, marketVars, partyVars, houseVars>>
     \/ /\ part = "house" /\ HouseNext
        /\ UNCHANGED <<tradeVars, bankVars, marketVars, partyVars, chatVars>>

Spec == Init /\ [][Next]_vars
=============================================================================
