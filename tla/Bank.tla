-------------------------------- MODULE Bank --------------------------------
(***************************************************************************)
(* Money: the bank accounts of src/game/bank/bank.cpp and the coins that   *)
(* Game::removeMoney, Game::addMoney and Game::internalAddItem take from   *)
(* and put into a player's inventory (src/game/game.cpp).                  *)
(*                                                                         *)
(* A purse is the list of the stacks a player carries, newest first.  Gold,*)
(* platinum and crystal coins are the kinds 0, 1 and 2; Rate coins of a    *)
(* kind are worth one of the next.  All of it runs on the dispatcher.      *)
(***************************************************************************)
EXTENDS Vectors, FiniteSets, SequencesExt

CONSTANTS
  Owners,     \* the players
  Guilds,     \* bankables without a purse
  Denied,     \* the players transferTo refuses: sample names, low towns
  Rate,       \* 100
  StackSize,  \* 100
  PurseSize,  \* stacks a player has room for
  Sums,       \* the amounts asked for
  Savings,    \* the balances of Init
  MaxBalance  \* bound of the model on a balance

Bankables == Owners \cup Guilds
Coins == 0..2

ASSUME BankAssumption ==
  /\ IsFiniteSet(Bankables) /\ Owners \cap Guilds = {} /\ Denied \subseteq Owners
  /\ Rate \in Nat \ {0, 1} /\ StackSize \in Nat /\ Rate <= StackSize /\ PurseSize \in Nat
  /\ Sums \subseteq Nat \ {0} /\ MaxBalance \in Nat /\ Savings \subseteq 0..MaxBalance

VARIABLES
  balance,  \* bankBalance
  purse,
  floor,    \* history: worth of the coins the last call dropped on the tile
  spent,    \* history: money the last call paid for goods or fees
  lost      \* history: money internalAddItem destroyed in the last call

bankVars == <<balance, purse, floor, spent, lost>>

Stacks == [coin : Coins, n : 1..StackSize]
Unit(c) == CASE c = 0 -> 1 [] c = 1 -> Rate [] c = 2 -> Rate * Rate
Worth(s) == s.n * Unit(s.coin)
Money(q) == SumFunction([i \in DOMAIN q |-> Worth(q[i])])   \* Player::getMoney

BankInit ==
  /\ balance \in [Bankables -> Savings]
  /\ purse \in [Owners -> BoundedSeq(Stacks, PurseSize)]
  /\ floor = 0 /\ spent = 0 /\ lost = 0

-----------------------------------------------------------------------------
(***************************************************************************)
(* Coins.  An account of what a call has done so far is a record of the    *)
(* purse q, the money that fell on the floor and the money that is gone.   *)
(***************************************************************************)

Room(q, c) == [i \in DOMAIN q |-> IF q[i].coin = c THEN StackSize - q[i].n ELSE 0]

\* queryMaxCount: how many coins of a kind the purse has room for.
MaxQueryCount(q, c) == (PurseSize - Len(q)) * StackSize + SumFunction(Room(q, c))

\* m coins fill the stacks of their kind in order; a new stack takes the rest.
Fill(q, c, m) ==
  LET poured == Poured(Room(q, c), m)
      rest == m - SumFunction(poured)
      filled == [i \in DOMAIN q |-> [q[i] EXCEPT !.n = @ + poured[i]]]
  IN  IF rest = 0 THEN filled ELSE <<[coin |-> c, n |-> rest]>> \o filled

\* internalAddItem of a stack of new coins, as addMoney calls it.  With a stack
\* to merge with, the result of queryMaxCount is ignored for a player, only
\* maxQueryCount coins are added, and the others disappear with the item.
\* Without one, or when the player cannot carry more, the stack is dropped.
AddStack(acc, s, heavy) ==
  LET m == Least(s.n, MaxQueryCount(acc.q, s.coin))
      merges == \E i \in DOMAIN acc.q : Room(acc.q, s.coin)[i] > 0
  IN  IF ~heavy /\ (merges \/ Len(acc.q) < PurseSize)
      THEN [acc EXCEPT !.q = Fill(@, s.coin, m), !.gone = @ + (s.n - m) * Unit(s.coin)]
      ELSE [acc EXCEPT !.floor = @ + Worth(s)]

\* The stacks addMoney creates unless they are empty: crystal coins in full
\* stacks, then platinum, then gold.
ChangeFor(money) ==
  LET crystal == money \div Unit(2)
  IN  [i \in 1..(crystal \div StackSize) |-> [coin |-> 2, n |-> StackSize]]
        \o <<[coin |-> 2, n |-> crystal % StackSize],
             [coin |-> 1, n |-> (money % Unit(2)) \div Rate],
             [coin |-> 0, n |-> money % Rate]>>

\* Game::addMoney; heavy are the stacks beyond the player's capacity.
AddMoney(q, money, heavy) ==
  LET new == ChangeFor(money)
      added[i \in 0..Len(new)] ==
        IF i = 0 THEN [q |-> q, floor |-> 0, gone |-> 0]
        ELSE IF new[i].n = 0 THEN added[i - 1]
        ELSE AddStack(added[i - 1], new[i], i \in heavy)
  IN  added[Len(new)]

\* moneyMap: stacks by their worth, the first found first.
Cheaper(q, i) ==
  {j \in DOMAIN q : Worth(q[j]) < Worth(q[i]) \/ (Worth(q[j]) = Worth(q[i]) /\ j < i)}
MoneyBefore(q, i) == SumFunction([j \in Cheaper(q, i) |-> Worth(q[j])])

\* ceil(money / worth)
RemoveCount(rest, unit) == (rest + unit - 1) \div unit

\* The purse with k coins less in its i-th stack.
TakeCoins(q, i, k) ==
  IF q[i].n = k THEN RemoveAt(q, i) ELSE [q EXCEPT ![i].n = @ - k]

\* Game::removeMoney of at most what the purse holds: stacks go whole, the
\* cheapest first, until one is worth more than what is left to pay.  The
\* change for that one is added before its coins are removed.
RemoveMoney(q, money, heavy) ==
  LET Whole(i) == MoneyBefore(q, i) + Worth(q[i]) <= money
      Split(i) == MoneyBefore(q, i) < money /\ ~Whole(i)
      kept == Remaining([i \in DOMAIN q |-> i], {i \in DOMAIN q : Whole(i)})
      q1 == [j \in DOMAIN kept |-> q[kept[j]]]
  IN  IF \A j \in DOMAIN kept : ~Split(kept[j])
      THEN [q |-> q1, floor |-> 0, gone |-> 0]
      ELSE LET b == CHOOSE j \in DOMAIN kept : Split(kept[j])
               rest == money - MoneyBefore(q, kept[b])
               unit == Unit(q1[b].coin)
               count == RemoveCount(rest, unit)
               acc == AddMoney(q1, count * unit - rest, heavy)
           IN  [acc EXCEPT !.q = TakeCoins(@, b + Len(@) - Len(q1), count)]

-----------------------------------------------------------------------------
(***************************************************************************)
(* Operations.                                                             *)
(***************************************************************************)

\* The new stacks the player's capacity does not allow: none, all from some
\* stack on, or one.
Heavies == {{}} \cup {{k} : k \in 1..3} \cup {k..5 : k \in 1..3}

\* The purse of p after a call with the result acc.
Keep(p, acc) ==
  /\ purse' = [purse EXCEPT ![p] = acc.q]
  /\ floor' = acc.floor /\ lost' = acc.gone

\* Bank::credit.
Credit(accounts, b, sum) ==
  /\ accounts[b] + sum <= MaxBalance
  /\ balance' = [accounts EXCEPT ![b] = @ + sum]

\* Bank::transferTo.
TransferTo(a, b, sum) ==
  /\ b \notin Denied
  /\ balance[a] >= sum
  /\ Credit([balance EXCEPT ![a] = @ - sum], b, sum)
  /\ floor' = 0 /\ spent' = 0 /\ lost' = 0
  /\ UNCHANGED purse

\* Bank::withdraw, from the player's own account or a guild's.
Withdraw(a, p, sum) ==
  /\ balance[a] >= sum
  /\ balance' = [balance EXCEPT ![a] = @ - sum]
  /\ \E heavy \in Heavies : Keep(p, AddMoney(purse[p], sum, heavy))
  /\ spent' = 0

\* Bank::deposit of an amount.
Deposit(p, b, sum) ==
  /\ Money(purse[p]) >= sum
  /\ Credit(balance, b, sum)
  /\ \E heavy \in Heavies : Keep(p, RemoveMoney(purse[p], sum, heavy))
  /\ spent' = 0

PayPurseFirst(p, sum) ==   \* mutant: the balance pays what the coins paid
  /\ Money(purse[p]) + balance[p] >= sum
  /\ LET coins == Least(sum, Money(purse[p])) IN
     /\ \E heavy \in Heavies : Keep(p, RemoveMoney(purse[p], coins, heavy))
     /\ balance' = [balance EXCEPT ![p] = Most(0, @ - sum)]
  /\ spent' = sum

\* removeMoney(player, sum, 0, useBalance = true), as the market and the shops
\* use it: coins first, the rest from the balance.
Pay(p, sum) ==
  /\ Money(purse[p]) + balance[p] >= sum
  /\ LET coins == Least(sum, Money(purse[p])) IN
     /\ \E heavy \in Heavies : Keep(p, RemoveMoney(purse[p], coins, heavy))
     /\ balance' = [balance EXCEPT ![p] = @ - (sum - coins)]
  /\ spent' = sum

BankNext ==
  \E p \in Owners, sum \in Sums :
    \/ \E b \in Bankables : TransferTo(p, b, sum) \/ TransferTo(b, p, sum)
    \/ \E b \in Bankables : Withdraw(b, p, sum) \/ Deposit(p, b, sum)
    \/ Pay(p, sum)

BankSpec == BankInit /\ [][BankNext]_bankVars

-----------------------------------------------------------------------------
(***************************************************************************)
(* Properties.                                                             *)
(***************************************************************************)

\* Balances and purses keep their types: no debit makes a balance negative and
\* no change for a broken stack makes one larger than a stack may be.
BankTypeOK ==
  /\ balance \in [Bankables -> Nat]
  /\ \A p \in Owners : purse[p] \in BoundedSeq(Stacks, PurseSize)
  /\ floor \in Nat /\ spent \in Nat /\ lost \in Nat

Wealth ==
  SumFunction(balance) + SumFunction([p \in Owners |-> Money(purse[p])])

\* Every transfer, withdrawal, deposit and payment moves exactly the amount
\* asked for, whatever stacks removeMoney breaks and wherever addMoney puts the
\* change; the only money that leaves the game is what was paid and what
\* internalAddItem destroys on a stack without room for all of it.  No balance is
\* overdrawn (it is unsigned) and no purse holds more than fits.
MoneyAccounted ==
  [][BankTypeOK' /\ (Wealth + floor + spent + lost)' = Wealth]_bankVars
=============================================================================
