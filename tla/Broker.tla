------------------------------- MODULE Broker -------------------------------
(***************************************************************************)
(* The Alpaca account behind MarketData (src/src/trader/market_data.py),   *)
(* restricted to the agent's own symbols.  The account itself is not part  *)
(* of the repository: it is modelled from how the wrapper is used.  Market *)
(* orders are accepted first and filled later, by the broker, at a moment  *)
(* the agent does not choose; a position is what a filled buy left behind. *)
(* The account is shared (src/docker-compose.yml): the agents beside this  *)
(* one spend and free its cash whenever they like.                         *)
(*                                                                         *)
(* Money is whole dollars.  The two things the agent compares are kept:    *)
(* the equity it sizes by and the cash it may spend.                       *)
(***************************************************************************)
EXTENDS Integers, FiniteSets

CONSTANTS Symbols,        \* the watchlist's symbols: the agent's own book
          InitCash,       \* the cash of the account before anyone has bought
          EquityLevels,   \* the equity values the market can move to
          OthersBooks     \* what the other agents can hold: the dollars taken from the
                          \* cash, and those their working orders will take

ASSUME BrokerAssumption ==
  /\ IsFiniteSet(Symbols)
  /\ InitCash \in Nat
  /\ EquityLevels \subseteq Nat
  /\ EquityLevels # {}
  /\ OthersBooks \subseteq [taken : Int, working : Nat]
  /\ OthersBooks # {}

VARIABLES spent,     \* dollars in the filled position of each symbol, 0 for none
          buys,      \* dollars in the working buy orders of each symbol
          closing,   \* the symbols with a working close order
          cash,      \* cash balance: working buys are not yet deducted
          reserved,  \* dollars the working buys of all agents will take from it
          others,    \* what the other agents hold
          equity     \* account equity: the other agents' books move it too

brokerVars == <<spent, buys, closing, cash, reserved, others, equity>>

BrokerTypeOK ==
  /\ spent \in [Symbols -> Nat]
  /\ buys \in [Symbols -> Nat]
  /\ closing \subseteq Symbols
  /\ cash \in Int
  /\ reserved \in Int
  /\ others \in OthersBooks
  /\ equity \in EquityLevels

BrokerInit ==
  /\ spent = [s \in Symbols |-> 0]
  /\ buys = [s \in Symbols |-> 0]
  /\ closing = {}
  /\ others \in OthersBooks
  /\ cash = InitCash - others.taken
  /\ reserved = others.working
  /\ equity \in EquityLevels

\* What get_all_positions lists, what is still being bought, and both.
Held == {s \in Symbols : spent[s] > 0}
Working == {s \in Symbols : buys[s] > 0}
Book == Held \cup Working

\* Every order the agent placed has been filled or is dead.
Drained == Working = {} /\ closing = {}

-----------------------------------------------------------------------------
(* What a request does when the broker accepts it. *)

\* submit_order: the account can pay for the order and takes it.
Affordable(n) == n <= cash - reserved

AcceptBuy(s, n) ==
  /\ buys' = [buys EXCEPT ![s] = @ + n]
  /\ reserved' = reserved + n
  /\ UNCHANGED <<spent, closing, cash, others, equity>>

\* close_position: refused without a position, or while one is being closed.
Closable(s) == s \in Held \ closing

AcceptClose(s) ==
  /\ closing' = closing \cup {s}
  /\ UNCHANGED <<spent, buys, cash, reserved, others, equity>>

-----------------------------------------------------------------------------
(* What the broker and the market do on their own. *)

FillBuy(s) ==
  /\ s \in Working
  /\ spent' = [spent EXCEPT ![s] = @ + buys[s]]
  /\ buys' = [buys EXCEPT ![s] = 0]
  /\ cash' = cash - buys[s]
  /\ reserved' = reserved - buys[s]
  /\ UNCHANGED <<closing, others, equity>>

\* A DAY order that never trades lapses.
LapseBuy(s) ==
  /\ s \in Working
  /\ buys' = [buys EXCEPT ![s] = 0]
  /\ reserved' = reserved - buys[s]
  /\ UNCHANGED <<spent, closing, cash, others, equity>>

\* The position is sold.  Its profit or loss shows in equity, not in cash.
FillClose(s) ==
  /\ s \in closing
  /\ spent' = [spent EXCEPT ![s] = 0]
  /\ closing' = closing \ {s}
  /\ cash' = cash + spent[s]
  /\ UNCHANGED <<buys, reserved, others, equity>>

MarketMoves ==
  /\ \E e \in EquityLevels \ {equity} : equity' = e
  /\ UNCHANGED <<spent, buys, closing, cash, reserved, others>>

\* Another agent of the account orders, is filled, lets an order lapse or sells.
OthersTrade ==
  /\ \E o \in OthersBooks \ {others} :
       /\ others' = o
       /\ cash' = cash + others.taken - o.taken
       /\ reserved' = reserved + o.working - others.working
  /\ UNCHANGED <<spent, buys, closing, equity>>

Broker ==
  \/ \E s \in Symbols : FillBuy(s) \/ LapseBuy(s) \/ FillClose(s)
  \/ MarketMoves
  \/ OthersTrade
=============================================================================
