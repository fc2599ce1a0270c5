------------------------------ MODULE RiskHook ------------------------------
(***************************************************************************)
(* The gate in front of the model's orders: evaluate_order of              *)
(* src/src/trader/risk/hook.py, a decision on one tool call against the    *)
(* snapshot of the account that its tick took.                             *)
(*                                                                         *)
(* A price is known or not, a stop is absent, within max_stop_distance_pct *)
(* of the known price or beyond it, a size is within max_position_pct of   *)
(* the equity or beyond it.                                                *)
(***************************************************************************)
EXTENDS Integers, FiniteSets

CONSTANTS Watchlist,    \* the agent's whitelist
          Others,       \* symbols of the account's other agents
          MaxOpen,      \* max_open_positions
          RequireStop,  \* require_stop_loss
          LongOnly      \* long_only

ASSUME RiskHookAssumption ==
  /\ IsFiniteSet(Watchlist) /\ IsFiniteSet(Others)
  /\ Watchlist \cap Others = {}
  /\ MaxOpen \in Nat
  /\ RequireStop \in BOOLEAN /\ LongOnly \in BOOLEAN

Symbols == Watchlist \cup Others

Orders ==
  [side : {"buy", "sell"}, symbol : Symbols \cup {"missing"}, stop : {"none", "near", "far"},
   given : {"notional", "quantity", "nothing"}, oversized : BOOLEAN]

\* RiskContext: what the gate knows of the account.
Contexts == [open : SUBSET Symbols, priced : SUBSET Watchlist, paused : BOOLEAN]

\* "Mandatory bracket stop-loss."  The distance needs a price.
StopAccepted(o, ctx) ==
  /\ RequireStop => o.stop # "none"
  /\ o.stop = "far" => o.symbol \notin ctx.priced

\* Slip: the cap is compared after the fact.
SlotFreeAfter(o, ctx) == o.symbol \in ctx.open \/ Cardinality(ctx.open) <= MaxOpen

\* "Open-position cap": positions of every agent count, and adding to one that
\* the snapshot lists is never a new one.
SlotFree(o, ctx) == o.symbol \in ctx.open \/ Cardinality(ctx.open) < MaxOpen

\* "Position-size cap", on a notional that can be determined.
SizeAccepted(o, ctx) ==
  /\ o.given = "notional" \/ (o.given = "quantity" /\ o.symbol \in ctx.priced)
  /\ ~o.oversized

\* The decision on an entry.  Calls that reduce risk are always allowed.
EntryAllowed(o, ctx) ==
  /\ ~ctx.paused
  /\ LongOnly => o.side = "buy"
  /\ o.symbol \in Watchlist
  /\ StopAccepted(o, ctx)
  /\ SlotFree(o, ctx)
  /\ SizeAccepted(o, ctx)
=============================================================================
