----------------------------- MODULE KillSwitch -----------------------------
(***************************************************************************)
(* What the daily-drawdown kill-switch keeps and how it decides:           *)
(* src/src/trader/risk/drawdown.py over the day keys of                    *)
(* src/src/trader/persistence/cache.py.  The keys live in Redis, so they   *)
(* survive the agent's process; they carry the UTC day in their name and   *)
(* expire a fixed time after they were written.  The steps of check() are  *)
(* in the module of the tick that makes them.                              *)
(*                                                                         *)
(* Time advances in whole hours; a model may let an "hour" be long, as     *)
(* only the two lengths below and their order matter.                      *)
(***************************************************************************)
EXTENDS Integers

CONSTANTS HoursPerDay,
          KeyHours,        \* _DAY_TTL_SECONDS: how long a day key lives
          MaxDay,          \* bound: the last day of the model
          DrawdownPct      \* risk.daily_drawdown_pct, in percent

ASSUME KillSwitchAssumption ==
  /\ HoursPerDay \in Nat \ {0}
  /\ KeyHours \in Nat
  /\ HoursPerDay <= KeyHours
  /\ MaxDay \in Nat
  /\ DrawdownPct \in Nat \ {0}

VARIABLES day, hour,   \* the UTC clock
          anchor,      \* "anchor:<day>": the equity and the hours left to live
          paused       \* "paused:<day>": the hours left to live, 0 when absent

switchVars == <<day, hour, anchor, paused>>

Days == 0 .. MaxDay
Hours == 0 .. HoursPerDay - 1

KillSwitchTypeOK ==
  /\ day \in Days
  /\ hour \in Hours
  /\ anchor \in [Days -> [equity : Nat, ttl : 0 .. KeyHours]]
  /\ paused \in [Days -> 0 .. KeyHours]

NoAnchor == [equity |-> 0, ttl |-> 0]

KillSwitchInit ==
  /\ day = 0
  /\ hour = 0
  /\ anchor = [d \in Days |-> NoAnchor]
  /\ paused = [d \in Days |-> 0]

HasAnchor(d) == anchor[d].ttl > 0
IsPaused(d) == paused[d] > 0

\* drawdown >= daily_drawdown_pct, where drawdown is 0 if the anchor is 0.
Breached(ref, e) == ref # 0 /\ (ref - e) * 100 >= DrawdownPct * ref

SetAnchor(d, e) == anchor' = [anchor EXCEPT ![d] = [equity |-> e, ttl |-> KeyHours]]
SetPaused(d) == paused' = [paused EXCEPT ![d] = KeyHours]

-----------------------------------------------------------------------------
(* One hour passes: the clock moves and Redis ages the keys. *)

Age(ttl) == IF ttl = 0 THEN 0 ELSE ttl - 1
AgeAnchor(k) == IF k.ttl <= 1 THEN NoAnchor ELSE [k EXCEPT !.ttl = @ - 1]

HourPasses ==
  /\ \/ hour + 1 < HoursPerDay /\ hour' = hour + 1 /\ day' = day
     \/ hour + 1 = HoursPerDay /\ day < MaxDay /\ hour' = 0 /\ day' = day + 1
  /\ anchor' = [d \in Days |-> AgeAnchor(anchor[d])]
  /\ paused' = [d \in Days |-> Age(paused[d])]
=============================================================================
