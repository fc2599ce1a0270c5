----------------------------- MODULE ClassicSim -----------------------------
(***************************************************************************)
(* The backtest of the mean-reversion and breakout rules: signal of        *)
(* src/src/trader/backtest/signals.py and backtest_symbol of               *)
(* src/src/trader/backtest/engine.py, one iteration of its second pass a   *)
(* step.  A bar is the snapshot at its close and whether its range reaches *)
(* the stop or the target of the position; prices do not matter otherwise. *)
(***************************************************************************)
EXTENDS Integers, Sequences

CONSTANTS Bars,          \* bound: the bars after the warm-up
          LongOnly,      \* risk.long_only
          Breakouts,     \* breakout.enabled
          TrendFilter,   \* enforce_trend_filter
          VolumeNeeded,  \* require_volume_confirmation
          Confluence     \* entry_mode = "confluence"

ASSUME ClassicSimAssumption ==
  /\ Bars \in Nat
  /\ {LongOnly, Breakouts, TrendFilter, VolumeNeeded, Confluence} \subseteq BOOLEAN

VARIABLES snap,    \* the snapshot of the last bar
          sigs,    \* the signals at the closes so far
          pos,     \* direction and entry bar; direction 0 when flat
          trades,  \* the closed trades
          ended    \* the loop is over

vars == <<snap, sigs, pos, trades, ended>>

\* rsi with bb_pct at an extreme; a channel break with rsi in its band; ema_trend and
\* price_vs_vwap; macd_hist; volume_surge.
Snapshots == [extreme : {"oversold", "none", "overbought"}, break : {"high", "none", "low"},
              trend : {"up", "down"}, vwap : {"above", "below"}, macd : -1 .. 1, surge : BOOLEAN]

StrongUp(s) == s.trend = "up" /\ s.vwap = "above"
StrongDown(s) == s.trend = "down" /\ s.vwap = "below"

\* Slip: a breakout need not go with the trend.
BreaksUpAnyhow(s) == Breakouts /\ s.break = "high"

BreaksUp(s) == Breakouts /\ s.break = "high" /\ StrongUp(s)
BreaksDown(s) == Breakouts /\ s.break = "low" /\ StrongDown(s)

\* Mean reversion, which the trend filter keeps out of a strong trend.
RevertsUp(s) == s.extreme = "oversold" /\ ~(TrendFilter /\ StrongDown(s))
RevertsDown(s) == s.extreme = "overbought" /\ ~(TrendFilter /\ StrongUp(s))

\* The volume gate and the MACD agreement of confluence mode.
Confirmed(s, side) == (VolumeNeeded => s.surge) /\ (Confluence => s.macd = side)

signal(s) ==
  LET long == (RevertsUp(s) \/ BreaksUp(s)) /\ Confirmed(s, 1)
      short == (RevertsDown(s) \/ BreaksDown(s)) /\ Confirmed(s, -1)
  IN IF long /\ ~short THEN 1 ELSE IF short /\ ~long THEN -1 ELSE 0

-----------------------------------------------------------------------------
Reasons == {"signal", "stop", "target", "eod"}
Trades == [direction : {-1, 1}, entry : 1 .. Bars, exit : 1 .. Bars, reason : Reasons]
Flat == [direction |-> 0, entry |-> 0]
Position == {Flat} \cup [direction : {-1, 1}, entry : 1 .. Bars]

Bar == Len(sigs)
LastSignal == sigs[Bar]

TypeOK ==
  /\ snap \in Snapshots
  /\ sigs \in Seq({-1, 0, 1}) /\ Bar \in 1 .. Bars + 1
  /\ pos \in Position
  /\ trades \in Seq(Trades)
  /\ ended \in BOOLEAN

\* The bar before the loop's first.
Init ==
  /\ snap \in Snapshots
  /\ sigs = <<signal(snap)>>
  /\ pos = Flat
  /\ trades = <<>>
  /\ ended = FALSE

\* Slip: the stop goes first and the flip later.
ExitReasonsIntrabarFirst(stop, target) ==
  IF pos.direction = 0 THEN "none"
  ELSE IF stop THEN "stop" ELSE IF target THEN "target"
  ELSE IF LastSignal # pos.direction THEN "signal" ELSE "none"

\* A flip leaves at the open; else the stop comes before the target.
ExitReason(stop, target) ==
  IF pos.direction = 0 THEN "none"
  ELSE IF LastSignal # pos.direction THEN "signal"
  ELSE IF stop THEN "stop" ELSE IF target THEN "target" ELSE "none"

Closed(exit, reason) ==
  Append(trades, [direction |-> pos.direction, entry |-> pos.entry, exit |-> exit,
                  reason |-> reason])

\* Slip: a flip leaves the one side and does not enter the other.
EntryUnlessFlip(reason) ==
  IF reason = "none" /\ pos.direction # 0 THEN pos
  ELSE IF reason # "signal" /\ (LastSignal = 1 \/ (LastSignal = -1 /\ ~LongOnly))
  THEN [direction |-> LastSignal, entry |-> Bar]
  ELSE Flat

\* Flat, or out by now: the last signal enters at the open of this very bar.
Entry(reason) ==
  IF reason = "none" /\ pos.direction # 0 THEN pos
  ELSE IF LastSignal = 1 \/ (LastSignal = -1 /\ ~LongOnly)
  THEN [direction |-> LastSignal, entry |-> Bar]
  ELSE Flat

\* One bar: exit, entry, and the signal at its close.  A window that yields no snapshot
\* leaves the signal 0, as the snapshots that yield none do.
NextBar ==
  /\ Bar <= Bars
  /\ \E stop, target \in BOOLEAN : LET reason == ExitReason(stop, target) IN
       /\ trades' = IF reason = "none" THEN trades ELSE Closed(Bar, reason)
       /\ pos' = Entry(reason)
  /\ snap' \in Snapshots
  /\ sigs' = Append(sigs, signal(snap'))
  /\ ended' = ended

\* An open position is closed at the last bar.
End ==
  /\ Bar = Bars + 1 /\ ~ended /\ ended' = TRUE
  /\ IF pos.direction = 0 THEN UNCHANGED <<trades, pos>>
     ELSE trades' = Closed(Bars, "eod") /\ pos' = Flat
  /\ UNCHANGED <<snap, sigs>>

Next == NextBar \/ End

Spec == Init /\ [][Next]_vars

-----------------------------------------------------------------------------
(* Properties. *)

\* "Breakout self-aligns": with the filter on, no signal goes against a strong trend,
\* although only mean reversion is filtered, and there a breakout is never cancelled by a
\* reversal the other way.
WithTheTrend == TrendFilter =>
  /\ ~(signal(snap) = 1 /\ StrongDown(snap)) /\ ~(signal(snap) = -1 /\ StrongUp(snap))
  /\ BreaksUp(snap) /\ Confirmed(snap, 1) => signal(snap) = 1
  /\ BreaksDown(snap) /\ Confirmed(snap, -1) => signal(snap) = -1

Wanted(k) == IF sigs[k] = 1 \/ (sigs[k] = -1 /\ ~LongOnly) THEN sigs[k] ELSE 0

StoppedOn(k) == \E n \in DOMAIN trades :
  trades[n].exit = k /\ trades[n].reason \in {"stop", "target"}

\* "A signal computed at bar i's close is acted on at bar i+1's open": after every bar the
\* position is the one the signal before the bar asks for, flips included, or none, but
\* that only on a bar whose range has reached a stop or a target.
ExposureFollowsSignal == Bar > 1 /\ ~ended =>
  \/ pos.direction = Wanted(Bar - 1)
  \/ pos = Flat /\ StoppedOn(Bar - 1)

\* A trade was wanted on every bar it was held, entry included; it ended by signal exactly
\* if it was no longer wanted.
TradesAreWanted == \A n \in DOMAIN trades : LET t == trades[n] IN
  /\ \A k \in {t.entry} \cup (t.entry .. t.exit - 1) : Wanted(k) = t.direction
  /\ t.reason = "signal" => Wanted(t.exit) # t.direction
  /\ t.reason \in {"stop", "target"} => Wanted(t.exit) = t.direction

\* "A signal computed at bar i's close is acted on at bar i+1's open": at an open a trade
\* starts only when the one before is over by then, and stops and targets are not.
NothingFromTheFuture == \A n \in 2 .. Len(trades) :
  trades[n - 1].exit < trades[n].entry
    \/ (trades[n - 1].exit = trades[n].entry /\ trades[n - 1].reason = "signal")
=============================================================================
