----------------------------- MODULE NewsFilter -----------------------------
(***************************************************************************)
(* The news risk filter: src/src/trader/news.py over the key news:<symbol> *)
(* of src/src/trader/persistence/cache.py.  What a reply of the model      *)
(* comes to, when it blocks an entry, and how long it is kept.  The steps  *)
(* of assess() are in the module of the tick that awaits them.             *)
(*                                                                         *)
(* A slot is one tick interval; the key lives for TTL of them.             *)
(***************************************************************************)
EXTENDS Integers, Sequences

CONSTANTS Watchlist,        \* the symbols, in the order of the watchlist
          TTL,              \* news.cache_ttl_minutes, in slots
          BlockOnBearish,   \* news.block_on_bearish
          BlockOnEarnings,  \* news.block_on_imminent_earnings
          Replies           \* what the model may say

Symbols == {Watchlist[i] : i \in DOMAIN Watchlist}
Labels == {"bullish", "neutral", "bearish"}

ASSUME NewsFilterAssumption ==
  /\ Watchlist \in Seq(Symbols)
  /\ TTL \in Nat
  /\ BlockOnBearish \in BOOLEAN /\ BlockOnEarnings \in BOOLEAN
  /\ Replies \subseteq [json : BOOLEAN, label : STRING, confidence : {"high", "low", "text"},
                        earnings : {"true", "false", "yes", "no"}]

\* sure: confidence >= bearish_confidence_min.
Sentiments == [label : Labels, sure : BOOLEAN, earnings : BOOLEAN, error : BOOLEAN]

Neutral == [label |-> "neutral", sure |-> FALSE, earnings |-> FALSE, error |-> FALSE]
Failed == [Neutral EXCEPT !.error = TRUE]

\* A reply without JSON, or with a confidence that is no number, is an error; an
\* unknown label is neutral.  Earnings may come as a text, "yes" or "no", instead of
\* true or false: bool() takes either for true.
parse_sentiment(r) ==
  IF ~r.json \/ r.confidence = "text" THEN Failed
  ELSE [label |-> IF r.label \in Labels THEN r.label ELSE "neutral",
        sure |-> r.confidence = "high", earnings |-> r.earnings # "false", error |-> FALSE]

should_block(v) ==
  /\ ~v.error
  /\ (BlockOnEarnings /\ v.earnings) \/ (BlockOnBearish /\ v.label = "bearish" /\ v.sure)

-----------------------------------------------------------------------------
(* The key of a symbol: the Sentiment and the slots it has left, -1 without. *)

VARIABLE verdicts

Absent == [verdict |-> Neutral, left |-> -1]
OnFile(s) == verdicts[s].left >= 0

VerdictsTypeOK == verdicts \in [Symbols -> [verdict : Sentiments, left : -1 .. TTL]]
NoVerdicts == verdicts = [s \in Symbols |-> Absent]

\* Slip: a slot of the lifetime is lost.
SetShort(s, v) == verdicts' = [verdicts EXCEPT ![s] = [verdict |-> v, left |-> TTL - 1]]

set_news_sentiment(s, v) == verdicts' = [verdicts EXCEPT ![s] = [verdict |-> v, left |-> TTL]]

\* Slip: the key is set without an expiry.
NeverAged(c) == c

\* A slot passes.  A key in its last slot expires before the next one.
Aged(c) == IF c.left <= 0 THEN Absent ELSE [c EXCEPT !.left = @ - 1]

\* ... at any moment of it.
Expire(s) == verdicts[s].left = 0 /\ verdicts' = [verdicts EXCEPT ![s] = Absent]
=============================================================================
