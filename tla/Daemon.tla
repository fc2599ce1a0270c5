-------------------------------- MODULE Daemon --------------------------------
(***************************************************************************)
(* The running daemon: Scheduler fires run_tick of                         *)
(* src/src/trader/trend_trader.py, whose loop reads bars, asks NewsFilter  *)
(* before an entry and leaves one record.  Here a tick is what it reads of *)
(* the clock, the bars and the news, and when; what it does to the account *)
(* is TrendTick.                                                           *)
(*                                                                         *)
(* The model may take hours to answer.  Meanwhile the session opens and    *)
(* closes, keys expire, the interval job comes up and the process may die. *)
(***************************************************************************)
EXTENDS NewsFilter, Scheduler

ASSUME DaemonAssumption == Crypto \subseteq Symbols

VARIABLES market_open,  \* the clock read of each task's tick
          sym,          \* the place in the watchlist its loop has reached
          sent,         \* the Sentiment it is about to store
          sawPartial,   \* history: a scheduled tick judged a bar still in progress
          said,         \* history: what the last assessment of a symbol had to go by,
                        \*   and the slots since
          outcome       \* history: what the candidate just decided came to

tickVars == <<market_open, sym, sent, sawPartial, outcome>>
vars == <<schedulerVars, verdicts, tickVars, said>>

Calls == {"clock", "history", "lookup", "news", "scoring", "store"}
MaxAge == TTL + MaxSpan
Words == {"adverse", "denial", "fine"}

TypeOK ==
  /\ SchedulerTypeOK(Calls)
  /\ VerdictsTypeOK
  /\ market_open \in [Tasks -> BOOLEAN]
  /\ sym \in [Tasks -> 1 .. Len(Watchlist) + 1]
  /\ sent \in [Tasks -> Sentiments]
  /\ sawPartial \in BOOLEAN
  /\ said \in [Symbols -> [word : Words, age : 0 .. MaxAge + 1]]
  /\ outcome \in {"none", "entry", "blocked", "dropped"}

Init ==
  /\ SchedulerInit
  /\ NoVerdicts
  /\ market_open = [t \in Tasks |-> FALSE]
  /\ sym = [t \in Tasks |-> 1]
  /\ sent = [t \in Tasks |-> Neutral]
  /\ sawPartial = FALSE
  /\ said = [s \in Symbols |-> [word |-> "fine", age |-> MaxAge + 1]]
  /\ outcome = "none"

Goes(t, call) == at' = [at EXCEPT ![t] = call]
Same == UNCHANGED <<clock, up, once, due, running, span>>

\* A reply that parse_sentiment makes no error of, and says the news are bad or earnings
\* near, in whatever form it says so.
Readable(r) == r.json /\ r.confidence # "text"
Adverse(r) ==
  /\ Readable(r)
  /\ \/ BlockOnEarnings /\ r.earnings \in {"true", "yes"}
     \/ BlockOnBearish /\ r.label = "bearish" /\ r.confidence = "high"

\* One that denies near earnings by a text.
Denial(r) == Readable(r) /\ BlockOnEarnings /\ r.earnings = "no"

Word(r) == IF Adverse(r) THEN "adverse" ELSE IF Denial(r) THEN "denial" ELSE "fine"

Says(s, word) == said' = [said EXCEPT ![s] = [word |-> word, age |-> 0]]

-----------------------------------------------------------------------------
(* The tick.  The account, the drawdown check and the positions come before and *)
(* after the clock read: see TrendTick. *)

\* One clock read; a failed one counts as open.
ReadClock(t) ==
  /\ HasLoop(t) /\ at[t] = "clock" /\ Goes(t, "history")
  /\ \/ market_open' = [market_open EXCEPT ![t] = SessionOpen] /\ faults' = faults
     \/ market_open' = [market_open EXCEPT ![t] = TRUE] /\ Fault
  /\ sym' = [sym EXCEPT ![t] = 1]
  /\ Same /\ UNCHANGED <<verdicts, sent, sawPartial, said, outcome>>

NextSymbol(t) == Goes(t, "history") /\ sym' = [sym EXCEPT ![t] = @ + 1]

Candidate(t) == Watchlist[sym[t]]

\* completed_bars: during a session the last bar is today's and in progress, with crypto
\* at any time; it is dropped when the tick's clock read said open.
KeepsPartial(t) == (SessionOpen \/ Candidate(t) \in Crypto) /\ ~market_open[t]

\* get_history and the signal: no entry is wanted, or no bars came; or an entry is.
ReadBars(t) ==
  /\ HasLoop(t) /\ at[t] = "history" /\ sym[t] <= Len(Watchlist)
  /\ sawPartial' = (sawPartial \/ (KeepsPartial(t) /\ ~once))
  /\ \/ NextSymbol(t)
     \/ Goes(t, "lookup") /\ sym' = sym
  /\ outcome' = "none"
  /\ Same /\ UNCHANGED <<faults, verdicts, market_open, sent, said>>

\* should_block, and the entry that follows unless it blocks.
Decide(t, v) ==
  /\ outcome' = IF should_block(v) THEN "blocked" ELSE "entry"
  /\ NextSymbol(t)

\* Redis fails in assess(): the handler of the loop drops the entry.
Drop(t) == outcome' = "dropped" /\ NextSymbol(t) /\ Fault

\* assess(): the verdict on file.
LookUp(t) ==
  /\ HasLoop(t) /\ at[t] = "lookup"
  /\ \/ OnFile(Candidate(t)) /\ Decide(t, verdicts[Candidate(t)].verdict) /\ faults' = faults
     \/ ~OnFile(Candidate(t)) /\ Goes(t, "news") /\ UNCHANGED <<sym, outcome, faults>>
     \/ Drop(t)
  /\ Same /\ UNCHANGED <<verdicts, market_open, sent, sawPartial, said>>

\* fetch_recent: headlines, none, or an error.
FetchNews(t) ==
  /\ HasLoop(t) /\ at[t] = "news"
  /\ \/ Goes(t, "scoring") /\ UNCHANGED <<sent, said>>
     \/ \E v \in {Neutral, Failed} :
          Goes(t, "store") /\ sent' = [sent EXCEPT ![t] = v] /\ Says(Candidate(t), "fine")
  /\ Same /\ UNCHANGED <<faults, verdicts, market_open, sym, sawPartial, outcome>>

\* claude_score: a reply, or an exception.
ModelReplies(t) ==
  /\ HasLoop(t) /\ at[t] = "scoring" /\ Goes(t, "store")
  /\ \/ \E r \in Replies :
          sent' = [sent EXCEPT ![t] = parse_sentiment(r)] /\ Says(Candidate(t), Word(r))
     \/ sent' = [sent EXCEPT ![t] = Failed] /\ Says(Candidate(t), "fine")
  /\ Same /\ UNCHANGED <<faults, verdicts, market_open, sym, sawPartial, outcome>>

\* An error is stored like a verdict.
Store(t) ==
  /\ HasLoop(t) /\ at[t] = "store"
  /\ \/ set_news_sentiment(Candidate(t), sent[t]) /\ Decide(t, sent[t]) /\ faults' = faults
     \/ Drop(t) /\ UNCHANGED verdicts
  /\ sent' = [sent EXCEPT ![t] = Neutral]
  /\ Same /\ UNCHANGED <<market_open, sawPartial, said>>

LocalsGone(t) ==
  /\ market_open' = [market_open EXCEPT ![t] = FALSE]
  /\ sym' = [sym EXCEPT ![t] = 1]
  /\ sent' = [sent EXCEPT ![t] = Neutral]
  /\ outcome' = "none"
  /\ UNCHANGED <<verdicts, sawPartial, said>>

\* The journal, and the end of the tick.
RecordTick(t) ==
  /\ HasLoop(t) /\ at[t] = "history" /\ sym[t] = Len(Watchlist) + 1
  /\ TickReturns(t) /\ faults' = faults
  /\ LocalsGone(t)

\* A call outside the loop's handlers fails: account, drawdown, positions, journal.
Raise(t) ==
  /\ HasLoop(t) /\ at[t] \in {"clock", "history"}
  /\ Fault /\ TickRaises(t)
  /\ LocalsGone(t)

Tick == \E t \in Tasks :
  \/ ReadClock(t) \/ ReadBars(t) \/ LookUp(t) \/ FetchNews(t) \/ ModelReplies(t) \/ Store(t)
  \/ RecordTick(t) \/ Raise(t)

-----------------------------------------------------------------------------
Kill ==
  /\ Dies
  /\ market_open' = [t \in Tasks |-> FALSE] /\ sym' = [t \in Tasks |-> 1]
  /\ sent' = [t \in Tasks |-> Neutral]
  /\ outcome' = "none"
  /\ UNCHANGED <<verdicts, sawPartial, said>>

TimePasses ==
  /\ SlotPasses
  /\ verdicts' = [s \in Symbols |-> Aged(verdicts[s])]
  /\ said' = [s \in Symbols |->
       IF said[s].age >= MaxAge THEN [word |-> "fine", age |-> MaxAge + 1]
       ELSE [said[s] EXCEPT !.age = @ + 1]]
  /\ UNCHANGED tickVars

KeyExpires == (\E s \in Symbols : Expire(s)) /\ UNCHANGED <<schedulerVars, tickVars, said>>

Scheduling == (Boot \/ BootFails \/ Fire) /\ UNCHANGED <<verdicts, tickVars, said>>

Next == Tick \/ Scheduling \/ Kill \/ TimePasses \/ KeyExpires

Spec == Init /\ [][Next]_vars

\* The loop and the container turn, the model answers in the end, and time passes.
FairSpec ==
  Spec /\ WF_vars(Tick) /\ WF_vars(Scheduling) /\ WF_vars(TimePasses)

-----------------------------------------------------------------------------
(* Properties. *)

\* Two ticks never run at once, although the boot tick is no instance of the job and
\* lets the loop go while it awaits the model; and _running says so exactly, after
\* every exception too.
NoOverlap ==
  /\ \A t, u \in Tasks : InTick(t) /\ InTick(u) => t = u
  /\ up /\ ~once => (running <=> Ticking)

\* Without crypto in the watchlist no scheduled tick judges a bar still in progress: a
\* session that opens while a tick runs finds a tick that was let in, so one that began
\* in a session and read the clock then.  (A run-once tick passes no gate, and may; so
\* does every tick of a watchlist with crypto, whose own bars are always in progress.)
ClosedBarsOnly == has_crypto \/ ~sawPartial

\* What decides an entry is the model's word on the symbol, no older than the key's
\* lifetime and the tick that heard it.  An adverse word blocks, always; no other does,
\* an error least of all, but for near earnings denied by a text.
DecidedOnNews ==
  [][\A t \in Tasks :
       at[t] \in {"lookup", "store"} /\ at'[t] = "history" /\ outcome' # "dropped" =>
         /\ said[Candidate(t)].age <= MaxAge
         /\ said[Candidate(t)].word = "adverse" => outcome' = "blocked"
         /\ outcome' = "blocked" => said[Candidate(t)].word # "fine"]_vars

\* As long as nothing fails, the model is asked about a symbol once in the lifetime of
\* the key, over ticks and processes, errors of the model included.
PaidOncePerTTL ==
  [][\A t \in Tasks :
       at[t] = "news" /\ at'[t] = "scoring" /\ faults = 0 => said[Candidate(t)].age >= TTL]_vars

\* Ticks keep coming: no exception, restart, skipped or missed run stops them for good.
TicksKeepComing == []<>Ticking

\* What news.py says of failures: none of them costs an entry.
FailsOpen == outcome # "dropped"
=============================================================================
