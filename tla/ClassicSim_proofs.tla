-------------------------- MODULE ClassicSim_proofs --------------------------
(***************************************************************************)
(* What TLAPS proves of ClassicSim, for every number of bars and every     *)
(* choice of the strategy's switches.                                      *)
(***************************************************************************)
EXTENDS ClassicSim, TLAPS

-----------------------------------------------------------------------------
(* Types. *)

LEMMA SignalType ==
  ASSUME NEW s \in Snapshots
  PROVE  signal(s) \in {-1, 0, 1}
BY DEF signal

\* A bar adds its signal behind those before.
LEMMA SignalsGrow ==
  ASSUME TypeOK, NextBar
  PROVE  /\ sigs' \in Seq({-1, 0, 1})
         /\ Len(sigs') = Len(sigs) + 1
         /\ \A k \in 1 .. Len(sigs) : sigs'[k] = sigs[k]
<1>1. signal(snap') \in {-1, 0, 1}
  BY SignalType DEF NextBar
<1>2. sigs' = Append(sigs, signal(snap')) /\ sigs \in Seq({-1, 0, 1})
  BY DEF NextBar, TypeOK
<1>. QED
  BY <1>1, <1>2

LEMMA LastSignalType ==
  ASSUME TypeOK
  PROVE  Bar \in 1 .. Bars + 1 /\ LastSignal \in {-1, 0, 1}
BY DEF TypeOK, Bar, LastSignal

\* A trade is booked on a bar of its own position.
LEMMA BookingType ==
  ASSUME TypeOK, pos.direction # 0, NEW exit \in 1 .. Bars, NEW reason \in Reasons
  PROVE  Closed(exit, reason) \in Seq(Trades)
<1>1. pos.direction \in {-1, 1} /\ pos.entry \in 1 .. Bars
  BY DEF TypeOK, Position, Flat
<1>2. [direction |-> pos.direction, entry |-> pos.entry, exit |-> exit, reason |-> reason]
        \in Trades
  BY <1>1 DEF Trades
<1>. QED
  BY <1>2 DEF Closed, TypeOK

LEMMA EntryType ==
  ASSUME TypeOK, Bar <= Bars, NEW reason
  PROVE  Entry(reason) \in Position
BY LastSignalType DEF Entry, TypeOK, Position, Flat

LEMMA TypeStep ==
  ASSUME TypeOK, [Next]_vars
  PROVE  TypeOK'
<1>1. CASE NextBar
  <2>. Bar <= Bars /\ snap' \in Snapshots /\ ended' \in BOOLEAN
    BY <1>1 DEF NextBar, TypeOK
  <2>1. sigs' \in Seq({-1, 0, 1}) /\ Bar' \in 1 .. Bars + 1
    BY <1>1, SignalsGrow, ClassicSimAssumption, LastSignalType DEF Bar
  <2>2. pos' \in Position
    BY <1>1, EntryType DEF NextBar
  <2>3. trades' \in Seq(Trades)
    <3>1. PICK stop \in BOOLEAN, target \in BOOLEAN :
            trades' = IF ExitReason(stop, target) = "none" THEN trades
                      ELSE Closed(Bar, ExitReason(stop, target))
      BY <1>1 DEF NextBar
    <3>2. CASE ExitReason(stop, target) = "none"
      BY <3>1, <3>2 DEF TypeOK
    <3>3. CASE ExitReason(stop, target) # "none"
      <4>1. pos.direction # 0 /\ ExitReason(stop, target) \in Reasons
        BY <3>3 DEF ExitReason, Reasons
      <4>. QED
        BY <3>1, <3>3, <4>1, BookingType, LastSignalType
    <3>. QED
      BY <3>2, <3>3
  <2>. QED
    BY <2>1, <2>2, <2>3 DEF TypeOK
<1>2. CASE End
  <2>2. trades' \in Seq(Trades) /\ pos' \in Position
    <3>1. CASE pos.direction = 0
      BY <1>2, <3>1 DEF End, TypeOK
    <3>2. CASE pos.direction # 0
      <4>1. Bars \in 1 .. Bars
        BY <3>2, ClassicSimAssumption DEF TypeOK, Position, Flat
      <4>2. Closed(Bars, "eod") \in Seq(Trades)
        BY <3>2, <4>1, BookingType DEF Reasons
      <4>. QED
        BY <1>2, <3>2, <4>2 DEF End, Position
    <3>. QED
      BY <3>1, <3>2
  <2>3. UNCHANGED <<snap, sigs>> /\ ended' \in BOOLEAN
    BY <1>2 DEF End
  <2>. QED
    BY <2>2, <2>3 DEF TypeOK, Bar
<1>3. CASE UNCHANGED vars
  BY <1>3 DEF vars, TypeOK, Bar
<1>. QED
  BY <1>1, <1>2, <1>3 DEF Next

\* Every reachable state of the simulation is well typed.
THEOREM Typing == Spec => []TypeOK
<1>1. Init => TypeOK
  <2>1. ASSUME Init PROVE TypeOK
    <3>1. signal(snap) \in {-1, 0, 1}
      BY <2>1, SignalType DEF Init
    <3>2. sigs \in Seq({-1, 0, 1}) /\ Len(sigs) = 1
      BY <2>1, <3>1 DEF Init
    <3>3. Bar \in 1 .. Bars + 1
      BY <3>2, ClassicSimAssumption DEF Bar
    <3>4. trades \in Seq(Trades)
      BY <2>1 DEF Init
    <3>5. ended \in BOOLEAN /\ snap \in Snapshots /\ pos = Flat
      BY <2>1 DEF Init
    <3>. QED
      BY <3>2, <3>3, <3>4, <3>5 DEF TypeOK, Position
  <2>. QED
    BY <2>1
<1>. QED
  BY <1>1, TypeStep, PTL DEF Spec

-----------------------------------------------------------------------------
(* The signal against the trend. *)

\* With the filter on, no signal goes against a strong trend, and a breakout is never
\* cancelled by a reversal: "breakout self-aligns", whatever the other switches.
THEOREM BreakoutSelfAligns == Spec => []WithTheTrend
<1>1. TypeOK => WithTheTrend
  <2>. SUFFICES ASSUME snap \in Snapshots, TrendFilter
                PROVE  /\ ~(signal(snap) = 1 /\ StrongDown(snap))
                       /\ ~(signal(snap) = -1 /\ StrongUp(snap))
                       /\ BreaksUp(snap) /\ Confirmed(snap, 1) => signal(snap) = 1
                       /\ BreaksDown(snap) /\ Confirmed(snap, -1) => signal(snap) = -1
    BY DEF TypeOK, WithTheTrend
  <2>1. ~(StrongUp(snap) /\ StrongDown(snap))
    BY DEF StrongUp, StrongDown
  <2>2. StrongDown(snap) => ~RevertsUp(snap) /\ ~BreaksUp(snap)
    BY <2>1 DEF RevertsUp, BreaksUp
  <2>3. StrongUp(snap) => ~RevertsDown(snap) /\ ~BreaksDown(snap)
    BY <2>1 DEF RevertsDown, BreaksDown
  <2>4. (BreaksUp(snap) => StrongUp(snap)) /\ (BreaksDown(snap) => StrongDown(snap))
    BY DEF BreaksUp, BreaksDown
  <2>. QED
    BY <2>2, <2>3, <2>4 DEF signal
<1>. QED
  BY <1>1, Typing, PTL

-----------------------------------------------------------------------------
(* What a position and a trade rest on. *)

\* The position was wanted on every bar since its entry, which is a bar gone by.
PositionIsWanted ==
  /\ ended => pos = Flat /\ Bar = Bars + 1
  /\ pos.direction # 0 =>
       pos.entry < Bar /\ \A k \in pos.entry .. Bar - 1 : Wanted(k) = pos.direction
  /\ pos.direction = 0 /\ Bar > 1 /\ ~ended => Wanted(Bar - 1) = 0

LEMMA WantedKept ==
  ASSUME TypeOK, NextBar, NEW k \in 1 .. Bar
  PROVE  Wanted(k)' = Wanted(k)
BY SignalsGrow DEF Wanted, Bar

LEMMA EntryIsWanted ==
  ASSUME TypeOK, PositionIsWanted, Bar <= Bars, NEW stop \in BOOLEAN, NEW target \in BOOLEAN,
         NEW p, p = Entry(ExitReason(stop, target))
  PROVE  /\ p.direction # 0 =>
              p.entry <= Bar /\ \A k \in p.entry .. Bar : Wanted(k) = p.direction
         /\ p.direction = 0 => Wanted(Bar) = 0
<1>. DEFINE reason == ExitReason(stop, target)
<1>1. Bar \in Nat \ {0} /\ LastSignal = sigs[Bar] /\ LastSignal \in {-1, 0, 1}
  BY LastSignalType DEF LastSignal
<1>2. CASE reason = "none" /\ pos.direction # 0
  <2>1. p = pos /\ LastSignal = pos.direction
    BY <1>2 DEF Entry, ExitReason
  <2>2. pos.entry \in Nat /\ pos.entry < Bar
    BY <1>2 DEF PositionIsWanted, TypeOK, Position, Flat
  <2>3. \A k \in pos.entry .. Bar - 1 : Wanted(k) = pos.direction
    BY <1>2 DEF PositionIsWanted
  <2>4. Wanted(Bar - 1) = pos.direction
    BY <1>1, <2>2, <2>3
  <2>5. Wanted(Bar) = pos.direction
    BY <1>1, <2>1, <2>4 DEF Wanted
  <2>. QED
    BY <1>1, <1>2, <2>1, <2>2, <2>3, <2>5
<1>3. CASE ~(reason = "none" /\ pos.direction # 0)
  <2>1. p = IF LastSignal = 1 \/ (LastSignal = -1 /\ ~LongOnly)
            THEN [direction |-> LastSignal, entry |-> Bar] ELSE Flat
    BY <1>3 DEF Entry
  <2>. QED
    BY <1>1, <2>1 DEF Wanted, Flat
<1>. QED
  BY <1>2, <1>3

LEMMA PositionStep ==
  ASSUME TypeOK, PositionIsWanted, [Next]_vars
  PROVE  PositionIsWanted'
<1>1. CASE NextBar
  <2>1. PICK stop \in BOOLEAN, target \in BOOLEAN :
          pos' = Entry(ExitReason(stop, target))
    BY <1>1 DEF NextBar
  <2>2. Bar <= Bars /\ Bar' = Bar + 1 /\ Bar \in Nat \ {0} /\ Bars \in Nat
    BY <1>1, SignalsGrow, LastSignalType, ClassicSimAssumption DEF NextBar, Bar
  <2>3. ~ended'
    BY <1>1, <2>2 DEF NextBar, PositionIsWanted
  <2>4. /\ pos'.direction # 0 =>
             pos'.entry <= Bar /\ \A k \in pos'.entry .. Bar : Wanted(k) = pos'.direction
        /\ pos'.direction = 0 => Wanted(Bar) = 0
    BY <2>1, <2>2, EntryIsWanted
  <2>5. pos'.direction # 0 => pos'.entry \in Nat \ {0}
    BY <1>1, TypeStep DEF TypeOK, Position, Flat, Next
  <2>6. \A k \in 1 .. Bar : Wanted(k)' = Wanted(k)
    BY <1>1, WantedKept
  <2>. QED
    BY <2>2, <2>3, <2>4, <2>5, <2>6 DEF PositionIsWanted
<1>2. CASE End
  <2>1. pos' = Flat
    BY <1>2 DEF End, Flat, TypeOK, Position
  <2>. QED
    BY <1>2, <2>1 DEF End, Flat, PositionIsWanted, Bar
<1>3. CASE UNCHANGED vars
  BY <1>3 DEF vars, PositionIsWanted, Bar, Wanted
<1>. QED
  BY <1>1, <1>2, <1>3 DEF Next

LEMMA PositionAlways == Spec => []PositionIsWanted
<1>1. Init => PositionIsWanted
  BY DEF Init, PositionIsWanted, Flat, Bar
<1>. QED
  BY <1>1, PositionStep, Typing, PTL DEF Spec

\* The position after a bar is the one the signal before the bar asks for, or none on the
\* bar of a stop or a target: no signal is acted on late, none is held against.
THEOREM SignalsAreActedOn == Spec => []ExposureFollowsSignal
<1>1. TypeOK /\ PositionIsWanted => ExposureFollowsSignal
  <2>1. ASSUME TypeOK, PositionIsWanted, Bar > 1, ~ended, pos.direction # 0
        PROVE  pos.direction = Wanted(Bar - 1)
    BY <2>1, LastSignalType DEF PositionIsWanted, TypeOK, Position, Flat
  <2>. QED
    BY <2>1 DEF ExposureFollowsSignal, PositionIsWanted
<1>. QED
  BY <1>1, Typing, PositionAlways, PTL

\* The shape of a booked trade: see TradesAreWanted.
Justified(t) ==
  /\ \A k \in {t.entry} \cup (t.entry .. t.exit - 1) : Wanted(k) = t.direction
  /\ t.reason = "signal" => Wanted(t.exit) # t.direction
  /\ t.reason \in {"stop", "target"} => Wanted(t.exit) = t.direction

\* A trade looks at no signal that has yet to come, so later bars do not change it.
LEMMA JustifiedKept ==
  ASSUME TypeOK, NextBar, NEW t \in Trades, t.exit < Bar, t.entry < Bar, Justified(t)
  PROVE  Justified(t)'
<1>1. \A k \in 1 .. Bar : Wanted(k)' = Wanted(k)
  BY WantedKept
<1>2. t.entry \in 1 .. Bar /\ t.exit \in 1 .. Bar /\ Bar \in Nat
  BY LastSignalType DEF Trades
<1>3. \A k \in {t.entry} \cup (t.entry .. t.exit - 1) : k \in 1 .. Bar
  BY <1>2
<1>. QED
  BY <1>1, <1>2, <1>3 DEF Justified

LEMMA BookedTrade ==
  ASSUME TypeOK, PositionIsWanted, pos.direction # 0, Bar <= Bars,
         NEW stop \in BOOLEAN, NEW target \in BOOLEAN, NEW t,
         ExitReason(stop, target) # "none",
         t = [direction |-> pos.direction, entry |-> pos.entry, exit |-> Bar,
              reason |-> ExitReason(stop, target)]
  PROVE  Justified(t)
<1>1. /\ pos.entry \in Nat \ {0} /\ pos.entry < Bar /\ Bar \in Nat
      /\ \A k \in pos.entry .. Bar - 1 : Wanted(k) = pos.direction
  BY LastSignalType DEF PositionIsWanted, TypeOK, Position, Flat
<1>2. \A k \in {t.entry} \cup (t.entry .. t.exit - 1) : Wanted(k) = t.direction
  BY <1>1
<1>3. Wanted(Bar - 1) = pos.direction
  BY <1>1
<1>4. LastSignal = sigs[Bar]
  BY DEF LastSignal
<1>5. t.reason = "signal" => Wanted(t.exit) # t.direction
  <2>1. t.reason = "signal" => LastSignal # pos.direction
    BY DEF ExitReason
  <2>. QED
    BY <1>4, <2>1 DEF Wanted
<1>6. t.reason \in {"stop", "target"} => Wanted(t.exit) = t.direction
  <2>1. t.reason \in {"stop", "target"} => LastSignal = pos.direction
    BY DEF ExitReason
  <2>. QED
    BY <1>3, <1>4, <2>1 DEF Wanted
<1>. QED
  BY <1>2, <1>5, <1>6 DEF Justified

Books == \A n \in DOMAIN trades :
  trades[n].exit < Bar /\ trades[n].entry < Bar /\ Justified(trades[n])

\* Booking adds one trade behind the others.
LEMMA OneMore ==
  ASSUME TypeOK, NEW exit \in 1 .. Bars, NEW reason \in Reasons, pos.direction # 0,
         trades' = Closed(exit, reason), NEW n \in DOMAIN trades'
  PROVE  \/ n \in DOMAIN trades /\ trades'[n] = trades[n]
         \/ trades'[n] = [direction |-> pos.direction, entry |-> pos.entry, exit |-> exit,
                          reason |-> reason]
<1>. DEFINE t == [direction |-> pos.direction, entry |-> pos.entry, exit |-> exit,
                  reason |-> reason]
<1>1. t \in Trades
  BY DEF TypeOK, Position, Flat, Trades
<1>2. trades \in Seq(Trades) /\ trades' = Append(trades, t)
  BY DEF TypeOK, Closed
<1>. HIDE DEF t
<1>3. (n \in DOMAIN trades /\ trades'[n] = trades[n]) \/ trades'[n] = t
  BY <1>1, <1>2
<1>. QED
  BY <1>3 DEF t

\* A trade that is past stays so and stays justified.
LEMMA PastKept ==
  ASSUME TypeOK, NextBar, Books, NEW n \in DOMAIN trades, NEW t, t = trades[n]
  PROVE  t.exit < Bar' /\ t.entry < Bar' /\ Justified(t)'
<1>1. t \in Trades
  BY DEF TypeOK
<1>2. t.exit < Bar /\ t.entry < Bar /\ Justified(t)
  BY DEF Books
<1>3. Bar' = Bar + 1 /\ Bar \in Nat /\ t.exit \in Nat /\ t.entry \in Nat
  BY <1>1, SignalsGrow, LastSignalType DEF Bar, Trades
<1>4. t.exit < Bar' /\ t.entry < Bar'
  BY <1>2, <1>3
<1>5. Justified(t)'
  BY <1>1, <1>2, JustifiedKept
<1>. QED
  BY <1>4, <1>5

\* So does the one the bar books.
LEMMA NewTradePast ==
  ASSUME TypeOK, PositionIsWanted, NextBar, pos.direction # 0,
         NEW stop \in BOOLEAN, NEW target \in BOOLEAN, ExitReason(stop, target) # "none",
         NEW t, t = [direction |-> pos.direction, entry |-> pos.entry, exit |-> Bar,
                     reason |-> ExitReason(stop, target)]
  PROVE  t.exit < Bar' /\ t.entry < Bar' /\ Justified(t)'
<1>1. Bar <= Bars /\ Bar' = Bar + 1 /\ Bar \in Nat \ {0}
  BY SignalsGrow, LastSignalType DEF NextBar, Bar
<1>2. t.entry \in Nat \ {0} /\ t.entry < Bar /\ t.exit = Bar
  BY DEF PositionIsWanted, TypeOK, Position, Flat
<1>3. Justified(t)
  BY <1>1, BookedTrade
<1>4. \A k \in 1 .. Bar : Wanted(k)' = Wanted(k)
  BY WantedKept
<1>5. \A k \in {t.entry} \cup (t.entry .. t.exit - 1) : k \in 1 .. Bar
  BY <1>1, <1>2
<1>6. t.exit \in 1 .. Bar
  BY <1>1, <1>2
<1>7. Justified(t)'
  BY <1>3, <1>4, <1>5, <1>6 DEF Justified
<1>. QED
  BY <1>1, <1>2, <1>7

\* The trade the end books.
LEMMA LastTrade ==
  ASSUME TypeOK, PositionIsWanted, End, pos.direction # 0,
         NEW t, t = [direction |-> pos.direction, entry |-> pos.entry, exit |-> Bars,
                     reason |-> "eod"]
  PROVE  t.exit < Bar' /\ t.entry < Bar' /\ Justified(t)'
<1>1. Bar = Bars + 1 /\ Bar' = Bar /\ sigs' = sigs /\ Bars \in Nat
  BY ClassicSimAssumption DEF End, Bar
<1>2. /\ pos.entry \in Nat /\ pos.entry < Bar
      /\ \A k \in pos.entry .. Bar - 1 : Wanted(k) = pos.direction
  BY DEF PositionIsWanted, TypeOK, Position, Flat
<1>3. \A k \in {t.entry} \cup (t.entry .. t.exit - 1) : Wanted(k) = t.direction
  BY <1>1, <1>2
<1>4. Justified(t)
  BY <1>3 DEF Justified
<1>5. Justified(t)'
  BY <1>1, <1>4 DEF Justified, Wanted
<1>. QED
  BY <1>1, <1>2, <1>5

LEMMA BooksStep ==
  ASSUME TypeOK, PositionIsWanted, Books, [Next]_vars
  PROVE  Books'
<1>1. CASE NextBar
  <2>. SUFFICES ASSUME NEW n \in DOMAIN trades', NEW t, t = trades'[n]
                PROVE  t.exit < Bar' /\ t.entry < Bar' /\ Justified(t)'
    BY DEF Books, Justified
  <2>1. PICK stop \in BOOLEAN, target \in BOOLEAN :
          trades' = IF ExitReason(stop, target) = "none" THEN trades
                    ELSE Closed(Bar, ExitReason(stop, target))
    BY <1>1 DEF NextBar
  <2>2. Bar \in 1 .. Bars
    BY <1>1, LastSignalType DEF NextBar
  <2>3. CASE n \in DOMAIN trades /\ t = trades[n]
    BY <1>1, <2>3, PastKept
  <2>4. CASE ExitReason(stop, target) # "none"
    <3>1. pos.direction # 0 /\ ExitReason(stop, target) \in Reasons
      BY <2>4 DEF ExitReason, Reasons
    <3>2. \/ n \in DOMAIN trades /\ t = trades[n]
          \/ t = [direction |-> pos.direction, entry |-> pos.entry, exit |-> Bar,
                  reason |-> ExitReason(stop, target)]
      BY <2>1, <2>2, <2>4, <3>1, OneMore
    <3>. QED
      BY <1>1, <2>3, <2>4, <3>1, <3>2, NewTradePast
  <2>. QED
    BY <2>1, <2>3, <2>4
<1>2. CASE End
  <2>. SUFFICES ASSUME NEW n \in DOMAIN trades', NEW t, t = trades'[n]
                PROVE  t.exit < Bar' /\ t.entry < Bar' /\ Justified(t)'
    BY DEF Books, Justified
  <2>1. CASE n \in DOMAIN trades /\ t = trades[n]
    <3>1. t.exit < Bar /\ t.entry < Bar /\ Justified(t)
      BY <2>1 DEF Books
    <3>. QED
      BY <1>2, <3>1 DEF End, Bar, Justified, Wanted
  <2>2. CASE pos.direction # 0
    <3>1. Bars \in 1 .. Bars /\ "eod" \in Reasons
      BY <2>2, ClassicSimAssumption DEF TypeOK, Position, Flat, Reasons
    <3>2. trades' = Closed(Bars, "eod")
      BY <1>2, <2>2 DEF End
    <3>3. \/ n \in DOMAIN trades /\ t = trades[n]
          \/ t = [direction |-> pos.direction, entry |-> pos.entry, exit |-> Bars,
                  reason |-> "eod"]
      BY <2>2, <3>1, <3>2, OneMore
    <3>. QED
      BY <1>2, <2>1, <2>2, <3>3, LastTrade
  <2>. QED
    BY <1>2, <2>1, <2>2 DEF End
<1>3. CASE UNCHANGED vars
  BY <1>3 DEF vars, Books, Bar, Justified, Wanted
<1>. QED
  BY <1>1, <1>2, <1>3 DEF Next

\* Every trade was wanted on every bar it was held, and ended by signal exactly if it no
\* longer was: no trade rests on a signal of a later bar.
THEOREM TradesWanted == Spec => []TradesAreWanted
<1>1. Init => Books
  BY DEF Init, Books
<1>2. Books => TradesAreWanted
  BY DEF Books, TradesAreWanted, Justified
<1>. QED
  BY <1>1, <1>2, BooksStep, Typing, PositionAlways, PTL DEF Spec
=============================================================================
