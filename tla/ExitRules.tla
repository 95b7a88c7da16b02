------------------------------ MODULE ExitRules ------------------------------
(***************************************************************************)
(* When a position is left (shadow_engine.py _watch_position, _check_exit, *)
(* _check_simple_trail_exit; shadow_position.py).  The watcher of a        *)
(* position wakes up when the MEXC book changed, or after a moment, and    *)
(* looks at the time, the feed and the prices; the book's listener keeps   *)
(* the best price between two looks.  A price is the number of ticks it is *)
(* better than the entry, so long and short read alike; the position opens *)
(* at time 0.                                                              *)
(***************************************************************************)
EXTENDS Integers, Sequences, FiniteSetsExt

CONSTANTS
  Prices,      \* ticks from the entry
  Gone,        \* Binance's book is not there or not asked for
  ABSOLUTE_MAX_HOLD, FEED_STALE,   \* of the process; 0 stale switches it off
  MAX_HOLD, SL_GRACE, STOP_LOSS,   \* of the pair
  REVERSAL_MAX, MIN_HOLD,
  Rulebooks,   \* records: trail, breakeven, adverse, reversal, gapLeft, stall, dead,
               \* cut, cutPeak, cutAdverse; 0 for off
  MaxTime      \* bound: time

ExitAssumptions ==
  /\ Prices \subseteq Int /\ Gone \notin Prices
  /\ {ABSOLUTE_MAX_HOLD, FEED_STALE, MAX_HOLD, SL_GRACE, STOP_LOSS,
      REVERSAL_MAX, MIN_HOLD, MaxTime} \subseteq Nat
  /\ \A r \in Rulebooks : r.trail \in Int

VARIABLES
  time, looked,  \* the watcher has looked since time moved
  rules,       \* exit_strategy_cached, and what the pair's settings add to it
  price,       \* what the position would bring now
  priceAt,     \* last_update_ts_ms of the book
  known,       \* the book is there
  heard,       \* it has the position's listener
  lead,        \* the price on Binance the reversal goes by
  current,     \* current_price
  peak,        \* peak_price_favorable, Gone before the first price
  progress,    \* last_progress_ms
  reason,      \* the exit the watcher has decided
  best         \* history: the best price told since the position is open

vars == <<time, looked, rules, price, priceAt, known, heard, lead, current,
          peak, progress, reason, best>>

feed == <<price, priceAt, known, heard, lead>>
position == <<current, peak, progress>>
Open == reason = "none"

Better(p, q) == IF p = Gone \/ q > p THEN q ELSE p

-----------------------------------------------------------------------------
(* The feed.                                                               *)

\* update_peak_only, called by the book.  The variant leaves the peak to the
\* watcher's looks.
Noted_not(p) == UNCHANGED <<peak, progress>>
Noted(p) ==
  /\ peak' = Better(peak, p)
  /\ progress' = IF peak' = peak THEN progress ELSE time

PriceMoves(p) ==
  /\ known /\ Open
  /\ price' = p /\ priceAt' = time
  /\ IF heard THEN Noted(p) /\ best' = Better(best, p)
              ELSE UNCHANGED <<peak, progress, best>>
  /\ UNCHANGED <<time, looked, rules, known, heard, lead, current, reason>>

LeadMoves(p) ==
  /\ lead # p /\ Open
  /\ lead' = p
  /\ UNCHANGED <<time, looked, rules, price, priceAt, known, heard, position, reason, best>>

\* the pair is unsubscribed; subscribed again it has another book
BookGoes ==
  /\ known /\ Open
  /\ known' = FALSE /\ heard' = FALSE
  /\ UNCHANGED <<time, looked, rules, price, priceAt, lead, position, reason, best>>

BookComes ==
  /\ ~known /\ Open
  /\ known' = TRUE /\ priceAt' = time
  /\ UNCHANGED <<time, looked, rules, price, heard, lead, position, reason, best>>

-----------------------------------------------------------------------------
(* A look of the watcher.                                                  *)

Overdue == time > ABSOLUTE_MAX_HOLD
Stalled == FEED_STALE > 0 /\ time - priceAt > FEED_STALE

\* _check_exit, with the peak this look has brought up to date
StopLoss == STOP_LOSS > 0 /\ time >= SL_GRACE /\ -price >= STOP_LOSS

Reversed ==
  /\ lead # Gone
  /\ REVERSAL_MAX = 0 \/ time <= REVERSAL_MAX
  /\ IF rules.gapLeft > 0 THEN lead <= rules.gapLeft
                          ELSE rules.reversal > 0 /\ lead <= -rules.reversal

\* _check_simple_trail_exit
Adverse == -price >= rules.adverse
Cut == rules.cut > 0 /\ time >= rules.cut /\ peak' <= rules.cutPeak /\ -price >= rules.cutAdverse
Breakeven == rules.breakeven > 0 /\ peak' >= rules.breakeven /\ price <= 0
Trail == peak' > 0 /\ peak' - price >= rules.trail
NoProgress == rules.stall > 0 /\ peak' > 0 /\ time - progress' >= rules.stall
Dead == rules.dead > 0 /\ peak' <= 0 /\ time >= rules.dead

\* the first rule that holds decides
Rules ==
  <<"time_limit", "stop_loss", "binance_reversal", "simple_adverse", "nevergreen_cut",
    "simple_breakeven", "simple_trail", "simple_stalled", "simple_dead_on_arrival">>

Simple == time >= MIN_HOLD
Holds(rule) ==
  CASE rule = "time_limit"             -> time >= MAX_HOLD
    [] rule = "stop_loss"              -> StopLoss
    [] rule = "binance_reversal"       -> Reversed
    [] rule = "simple_adverse"         -> Simple /\ Adverse
    [] rule = "nevergreen_cut"         -> Simple /\ Cut
    [] rule = "simple_breakeven"       -> Simple /\ Breakeven
    [] rule = "simple_trail"           -> Simple /\ Trail
    [] rule = "simple_stalled"         -> Simple /\ NoProgress
    [] rule = "simple_dead_on_arrival" -> Simple /\ Dead

Holding == {i \in DOMAIN Rules : Holds(Rules[i])}
Exit == IF Holding = {} THEN "none" ELSE Rules[Min(Holding)]

LookAtTime ==
  /\ Open /\ Overdue
  /\ reason' = "absolute_max_hold" /\ looked' = TRUE
  /\ UNCHANGED <<time, rules, feed, position, best>>

LookBlind ==
  /\ Open /\ ~Overdue /\ ~known
  /\ looked' = TRUE
  /\ UNCHANGED <<time, rules, feed, position, reason, best>>

LookAtFeed ==
  /\ Open /\ ~Overdue /\ known /\ Stalled
  /\ reason' = "feed_stalled" /\ looked' = TRUE
  /\ UNCHANGED <<time, rules, feed, position, best>>

\* update_price, then the rules
LookAtPrice ==
  /\ Open /\ ~Overdue /\ known /\ ~Stalled
  /\ current' = price
  /\ peak' = Better(peak, price)
  /\ progress' = IF peak' = peak THEN progress ELSE time
  /\ best' = Better(best, price)
  /\ reason' = Exit /\ looked' = TRUE
  /\ UNCHANGED <<time, rules, feed>>

\* something in the look went wrong
LookFails ==
  /\ Open /\ ~Overdue /\ known /\ ~Stalled
  /\ reason' = "watcher_error" /\ looked' = TRUE
  /\ UNCHANGED <<time, rules, feed, position, best>>

-----------------------------------------------------------------------------
\* the watcher looks at least every _WATCH_TIME_TICK_SEC
Tick ==
  /\ looked /\ Open /\ time < MaxTime
  /\ time' = time + 1 /\ looked' = FALSE
  /\ UNCHANGED <<rules, feed, position, reason, best>>

Init ==
  /\ time = 0 /\ looked = FALSE
  /\ rules \in Rulebooks
  /\ price \in Prices /\ priceAt = 0 /\ known = TRUE /\ heard = TRUE
  /\ lead = Gone
  /\ current = 0 /\ peak = Gone /\ progress = 0
  /\ reason = "none" /\ best = Gone

Next ==
  \/ \E p \in Prices : PriceMoves(p)
  \/ \E p \in Prices \cup {Gone} : LeadMoves(p)
  \/ BookGoes \/ BookComes
  \/ LookAtTime \/ LookBlind \/ LookAtFeed \/ LookAtPrice \/ LookFails
  \/ Tick

Spec == Init /\ [][Next]_vars

-----------------------------------------------------------------------------
TypeOK ==
  /\ time \in 0 .. MaxTime /\ priceAt \in 0 .. time /\ progress \in 0 .. time
  /\ price \in Prices /\ current \in Prices \cup {0}
  /\ lead \in Prices \cup {Gone} /\ peak \in Prices \cup {Gone}

\* No state of the feed keeps a position past the absolute limit: books that
\* are gone, late or silent included.
HeldWithinLimit ==
  Open /\ looked => time <= ABSOLUTE_MAX_HOLD

\* A price that was reached between two looks counts: a look at a good book
\* leaves a position that has fallen back by the trail distance from the best
\* price the book told while the watcher listened, also when no look saw it.
TrailCounts ==
  time >= MIN_HOLD /\ best # Gone /\ best > 0 /\ best - price >= rules.trail
    /\ LookAtPrice =>
    reason' # "none"
TrailCountsEveryPrice == [][TrailCounts]_vars

\* The inductive invariant: the position's own peak is the best price told.
ExitInv ==
  /\ TypeOK /\ rules \in Rulebooks
  /\ peak = best
  /\ HeldWithinLimit

=============================================================================
