------------------------------ MODULE TopOfBook ------------------------------
(***************************************************************************)
(* One Binance book fed by two sources (orderbook.py): depth messages,     *)
(* which change single levels and lag, and the book ticker, which names    *)
(* the best bid and ask as of its own number and rides its own connection. *)
(* Both count by one sequence of the exchange (market).  Snapshots and     *)
(* depth messages reach only so far from the top, and a change out of      *)
(* reach is never told (orderbook.py:319-324).  A level is there or not;   *)
(* its size is not represented, and neither is how many a side may have.   *)
(***************************************************************************)
EXTENDS Integers, Sequences, FiniteSetsExt

CONSTANTS
  Top,          \* prices are 1 .. Top
  MaxMoves      \* bound: changes of the market

TopAssumptions == {Top, MaxMoves} \subseteq Nat

VARIABLES
  market,    \* the exchange's book at each number
  bids, asks,          \* OrderBook._bids, _asks
  depthAt,   \* last_update_id
  tickAt,    \* _top_update_id, 0 for none
  tick,      \* _bt_bid, _bt_ask
  synced,    \* is_synced
  astray     \* history: the levels of each side that depth did not tell the last
             \* of, or that were cut off, or changed by a ticker behind depth

book == <<bids, asks>>
vars == <<market, bids, asks, depthAt, tickAt, tick, synced, astray>>

Prices == 1 .. Top
Books == {m \in [bids : SUBSET Prices, asks : SUBSET Prices] :
            m.bids # {} /\ m.asks # {} /\ Max(m.bids) < Min(m.asks)}

Move(m) ==
  /\ Len(market) <= MaxMoves /\ m \in Books
  /\ market' = Append(market, m)
  /\ UNCHANGED <<book, depthAt, tickAt, tick, synced, astray>>

Now == Len(market)

-----------------------------------------------------------------------------
\* The levels from the top down to some depth: what a snapshot holds of a side,
\* and what is left of one that was trimmed.
BidsDownTo(s, low) == {p \in s : p >= low}
AsksUpTo(s, high) == {p \in s : p <= high}

\* apply_snapshot
Snapshot(v) ==
  /\ \E low \in market[v].bids, high \in market[v].asks :
       /\ bids' = BidsDownTo(market[v].bids, low)
       /\ asks' = AsksUpTo(market[v].asks, high)
  /\ astray' = [bids |-> market[v].bids \ bids', asks |-> market[v].asks \ asks']
  /\ depthAt' = v /\ synced' = TRUE
  /\ UNCHANGED <<market, tickAt, tick>>

\* Levels a newer ticker knows to be gone do not come back with an older
\* message.
Prunes(v) == tickAt > v

\* The levels that changed since the last message, those that came and went
\* among them.
Touched(side, v) ==
  {p \in Prices : \E k \in depthAt .. v, n \in depthAt .. v :
      (p \in market[k][side]) # (p \in market[n][side])}

\* What the message names becomes as it is at v.
Set(s, named, now) == (s \ named) \cup (now \cap named)
Untold(side, v, named) == (astray[side] \cup Touched(side, v)) \ named

\* apply_diff of the message up to v: first what it names, then a side that
\* grew too long loses its worst levels, then what a newer ticker knows better
Diff(v) ==
  /\ synced /\ v \in depthAt + 1 .. Now
  /\ \E nb \in SUBSET Touched("bids", v), na \in SUBSET Touched("asks", v) :
       LET b == Set(bids, nb, market[v].bids)
           a == Set(asks, na, market[v].asks)
       IN  \E low \in b \cup {1}, high \in a \cup {Top} :
             /\ bids' = {p \in BidsDownTo(b, low) : Prunes(v) => p <= tick.bid}
             /\ asks' = {p \in AsksUpTo(a, high) : Prunes(v) => p >= tick.ask}
             /\ astray' = [bids |-> Untold("bids", v, nb) \cup (b \ BidsDownTo(b, low)),
                           asks |-> Untold("asks", v, na) \cup (a \ AsksUpTo(a, high))]
  /\ depthAt' = v
  /\ UNCHANGED <<market, tickAt, tick, synced>>

\* apply_top_of_book: the ticker of number v, compared with tickers only
Ticker(v) ==
  /\ synced /\ v \in tickAt + 1 .. Now
  /\ tickAt' = v
  /\ tick' = [bid |-> Max(market[v].bids), ask |-> Min(market[v].asks)]
  /\ bids' = {p \in bids : p <= tick'.bid} \cup {tick'.bid}
  /\ asks' = {p \in asks : p >= tick'.ask} \cup {tick'.ask}
  /\ astray' = IF v >= depthAt THEN astray
               ELSE [bids |-> astray.bids \cup SymDiff(bids, bids'),
                     asks |-> astray.asks \cup SymDiff(asks, asks')]
  /\ UNCHANGED <<market, depthAt, synced>>

-----------------------------------------------------------------------------
Init ==
  /\ \E m \in Books : market = <<m>>
  /\ bids = {} /\ asks = {} /\ depthAt = 0
  /\ tickAt = 0 /\ tick = [bid |-> 0, ask |-> 0] /\ synced = FALSE
  /\ astray = [bids |-> {}, asks |-> {}]

Next ==
  \/ \E m \in Books : Move(m)
  \/ \E v \in 1 .. Now : Snapshot(v) \/ Diff(v) \/ Ticker(v)

Spec == Init /\ [][Next]_vars

TypeOK ==
  /\ market \in Seq(Books)
  /\ bids \subseteq Prices /\ asks \subseteq Prices
  /\ astray \in [bids : SUBSET Prices, asks : SUBSET Prices]
  /\ {depthAt, tickAt} \subseteq 0 .. Now /\ synced \in BOOLEAN

\* The ticker hurries ahead of depth and does not spoil it: once depth has
\* caught up, every level is the exchange's that depth told the last of, that
\* was not cut off, and that no ticker behind depth had changed since.
DepthSurvivesTicker ==
  synced /\ depthAt >= tickAt =>
    /\ bids \ astray.bids = market[depthAt].bids \ astray.bids
    /\ asks \ astray.asks = market[depthAt].asks \ astray.asks

-----------------------------------------------------------------------------
(* The inductive invariant: a level that is not astray and that the         *)
(* exchange left as it is from the version of the book to that of the       *)
(* ticker is right.                                                         *)

Still(side, p, from, to) ==
  \A k \in from .. to, n \in from .. to : (p \in market[k][side]) = (p \in market[n][side])

Settled(levels, side) ==
  \A p \in Prices \ astray[side] : Still(side, p, depthAt, tickAt) =>
    (p \in levels) = (p \in market[depthAt][side])

TopInv ==
  /\ TypeOK
  /\ tickAt > 0 =>
       tick = [bid |-> Max(market[tickAt].bids), ask |-> Min(market[tickAt].asks)]
  /\ synced => depthAt > 0 /\ Settled(bids, "bids") /\ Settled(asks, "asks")

=============================================================================
