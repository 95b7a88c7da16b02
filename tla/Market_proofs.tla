---------------------------- MODULE Market_proofs ----------------------------
(***************************************************************************)
(* Proofs about what the bot knows of the market, and what it buys of it   *)
(* to look like an account that trades, for any values of the constants:   *)
(* the depth streams, the ticker, the burst alert and spot warming, each   *)
(* instantiated under a name of its own.                                   *)
(***************************************************************************)
EXTENDS Integers, Sequences, FiniteSets, Functions, FiniteSetTheorems,
        WellFoundedInduction, TLAPS

CONSTANTS
  \* DepthFeed
  Levels, Outer, RESNAPS, MaxVersion, MaxFetches, MaxDrops,
  \* MexcDepth and BinanceDepth add
  MAX_VERSION_GAP, MaxLosses,
  \* TopOfBook
  Top, MaxMoves,
  \* BurstAlert
  Keys, Persist, Repeat, MaxClock,
  \* SpotWarming
  Tokens, Prices, Cash, Step, OrderSizes, Ceiling, Baseline, MinHold, MinExchange,
  Quota, MaxOrders, MaxEvents

VARIABLES
  \* DepthFeed
  changes, link, read, drops, ready, last, buffer, book, applied, fetch, resnaps,
  listed, snap, sound, stray,
  \* BinanceDepth adds
  losses,
  \* TopOfBook
  market, bids, asks, depthAt, tickAt, tick, synced, astray,
  \* BurstAlert
  now, active, run_since, told, series,
  \* SpotWarming
  wallet, cash, due, offered, price, plan, books, stage, order, events, orders,
  sales, missed, windfall

Feed == INSTANCE DepthFeed
Mexc == INSTANCE MexcDepth
Binance == INSTANCE BinanceDepth
Quotes == INSTANCE TopOfBook
Burst == INSTANCE BurstAlert
Spot == INSTANCE SpotWarming

-----------------------------------------------------------------------------
(* Depth streams: what they share.                                         *)

Messages == [from : Nat, to : Nat, names : SUBSET Levels]

\* A bounded set of numbers has a smallest and a greatest member.
LEMMA LeastOf ==
  ASSUME NEW T \in SUBSET Nat, T # {}
  PROVE  \E x \in T : \A y \in T : x <= y
<1> DEFINE R == {p \in Nat \X Nat : p[1] < p[2]}
<1>1. OpToRel(<, Nat) = R
  BY DEF OpToRel
<1>2. IsWellFoundedOn(R, Nat)
  BY <1>1, NatLessThanWellFounded
<1>3. PICK x \in T : \A y \in T : ~(<<y, x>> \in R)
  BY <1>2, WFMin
<1>4. ASSUME NEW y \in T PROVE x <= y
  <2>1. ~(y < x)
    BY <1>3
  <2>2. QED
    BY <2>1
<1>5. QED
  BY <1>4

\* Min and Max of FiniteSetsExt
LEMMA MinIs ==
  ASSUME NEW T \in SUBSET Nat, T # {}
  PROVE  Feed!Min(T) \in T /\ \A y \in T : Feed!Min(T) <= y
BY LeastOf DEF Feed!Min

\* ... and a greatest one.
LEMMA MaxIs ==
  ASSUME NEW n \in Nat, NEW T \in SUBSET (0 .. n), T # {}
  PROVE  Feed!Max(T) \in T /\ \A y \in T : y <= Feed!Max(T)
<1> DEFINE D == {n - t : t \in T}
<1>1. D \in SUBSET Nat /\ D # {}
  <2>1. \A t \in T : n - t \in Nat
    OBVIOUS
  <2>2. QED
    BY <2>1
<1>2. PICK d \in D : \A e \in D : d <= e
  BY <1>1, LeastOf
<1>3. PICK m \in T : d = n - m
  OBVIOUS
<1>4. \A y \in T : y <= m
  <2> SUFFICES ASSUME NEW y \in T PROVE y <= m
    OBVIOUS
  <2>1. n - y \in D
    OBVIOUS
  <2>2. n - m <= n - y
    BY <1>2, <1>3, <2>1
  <2>3. QED
    BY <2>2
<1>5. QED
  BY <1>4 DEF Feed!Max

\* A member of a sequence
LEMMA MemberOfSeq ==
  ASSUME NEW S, NEW s \in Seq(S), NEW n \in DOMAIN s PROVE s[n] \in S
OBVIOUS

\* The change a level shows at a version.
LEMMA LatestIs ==
  ASSUME changes \in Seq(Levels), NEW l \in Levels, NEW v \in 0 .. Len(changes)
  PROVE  /\ Feed!Latest(l, v) \in 0 .. v
         /\ Feed!Latest(l, v) # 0 => changes[Feed!Latest(l, v)] = l
         /\ \A n \in 1 .. v : changes[n] = l => n <= Feed!Latest(l, v)
<1> DEFINE T == {0} \cup {n \in 1 .. v : changes[n] = l}
<1>1. T \in SUBSET (0 .. v) /\ T # {} /\ v \in Nat
  OBVIOUS
<1>2. Feed!Max(T) \in T /\ \A y \in T : y <= Feed!Max(T)
  BY <1>1, MaxIs
<1>3. Feed!Latest(l, v) = Feed!Max(T)
  BY DEF Feed!Latest
<1>4. QED
  BY <1>1, <1>2, <1>3

\* Later versions show later changes, and the same ones if none came between.
LEMMA LatestGrows ==
  ASSUME changes \in Seq(Levels), NEW l \in Levels,
         NEW u \in 0 .. Len(changes), NEW v \in 0 .. Len(changes), u <= v
  PROVE  /\ Feed!Latest(l, u) <= Feed!Latest(l, v)
         /\ Feed!Latest(l, v) <= u => Feed!Latest(l, u) = Feed!Latest(l, v)
<1>1. Feed!Latest(l, u) # 0 => Feed!Latest(l, u) <= Feed!Latest(l, v)
  BY LatestIs
<1>2. Feed!Latest(l, u) <= Feed!Latest(l, v)
  BY <1>1, LatestIs
<1>3. ASSUME Feed!Latest(l, v) <= u,
             Feed!Latest(l, v) # 0 PROVE Feed!Latest(l, v) <= Feed!Latest(l, u)
  BY <1>3, LatestIs
<1>4. QED
  BY <1>2, <1>3, LatestIs

\* A new change leaves what was shown before it.
LEMMA ChangeKeepsLatest ==
  ASSUME changes \in Seq(Levels), NEW x \in Levels, changes' = Append(changes, x)
  PROVE  \A l \in Levels, v \in 0 .. Len(changes) : Feed!Latest(l, v)' = Feed!Latest(l, v)
<1> SUFFICES ASSUME NEW l \in Levels, NEW v \in 0 .. Len(changes)
             PROVE  Feed!Latest(l, v)' = Feed!Latest(l, v)
  OBVIOUS
<1>1. \A n \in 1 .. v : changes'[n] = changes[n]
  OBVIOUS
<1>2. {n \in 1 .. v : changes'[n] = l} = {n \in 1 .. v : changes[n] = l}
  BY <1>1
<1>3. QED
  BY <1>2 DEF Feed!Latest

-----------------------------------------------------------------------------
(* Applying messages.                                                      *)

\* A message that begins no later than the book and reaches beyond what was
\* read keeps in order what it tells of and what it needs not tell of.
LEMMA MergeFits ==
  ASSUME Feed!TypeOK, Feed!Known, Feed!BookFits, NEW m \in Messages,
         NEW f, f = m.from, NEW v, v = m.to,
         f < v, v <= Len(changes), f <= applied, read < v, f <= read,
         NEW l \in Levels \ Feed!Missed(stray, m), Feed!Latest(l, snap) <= v
  PROVE  Feed!Merge(book, m)[l] = Feed!Latest(l, v)
<1>1. /\ changes \in Seq(Levels) /\ applied \in 0 .. Len(changes)
      /\ snap \in 0 .. Len(changes) /\ v \in 0 .. Len(changes)
      /\ Len(changes) \in Nat /\ read \in Nat /\ f \in Nat /\ v \in Nat
  BY DEF Feed!TypeOK, Feed!Known, Messages
<1>2. Feed!Merge(book, m)[l] = IF l \in m.names THEN Feed!Latest(l, v) ELSE book[l]
  BY DEF Feed!Merge
<1>0. l \in Levels
  OBVIOUS
<1>a. l \in m.names \/ (l \notin stray /\ ~(Feed!Latest(l, v) > f))
  BY DEF Feed!Missed, Feed!Changed
<1>3. ASSUME l \notin stray, ~(Feed!Latest(l, v) > f) PROVE book[l] = Feed!Latest(l, v)
  <2>a. \A u \in 0 .. Len(changes) : Feed!Latest(l, u) \in 0 .. u
    BY <1>0, <1>1, LatestIs
  <2>1. /\ Feed!Latest(l, v) \in Nat /\ Feed!Latest(l, snap) \in Nat
        /\ Feed!Latest(l, v) <= f
        /\ Feed!Latest(l, applied) \in Nat
    BY <1>1, <1>3, <2>a
  <2>2. CASE snap <= v
    <3>1. applied <= v
      BY <1>1, <2>2 DEF Feed!BookFits
    <3>2. Feed!Latest(l, snap) <= Feed!Latest(l, v)
      BY <1>1, <2>2, LatestGrows
    <3>3. Feed!Latest(l, snap) <= applied
      BY <1>1, <2>1, <3>2
    <3>4. Feed!Latest(l, applied) = Feed!Latest(l, v)
      BY <1>1, <2>1, <3>1, LatestGrows
    <3>5. QED
      BY <1>3, <3>3, <3>4 DEF Feed!BookFits
  <2>3. CASE v < snap
    <3>1. applied <= snap
      BY <1>1, <2>3 DEF Feed!BookFits
    <3>2. Feed!Latest(l, v) = Feed!Latest(l, snap)
      BY <1>1, <2>3, LatestGrows
    <3>3. Feed!Latest(l, snap) <= applied
      BY <1>1, <2>1, <3>2
    <3>4. Feed!Latest(l, applied) = Feed!Latest(l, snap)
      BY <1>1, <3>1, <3>3, LatestGrows
    <3>5. QED
      BY <1>3, <3>2, <3>3, <3>4 DEF Feed!BookFits
  <2>4. QED
    BY <1>1, <2>2, <2>3
<1>4. QED
  BY <1>2, <1>3, <1>a

\* Messages that follow each other take the book of a snapshot that lies
\* behind the first one's beginning to the version the last one reaches.
Follow(ns) ==
  /\ \A k \in ns : Feed!Min(ns) < k => k - 1 \in ns /\ buffer[k].from = buffer[k - 1].to

\* Messages that follow each other, put on a true book, leave a book that is
\* true of all but what they did not tell.
LEMMA MergeAllIsTruth ==
  ASSUME Feed!TypeOK, Feed!BufferFits, Feed!Known, NEW ns \in SUBSET DOMAIN buffer, ns # {},
         NEW v \in 0 .. Len(changes), Follow(ns), buffer[Feed!Min(ns)].from <= v,
         \A k \in ns : buffer[k].to > v
  PROVE  /\ \A l \in Levels \ Feed!MissedAll(v, ns) :
              Feed!MergeAll(Feed!Truth(v), ns)[l] = Feed!Latest(l, buffer[Feed!Max(ns)].to)
         /\ Feed!Max(ns) \in ns
<1> DEFINE z == buffer[Feed!Max(ns)].to
<1>1. /\ changes \in Seq(Levels) /\ Len(changes) \in Nat
      /\ buffer \in Seq(Messages) /\ Len(buffer) \in Nat
      /\ read \in Nat /\ read <= Len(changes) /\ v \in Nat
  BY DEF Feed!TypeOK, Feed!Known, Messages
<1>a. \A k \in ns : /\ k \in 1 .. Len(buffer) /\ buffer[k] \in Messages
                    /\ buffer[k].from \in Nat /\ buffer[k].to \in Nat
  <2> SUFFICES ASSUME NEW k \in ns
               PROVE  /\ k \in 1 .. Len(buffer) /\ buffer[k] \in Messages
                      /\ buffer[k].from \in Nat /\ buffer[k].to \in Nat
    OBVIOUS
  <2>1. k \in DOMAIN buffer /\ DOMAIN buffer = 1 .. Len(buffer)
    BY <1>1
  <2>2. buffer[k] \in Messages
    BY <1>1, <2>1, MemberOfSeq
  <2>3. QED
    BY <2>1, <2>2 DEF Messages
<1>2. ns \in SUBSET (0 .. Len(buffer)) /\ ns \in SUBSET Nat
  <2>1. \A k \in ns : k \in 0 .. Len(buffer) /\ k \in Nat
    BY <1>1, <1>a
  <2>2. QED
    BY <2>1
<1>3. /\ Feed!Min(ns) \in ns /\ \A k \in ns : Feed!Min(ns) <= k
      /\ Feed!Max(ns) \in ns /\ \A k \in ns : k <= Feed!Max(ns)
  BY <1>1, <1>2, MinIs, MaxIs
<1>4. \A k \in ns : /\ buffer[k].to \in 0 .. Len(changes)
                    /\ buffer[k].from < buffer[k].to
  <2>1. \A k \in ns : buffer[k].from < buffer[k].to /\ buffer[k].to <= read
    BY DEF Feed!BufferFits, Feed!TypeOK
  <2>2. QED
    BY <1>1, <1>a, <2>1
<1>5. \A j, k \in ns : j < k => buffer[j].to <= buffer[k].from
  BY DEF Feed!BufferFits
<1>6. \A j, k \in ns : j <= k => buffer[j].to <= buffer[k].to
  <2> SUFFICES ASSUME NEW j \in ns, NEW k \in ns, j < k
               PROVE  buffer[j].to <= buffer[k].to
    BY <1>a
  <2>1. buffer[j].to <= buffer[k].from /\ buffer[k].from < buffer[k].to
    BY <1>4, <1>5
  <2>2. QED
    BY <1>a, <2>1
<1> HIDE DEF z
<1>7. z \in 0 .. Len(changes) /\ v < z /\ \A k \in ns : buffer[k].to <= z
  BY <1>3, <1>4, <1>6 DEF z
<1>8. ASSUME NEW l \in Levels \ Feed!MissedAll(v, ns)
      PROVE  Feed!MergeAll(Feed!Truth(v), ns)[l] = Feed!Latest(l, z)
  <2> DEFINE named == {n \in ns : l \in buffer[n].names}
             x == Feed!Latest(l, z)
  <2>1. Feed!MergeAll(Feed!Truth(v), ns)[l]
          = IF named = {} THEN Feed!Latest(l, v) ELSE Feed!Latest(l, buffer[Feed!Max(named)].to)
    BY DEF Feed!MergeAll, Feed!Truth
  <2>2. x \in 0 .. z /\ x \in Nat /\ Feed!Latest(l, v) \in Nat
    BY <1>1, <1>7, LatestIs
  <2>3. ASSUME NEW k \in ns, x <= buffer[k].to PROVE Feed!Latest(l, buffer[k].to) = x
    BY <1>1, <1>4, <1>7, <2>3, LatestGrows
  <2>4. named # {} => Feed!Max(named) \in named /\ \A k \in named : k <= Feed!Max(named)
    BY <1>1, <1>2, MaxIs
  <2>5. named \subseteq ns
    OBVIOUS
  <2>6. CASE x <= v
    <3>1. Feed!Latest(l, v) = x
      BY <1>1, <1>7, <2>6, LatestGrows
    <3>2. \A k \in ns : Feed!Latest(l, buffer[k].to) = x
      <4> SUFFICES ASSUME NEW k \in ns PROVE x <= buffer[k].to
        BY <2>3
      <4>1. buffer[k].to > v
        OBVIOUS
      <4>2. QED
        BY <1>1, <1>a, <2>2, <2>6, <4>1
    <3> HIDE DEF named, x
    <3>3. QED
      BY <2>1, <2>4, <2>5, <3>1, <3>2 DEF x
  <2>7. CASE v < x
    <3> DEFINE reach == {k \in ns : x <= buffer[k].to}
    <3>1. Feed!Max(ns) \in reach
      BY <1>3, <2>2 DEF z
    <3>2. PICK k \in reach : \A j \in reach : k <= j
      BY <1>2, <3>1, LeastOf
    <3>3. k \in ns /\ x <= buffer[k].to /\ k \in Nat
      BY <1>a, <3>2
    <3>4. buffer[k].from < x
      <4>1. CASE k = Feed!Min(ns)
        BY <1>1, <1>3, <1>a, <2>2, <2>7, <4>1
      <4>2. CASE Feed!Min(ns) < k
        <5>1. k - 1 \in ns /\ buffer[k].from = buffer[k - 1].to
          BY <3>3, <4>2 DEF Follow
        <5>2. ~(x <= buffer[k - 1].to)
          BY <3>2, <3>3, <5>1
        <5>3. QED
          BY <1>a, <2>2, <5>1, <5>2
      <4>3. QED
        BY <1>3, <1>a, <3>3, <4>1, <4>2
    <3>5. Feed!Latest(l, buffer[k].to) = x
      BY <2>3, <3>3
    <3>6. PICK j \in named : k <= j
      <4>1. l \in Feed!Changed(buffer[k].from, buffer[k].to) \cap Feed!Changed(v, buffer[k].to)
        BY <2>7, <3>4, <3>5 DEF Feed!Changed
      <4>2. \E j \in ns : k <= j /\ l \in buffer[j].names
        BY <3>3, <4>1 DEF Feed!MissedAll
      <4>3. QED
        BY <4>2
    <3>7. Feed!Max(named) \in ns /\ k <= Feed!Max(named)
      <4>1. Feed!Max(named) \in named /\ j <= Feed!Max(named) /\ j \in ns
        BY <2>4, <3>6
      <4>2. QED
        BY <1>a, <3>3, <3>6, <4>1
    <3>8. buffer[k].to <= buffer[Feed!Max(named)].to
      BY <1>6, <3>3, <3>7
    <3>9. x <= buffer[Feed!Max(named)].to
      BY <1>a, <2>2, <3>3, <3>7, <3>8
    <3>10. Feed!Latest(l, buffer[Feed!Max(named)].to) = x
      BY <2>3, <3>7, <3>9
    <3> HIDE DEF named, x
    <3>11. QED
      BY <2>1, <3>6, <3>10 DEF x
  <2>8. QED
    BY <1>1, <2>2, <2>6, <2>7
<1>9. QED
  BY <1>3, <1>8 DEF z

\* What the book shows then.
LEMMA ShowsIs ==
  ASSUME NEW b \in [Levels -> 0 .. MaxVersion], NEW s \in SUBSET Levels,
         NEW cut \in SUBSET Levels, MaxVersion \in Nat, Feed!Shows(b, s, cut)
  PROVE  /\ book' \in [Levels -> 0 .. MaxVersion] /\ stray' \in SUBSET Levels
         /\ \A l \in Levels \ stray' : l \notin s /\ book'[l] = b[l]
BY DEF Feed!Shows

-----------------------------------------------------------------------------
(* What the clients share.                                                 *)

\* Asking for a snapshot takes a place that is free; only one that is alone
\* and asked out of sync is sound.
Asked(g, r) ==
  /\ g \in [1 .. MaxFetches -> Feed!FetchType]
  /\ \A n \in 1 .. MaxFetches :
       /\ g[n].at = Feed!Unanswered \/ g[n].at = fetch[n].at
       /\ g[n].sound => /\ g[n].at = Feed!Unanswered /\ ~r
                        /\ \A j \in (1 .. MaxFetches) \ {n} : g[j] = Feed!NoFetch

\* A snapshot that is asked for.
LEMMA AskFits ==
  ASSUME Feed!DepthAssumptions, NEW fs \in [1 .. MaxFetches -> Feed!FetchType],
         Feed!CanAsk(fs),
         ready' \in BOOLEAN,
         \A n \in 1 .. MaxFetches : fs[n].at = Feed!Unanswered \/ fs[n].at = fetch[n].at,
         NEW kind \in {"connect", "heal", "resync"}
  PROVE  Asked(Feed!Ask(fs, kind), ready')
<1> DEFINE T == {i \in DOMAIN fs : fs[i] = Feed!NoFetch}
           free == Feed!Min(T)
           g == Feed!Ask(fs, kind)
<1>1. T \in SUBSET Nat /\ T # {} /\ DOMAIN fs = 1 .. MaxFetches
  BY DEF Feed!CanAsk
<1>2. free \in T
  BY <1>1, MinIs
<1> HIDE DEF T, free
<1>3. g = [i \in 1 .. MaxFetches |->
             IF i = free THEN [kind |-> kind, at |-> Feed!Unanswered, sound |-> Feed!Idle(fs) /\ ~ready']
             ELSE [fs[i] EXCEPT !.sound = FALSE]]
  BY <1>1 DEF Feed!Ask, T, free
<1> HIDE DEF g
<1>4. ASSUME NEW n \in 1 .. MaxFetches
      PROVE  /\ g[n] \in Feed!FetchType
             /\ g[n].at = Feed!Unanswered \/ g[n].at = fs[n].at
             /\ g[n].sound => n = free /\ g[n].at = Feed!Unanswered /\ Feed!Idle(fs) /\ ~ready'
  <2>1. CASE n = free
    <3>1. g[n] = [kind |-> kind, at |-> Feed!Unanswered, sound |-> Feed!Idle(fs) /\ ~ready']
      BY <1>3, <2>1
    <3>2. (Feed!Idle(fs) /\ ~ready') \in BOOLEAN
      OBVIOUS
    <3>3. Feed!Unanswered \in -1 .. MaxVersion
      BY DEF Feed!Unanswered, Feed!DepthAssumptions
    <3>4. kind \in {"none", "connect", "heal", "resync"}
      OBVIOUS
    <3> DEFINE b == Feed!Idle(fs) /\ ~ready'
    <3>5. g[n] = [kind |-> kind, at |-> Feed!Unanswered, sound |-> b] /\ b \in BOOLEAN
      BY <3>1, <3>2
    <3> HIDE DEF b
    <3>6. g[n] \in Feed!FetchType
      BY <3>3, <3>4, <3>5 DEF Feed!FetchType
    <3>7. g[n].at = Feed!Unanswered /\ g[n].sound = b
      BY <3>5
    <3>8. QED
      BY <2>1, <3>6, <3>7 DEF b
  <2>2. CASE n # free
    <3>1. g[n] = [fs[n] EXCEPT !.sound = FALSE]
      BY <1>3, <2>2
    <3>2. QED
      BY <3>1 DEF Feed!FetchType
  <2>3. QED
    BY <2>1, <2>2
<1>5. ASSUME NEW n \in 1 .. MaxFetches, g[n].sound, NEW j \in (1 .. MaxFetches) \ {n}
      PROVE  g[j] = Feed!NoFetch
  <2>1. fs[j] = Feed!NoFetch /\ j # free
    BY <1>1, <1>4, <1>5 DEF Feed!Idle
  <2>2. g[j] = [Feed!NoFetch EXCEPT !.sound = FALSE]
    BY <1>3, <2>1
  <2>3. QED
    BY <2>2 DEF Feed!NoFetch
<1>6. g \in [1 .. MaxFetches -> Feed!FetchType]
  BY <1>3, <1>4
<1>7. QED
  BY <1>4, <1>5, <1>6 DEF Asked, g

\* A place that is taken has a snapshot; one that is given back has none.
LEMMA DoneFits ==
  ASSUME Feed!DepthAssumptions, fetch \in [1 .. MaxFetches -> Feed!FetchType],
         NEW i \in DOMAIN fetch
  PROVE  /\ Feed!Done(i) \in [1 .. MaxFetches -> Feed!FetchType]
         /\ DOMAIN fetch = 1 .. MaxFetches
         /\ \A n \in 1 .. MaxFetches :
              Feed!Done(i)[n] = IF n = i THEN Feed!NoFetch ELSE fetch[n]
         /\ Feed!NoFetch.at = Feed!Unanswered /\ ~Feed!NoFetch.sound
<1>1. Feed!NoFetch \in Feed!FetchType
  BY DEF Feed!NoFetch, Feed!FetchType, Feed!Unanswered, Feed!DepthAssumptions
<1>2. DOMAIN fetch = 1 .. MaxFetches
  OBVIOUS
<1>3. QED
  BY <1>1, <1>2 DEF Feed!Done, Feed!NoFetch

-----------------------------------------------------------------------------
(* The invariant in parts.                                                 *)

LineOk ==
  /\ changes \in Seq(Levels) /\ Len(changes) <= MaxVersion
  /\ link \in {"down", "snapshot", "open"} /\ {ready, listed} \subseteq BOOLEAN
  /\ read \in 0 .. Len(changes) /\ last \in 0 .. read
  /\ drops \in Nat /\ resnaps \in Nat

BufferOk ==
  /\ buffer \in Seq(Messages) /\ Feed!BufferFits
  /\ \A n \in DOMAIN buffer : buffer[n].from < buffer[n].to

FetchOk ==
  /\ fetch \in [1 .. MaxFetches -> Feed!FetchType] /\ Feed!SoundAlone
  /\ \A i \in DOMAIN fetch : fetch[i].at <= Len(changes)

ViewOk ==
  /\ {applied, snap} \subseteq 0 .. Len(changes)
  /\ book \in [Levels -> 0 .. MaxVersion] /\ sound \in BOOLEAN /\ stray \in SUBSET Levels
  /\ ready /\ sound => Feed!BookFits

\* FeedInv is the four of them, before a step ...
LEMMA PartsBefore ==
  ASSUME Feed!DepthAssumptions PROVE Feed!FeedInv <=> LineOk /\ BufferOk /\ FetchOk /\ ViewOk
<1>1. Feed!FeedInv => LineOk /\ BufferOk /\ FetchOk /\ ViewOk
  BY DEF Feed!DepthAssumptions, Feed!FeedInv, LineOk, BufferOk, FetchOk, ViewOk,
     Feed!TypeOK, Feed!Known, Messages
<1>2. LineOk /\ BufferOk /\ FetchOk /\ ViewOk => Feed!TypeOK /\ Feed!Known
  BY DEF Feed!DepthAssumptions, LineOk, BufferOk, FetchOk, ViewOk, Feed!TypeOK,
     Feed!Known, Messages
<1>3. QED
  BY <1>1, <1>2 DEF Feed!FeedInv, BufferOk, FetchOk, ViewOk

\* ... and after it.
LEMMA PartsAfter ==
  ASSUME Feed!DepthAssumptions, LineOk', BufferOk', FetchOk', ViewOk' PROVE Feed!FeedInv'
<1>1. Feed!TypeOK' /\ Feed!Known'
  BY DEF Feed!DepthAssumptions, LineOk, BufferOk, FetchOk, ViewOk, Feed!TypeOK,
     Feed!Known, Messages
<1>2. QED
  BY <1>1 DEF Feed!FeedInv, BufferOk, FetchOk, ViewOk

\* What is read later leaves a book in order that was.
LEMMA ViewStays ==
  ASSUME LineOk, ViewOk, UNCHANGED <<changes, Feed!view>>, ready' \in BOOLEAN,
         ready' => ready, read' \in Nat, read <= read'
  PROVE  ViewOk'
<1>1. read \in Nat /\ applied \in Nat
  BY DEF LineOk, ViewOk
<1>2. \A l, v : Feed!Latest(l, v)' = Feed!Latest(l, v)
  BY DEF Feed!Latest, Feed!view
<1>3. ready' /\ sound' => Feed!BookFits'
  BY <1>1, <1>2 DEF ViewOk, Feed!BookFits, Feed!view
<1>4. QED
  BY <1>3 DEF ViewOk, Feed!view

\* The view after a step.
LEMMA ViewIs ==
  ASSUME {applied', snap'} \subseteq 0 .. Len(changes'), sound' \in BOOLEAN,
         book' \in [Levels -> 0 .. MaxVersion], stray' \in SUBSET Levels, ready' /\ sound' => Feed!BookFits'
  PROVE  ViewOk'
BY DEF ViewOk

\* A book that is not taken for ready may be any.
LEMMA ViewIdle ==
  ASSUME ViewOk, UNCHANGED <<changes, Feed!view>>, ~ready'
  PROVE  ViewOk'
BY DEF ViewOk, Feed!view

\* A message goes through, or none waits.
LEMMA BufferStays ==
  ASSUME BufferOk, UNCHANGED buffer, read \in Nat, read' \in Nat, read <= read',
         ready' \in BOOLEAN, ready' => ready
  PROVE  BufferOk'
<1>1. ASSUME NEW n \in DOMAIN buffer PROVE buffer[n].to <= read'
  <2>1. buffer[n] \in Messages
    BY MemberOfSeq DEF BufferOk
  <2>2. QED
    BY <2>1 DEF BufferOk, Feed!BufferFits, Messages
<1>2. Feed!BufferFits'
  BY <1>1 DEF BufferOk, Feed!BufferFits
<1>3. QED
  BY <1>2 DEF BufferOk

\* An empty buffer is in order.
LEMMA BufferClears == ASSUME buffer' = <<>> PROVE BufferOk'
BY DEF BufferOk, Feed!BufferFits

\* Snapshots on their way stay so, or are given up.
LEMMA FetchStays ==
  ASSUME Feed!DepthAssumptions, FetchOk, LineOk, UNCHANGED <<changes, ready, last>>,
         fetch' \in [1 .. MaxFetches -> Feed!FetchType],
         \A i \in 1 .. MaxFetches : fetch'[i] \in {fetch[i], Feed!NoFetch}
  PROVE  FetchOk'
<1>1. DOMAIN fetch = 1 .. MaxFetches /\ DOMAIN fetch' = 1 .. MaxFetches
  BY DEF FetchOk
<1>2. Feed!NoFetch.at = Feed!Unanswered /\ ~Feed!NoFetch.sound /\ Feed!Unanswered = -1
  BY DEF Feed!NoFetch, Feed!Unanswered
<1>3. Feed!SoundAlone'
  BY <1>1, <1>2 DEF FetchOk, Feed!SoundAlone
<1>4. ASSUME NEW i \in DOMAIN fetch' PROVE fetch'[i].at <= Len(changes')
  <2>1. fetch'[i].at \in {fetch[i].at, -1} /\ fetch[i].at <= Len(changes)
    BY <1>1, <1>2 DEF FetchOk
  <2>2. Len(changes) \in Nat /\ changes' = changes
    BY DEF LineOk
  <2>3. QED
    BY <2>1, <2>2
<1>5. QED
  BY <1>3, <1>4 DEF FetchOk

\* ... or as they are.
LEMMA FetchSame ==
  ASSUME FetchOk, UNCHANGED <<changes, ready, last, fetch>>
  PROVE  FetchOk'
BY DEF FetchOk, Feed!SoundAlone

\* Snapshots asked for anew, a place given back.
LEMMA FetchAsked ==
  ASSUME Feed!DepthAssumptions, FetchOk, LineOk, Asked(fetch', ready'), UNCHANGED changes
  PROVE  FetchOk'
<1>1. DOMAIN fetch = 1 .. MaxFetches /\ DOMAIN fetch' = 1 .. MaxFetches
  BY DEF Asked, FetchOk
<1>2. Feed!SoundAlone'
  BY <1>1 DEF Asked, Feed!SoundAlone
<1>3. ASSUME NEW n \in DOMAIN fetch' PROVE fetch'[n].at <= Len(changes')
  <2>1. fetch[n].at <= Len(changes) /\ Len(changes) \in Nat
    BY <1>1 DEF FetchOk, LineOk
  <2>2. fetch'[n].at = Feed!Unanswered \/ fetch'[n].at = fetch[n].at
    BY <1>1 DEF Asked
  <2>3. QED
    BY <2>1, <2>2 DEF Feed!Unanswered
<1>4. QED
  BY <1>2, <1>3 DEF Asked, FetchOk

\* A snapshot handled and another one asked for.
LEMMA DoneAsked ==
  ASSUME Feed!DepthAssumptions, FetchOk, NEW i \in DOMAIN fetch, fetch[i] # Feed!NoFetch,
         NEW r
  PROVE  /\ Asked(Feed!Done(i), r)
         /\ \A n \in 1 .. MaxFetches : ~Feed!Done(i)[n].sound
<1>1. /\ \A n \in 1 .. MaxFetches : Feed!Done(i)[n] = IF n = i THEN Feed!NoFetch ELSE fetch[n]
      /\ Feed!Done(i) \in [1 .. MaxFetches -> Feed!FetchType]
      /\ DOMAIN fetch = 1 .. MaxFetches
      /\ Feed!NoFetch.at = Feed!Unanswered /\ ~Feed!NoFetch.sound
  BY DoneFits DEF FetchOk
<1>2. ASSUME NEW n \in 1 .. MaxFetches PROVE ~Feed!Done(i)[n].sound
  BY <1>1 DEF FetchOk, Feed!SoundAlone
<1>3. ASSUME NEW n \in 1 .. MaxFetches
      PROVE  Feed!Done(i)[n].at = Feed!Unanswered \/ Feed!Done(i)[n].at = fetch[n].at
  BY <1>1
<1>4. QED
  BY <1>1, <1>2, <1>3 DEF Asked

-----------------------------------------------------------------------------
(* The steps the clients share.                                            *)

\* The exchange moves on: nothing that was read changes.
LEMMA StepChange ==
  ASSUME Feed!DepthAssumptions, Feed!FeedInv, NEW l \in Levels, Feed!Change(l)
  PROVE  Feed!FeedInv'
<1>0. LineOk /\ BufferOk /\ FetchOk /\ ViewOk
  BY PartsBefore
<1>1. /\ changes \in Seq(Levels) /\ changes' = Append(changes, l)
      /\ Len(changes) \in Nat /\ Len(changes') = Len(changes) + 1
      /\ changes' \in Seq(Levels) /\ Len(changes') <= MaxVersion
  BY <1>0 DEF LineOk, Feed!Change, Feed!DepthAssumptions
<1>2. LineOk'
  BY <1>0, <1>1 DEF LineOk, Feed!Change, Feed!line, Feed!gates
<1>3. BufferOk'
  BY <1>0 DEF BufferOk, Feed!BufferFits, Feed!Change, Feed!line, Feed!gates
<1>4. FetchOk'
  <2>1. Feed!SoundAlone'
    BY <1>0 DEF FetchOk, Feed!SoundAlone, Feed!Change, Feed!gates
  <2>2. \A i \in DOMAIN fetch : fetch[i].at \in Int
    BY <1>0 DEF FetchOk, Feed!FetchType
  <2>3. \A i \in DOMAIN fetch : fetch[i].at <= Len(changes')
    BY <1>0, <1>1, <2>2 DEF FetchOk
  <2>4. QED
    BY <1>0, <2>1, <2>3 DEF FetchOk, Feed!Change
<1>5. ViewOk'
  <2>1. \A k \in Levels, v \in 0 .. Len(changes) : Feed!Latest(k, v)' = Feed!Latest(k, v)
    BY <1>1, ChangeKeepsLatest
  <2>2. /\ applied' = applied /\ snap' = snap /\ book' = book /\ sound' = sound
        /\ stray' = stray /\ ready' = ready /\ read' = read
    BY DEF Feed!Change, Feed!view, Feed!gates, Feed!line
  <2>3. Feed!BookFits => Feed!BookFits'
    BY <1>0, <2>1, <2>2 DEF Feed!BookFits, ViewOk
  <2>4. QED
    BY <1>0, <1>1, <2>2, <2>3 DEF ViewOk
<1>6. QED
  BY <1>2, <1>3, <1>4, <1>5, PartsAfter

\* A place for a snapshot is taken.
LEMMA AsksNow ==
  ASSUME Feed!DepthAssumptions, FetchOk, Feed!CanAsk(fetch), ready' \in BOOLEAN,
         NEW kind \in {"connect", "heal", "resync"}, fetch' = Feed!Ask(fetch, kind)
  PROVE  Asked(fetch', ready')
BY AskFits DEF FetchOk

\* A connection begins.
LEMMA StepConnect ==
  ASSUME Feed!DepthAssumptions, Feed!FeedInv, Feed!Connect
  PROVE  Feed!FeedInv' /\ Asked(fetch', ready')
<1>0. LineOk /\ BufferOk /\ FetchOk /\ ViewOk
  BY PartsBefore
<1>1. Asked(fetch', ready')
  BY <1>0, AsksNow DEF Feed!Connect
<1>2. UNCHANGED <<changes, Feed!view>> /\ ready' = FALSE /\ buffer' = <<>>
  BY DEF Feed!Connect, Feed!exchange
<1>3. LineOk'
  <2>1. Len(changes) \in Nat /\ Len(changes) \in 0 .. Len(changes) /\ 0 \in 0 .. Len(changes)
    BY <1>0 DEF LineOk
  <2>2. /\ UNCHANGED <<changes, drops, resnaps, listed>> /\ link' = "snapshot"
        /\ read' = Len(changes) /\ ready' = FALSE /\ last' = 0
    BY DEF Feed!Connect, Feed!exchange
  <2>3. QED
    BY <1>0, <2>1, <2>2 DEF LineOk
<1>4. QED
  BY <1>0, <1>1, <1>2, <1>3, BufferClears, FetchAsked, ViewIdle, PartsAfter

\* The exchange answers with its book of now.
LEMMA StepAnswer ==
  ASSUME Feed!DepthAssumptions, Feed!FeedInv, NEW i \in DOMAIN fetch, Feed!Answer(i)
  PROVE  Feed!FeedInv'
<1>0. LineOk /\ BufferOk /\ FetchOk /\ ViewOk
  BY PartsBefore
<1>1. UNCHANGED <<changes, Feed!view, ready, read, last, buffer, link, listed, drops, resnaps>>
  BY DEF Feed!Answer, Feed!exchange, Feed!line, Feed!gates
<1>2. DOMAIN fetch = 1 .. MaxFetches /\ fetch[i] # Feed!NoFetch
  BY <1>0 DEF FetchOk, Feed!Answer
<1>3. fetch' = [fetch EXCEPT ![i] = [fetch[i] EXCEPT !.at = Len(changes)]]
  BY <1>2 DEF Feed!Answer
<1>4. fetch[i] \in Feed!FetchType /\ Len(changes) \in -1 .. MaxVersion
  BY <1>0, <1>2 DEF FetchOk, LineOk, Feed!DepthAssumptions
<1>5. [fetch[i] EXCEPT !.at = Len(changes)] \in Feed!FetchType
  BY <1>4 DEF Feed!FetchType
<1>6. fetch' \in [1 .. MaxFetches -> Feed!FetchType]
  BY <1>0, <1>2, <1>3, <1>5 DEF FetchOk
<1>7. /\ fetch'[i].sound = fetch[i].sound /\ fetch'[i].at = Len(changes)
      /\ \A j \in DOMAIN fetch \ {i} : fetch'[j] = fetch[j]
  BY <1>3, <1>4 DEF Feed!FetchType
<1>8. last <= Len(changes) /\ Len(changes) \in Nat
  BY <1>0 DEF LineOk
<1>9. Feed!SoundAlone'
  <2> SUFFICES ASSUME NEW k \in DOMAIN fetch, fetch'[k].sound
               PROVE  /\ ~ready /\ \A j \in DOMAIN fetch \ {k} : fetch'[j] = Feed!NoFetch
                      /\ fetch'[k].at # Feed!Unanswered => last <= fetch'[k].at
    BY <1>1, <1>2, <1>6 DEF Feed!SoundAlone
  <2>1. fetch[k].sound
    BY <1>7
  <2>2. k = i
    BY <1>0, <1>2, <2>1 DEF FetchOk, Feed!SoundAlone
  <2>3. QED
    BY <1>0, <1>7, <1>8, <2>1, <2>2 DEF FetchOk, Feed!SoundAlone
<1>10. \A j \in DOMAIN fetch' : fetch'[j].at <= Len(changes')
  BY <1>0, <1>1, <1>2, <1>6, <1>7, <1>8 DEF FetchOk
<1>11. FetchOk'
  BY <1>6, <1>9, <1>10 DEF FetchOk
<1>12. LineOk' /\ BufferOk'
  BY <1>0, <1>1 DEF LineOk, BufferOk, Feed!BufferFits
<1>13. ready' \in BOOLEAN /\ (ready' => ready) /\ read' \in Nat /\ read <= read'
  BY <1>0, <1>1 DEF LineOk
<1>14. QED
  BY <1>0, <1>1, <1>11, <1>12, <1>13, ViewStays, PartsAfter

\* A snapshot fails.
LEMMA StepFails ==
  ASSUME Feed!DepthAssumptions, Feed!FeedInv, NEW i \in DOMAIN fetch, Feed!Fails(i)
  PROVE  Feed!FeedInv' /\ Asked(fetch', ready')
<1>0. LineOk /\ BufferOk /\ FetchOk /\ ViewOk
  BY PartsBefore
<1>1. Asked(fetch', ready')
  BY <1>0, DoneAsked DEF Feed!Fails
<1>2. /\ UNCHANGED <<changes, Feed!view, read, drops, last, buffer, resnaps, listed>>
      /\ ready' = FALSE /\ link' = Feed!Reads(i)
  BY DEF Feed!Fails, Feed!exchange
<1>3. LineOk'
  BY <1>0, <1>2 DEF LineOk, Feed!Reads
<1>4. BufferOk'
  <2>1. ready' \in BOOLEAN /\ (ready' => ready) /\ read' = read /\ UNCHANGED buffer
    BY <1>2
  <2>2. read \in Nat /\ read' \in Nat /\ read <= read'
    BY <1>0, <2>1 DEF LineOk
  <2>3. QED
    BY <1>0, <2>1, <2>2, BufferStays
<1>5. QED
  BY <1>0, <1>1, <1>2, <1>3, <1>4, FetchAsked, ViewIdle, PartsAfter

\* What leaves the gates and the view alone, and the places or asks in one.
LEMMA StepAside ==
  ASSUME Feed!DepthAssumptions, Feed!FeedInv, UNCHANGED <<Feed!exchange, Feed!line,
         Feed!gates, Feed!view>>,
         listed' \in BOOLEAN, resnaps' \in Nat,
         fetch' = fetch \/ Asked(fetch', ready')
  PROVE  Feed!FeedInv'
<1>0. LineOk /\ BufferOk /\ FetchOk /\ ViewOk
  BY PartsBefore
<1>1. UNCHANGED <<changes, ready, read, last, buffer, link, drops>>
  BY DEF Feed!exchange, Feed!line, Feed!gates
<1>2. LineOk' /\ BufferOk'
  BY <1>0, <1>1 DEF LineOk, BufferOk, Feed!BufferFits
<1>3. ready' \in BOOLEAN /\ (ready' => ready) /\ read' \in Nat /\ read <= read'
  BY <1>0, <1>1 DEF LineOk
<1>4. FetchOk'
  BY <1>0, <1>1, FetchSame, FetchAsked
<1>5. QED
  BY <1>0, <1>1, <1>2, <1>3, <1>4, ViewStays, PartsAfter

\* The heal loop asks.
LEMMA StepHeal ==
  ASSUME Feed!DepthAssumptions, Feed!FeedInv,
         Feed!HealAsks \/ Feed!MinutePasses \/ \E runs \in BOOLEAN : Feed!HealLists(runs)
  PROVE  /\ Feed!FeedInv' /\ UNCHANGED <<Feed!exchange, Feed!line, Feed!gates, Feed!view>>
         /\ fetch' = fetch \/ Asked(fetch', ready')
<1>0. LineOk /\ BufferOk /\ FetchOk /\ ViewOk
  BY PartsBefore
<1>1. UNCHANGED <<Feed!exchange, Feed!line, Feed!gates, Feed!view>> /\ listed' \in BOOLEAN /\ resnaps' \in Nat
  <2>0. resnaps \in Nat /\ resnaps + 1 \in Nat /\ 0 \in Nat /\ listed \in BOOLEAN
    BY <1>0 DEF LineOk
  <2>1. CASE Feed!HealAsks
    BY <2>0, <2>1 DEF Feed!HealAsks
  <2>2. CASE Feed!MinutePasses
    BY <2>0, <2>2 DEF Feed!MinutePasses
  <2>3. ASSUME NEW runs \in BOOLEAN, Feed!HealLists(runs)
        PROVE  /\ UNCHANGED <<Feed!exchange, Feed!line, Feed!gates, Feed!view>>
               /\ listed' \in BOOLEAN /\ resnaps' \in Nat
    BY <2>0, <2>3 DEF Feed!HealLists
  <2>4. QED
    BY <2>1, <2>2, <2>3
<1>2. fetch' = fetch \/ Asked(fetch', ready')
  <2>1. ready' \in BOOLEAN
    BY <1>0, <1>1 DEF LineOk, Feed!gates
  <2>2. QED
    BY <1>0, <2>1, AsksNow DEF Feed!HealAsks, Feed!MinutePasses, Feed!HealLists
<1>3. QED
  BY <1>1, <1>2, StepAside

\* A message runs from where the connection stands to what it reaches.
LEMMA MessageIs ==
  ASSUME read \in Nat, NEW v \in Nat, NEW out
  PROVE  /\ Feed!Message(v, out) \in Messages
         /\ Feed!Message(v, out).from = read /\ Feed!Message(v, out).to = v
<1>1. Feed!Changed(read, v) \ out \in SUBSET Levels
  BY DEF Feed!Changed
<1>2. QED
  BY <1>1 DEF Feed!Message, Messages

\* A message waits: it begins where the one before it ended.
LEMMA StepReadEarly ==
  ASSUME Feed!DepthAssumptions, Feed!FeedInv, NEW v \in read + 1 .. Len(changes),
         Feed!ReadEarly(v)
  PROVE  /\ Feed!FeedInv' /\ ~ready' /\ read' = v /\ UNCHANGED <<fetch, last>>
         /\ \E m \in Messages : m.from = read /\ m.to = v /\ buffer' = Append(buffer, m)
<1>0. LineOk /\ BufferOk /\ FetchOk /\ ViewOk
  BY PartsBefore
<1>a. PICK out \in SUBSET Outer : buffer' = Append(buffer, Feed!Message(v, out))
  BY DEF Feed!ReadEarly, Feed!Buffered
<1> DEFINE m == Feed!Message(v, out)
<1>b. m \in Messages /\ m.from = read /\ m.to = v
  BY <1>0, MessageIs DEF LineOk
<1> HIDE DEF m
<1>1. /\ UNCHANGED <<changes, Feed!view, link, drops, ready, last, fetch, resnaps, listed>>
      /\ ~ready /\ read' = v /\ buffer' = Append(buffer, m)
  BY <1>a DEF Feed!ReadEarly, Feed!Arrives, Feed!exchange, m
<1>2. read \in Nat /\ v \in Nat /\ read < v /\ v <= Len(changes) /\ Len(changes) \in Nat
  BY <1>0 DEF LineOk
<1>3. LineOk'
  BY <1>0, <1>1, <1>2 DEF LineOk
<1>4. BufferOk'
  <2>1. m \in Messages /\ m.from = read /\ m.to = v
    BY <1>b
  <2>2. /\ buffer \in Seq(Messages) /\ Len(buffer) \in Nat
        /\ DOMAIN buffer = 1 .. Len(buffer) /\ buffer' = Append(buffer, m)
    BY <1>0, <1>1 DEF BufferOk
  <2>3. /\ buffer' \in Seq(Messages)
        /\ DOMAIN buffer' = 1 .. Len(buffer) + 1
        /\ \A n \in 1 .. Len(buffer) : buffer'[n] = buffer[n]
        /\ buffer'[Len(buffer) + 1] = m
    BY <2>1, <2>2
  <2>4. \A n \in 1 .. Len(buffer) :
          buffer[n].from \in Nat /\ buffer[n].to \in Nat /\ buffer[n].from < buffer[n].to
          /\ buffer[n].to <= read
    <3> SUFFICES ASSUME NEW n \in 1 .. Len(buffer)
                 PROVE  /\ buffer[n].from \in Nat /\ buffer[n].to \in Nat
                        /\ buffer[n].from < buffer[n].to /\ buffer[n].to <= read
      OBVIOUS
    <3>1. buffer[n] \in Messages
      BY <2>2, MemberOfSeq
    <3>2. QED
      BY <1>0, <2>2, <3>1 DEF BufferOk, Feed!BufferFits, Messages
  <2>5. \A n \in DOMAIN buffer' : n \in 1 .. Len(buffer) \/ n = Len(buffer) + 1
    BY <2>2, <2>3
  <2>6. \A n \in DOMAIN buffer' : buffer'[n].from < buffer'[n].to /\ buffer'[n].to <= v
    BY <1>2, <2>1, <2>3, <2>4, <2>5
  <2>7. ASSUME NEW a \in DOMAIN buffer', NEW b \in DOMAIN buffer', a < b
        PROVE  buffer'[a].to <= buffer'[b].from
    <3>1. a \in 1 .. Len(buffer)
      BY <2>2, <2>3, <2>7
    <3>2. CASE b \in 1 .. Len(buffer)
      BY <1>0, <2>2, <2>3, <2>7, <3>1, <3>2 DEF BufferOk, Feed!BufferFits
    <3>3. CASE b = Len(buffer) + 1
      BY <2>1, <2>3, <2>4, <3>1, <3>3
    <3>4. QED
      BY <2>5, <3>2, <3>3
  <2>8. Feed!BufferFits'
    BY <1>1, <2>6, <2>7 DEF Feed!BufferFits
  <2>9. QED
    BY <2>3, <2>6, <2>8 DEF BufferOk
<1>5. QED
  BY <1>0, <1>1, <1>b, <1>3, <1>4, FetchSame, ViewIdle, PartsAfter

\* The symbol is given up and a snapshot asked for.
LEMMA StepResync ==
  ASSUME Feed!DepthAssumptions, Feed!FeedInv, NEW v \in read + 1 .. Len(changes),
         Feed!Resync,
         UNCHANGED <<changes, link, drops, listed>>, read' = v, resnaps' \in Nat,
         {applied', snap'} \subseteq 0 .. Len(changes),
         book' \in [Levels -> 0 .. MaxVersion], sound' \in BOOLEAN,
         stray' \in SUBSET Levels
  PROVE  Feed!FeedInv' /\ Asked(fetch', ready') /\ ~ready' /\ buffer' = <<>> /\ last' = 0
<1>0. LineOk /\ BufferOk /\ FetchOk /\ ViewOk
  BY PartsBefore
<1>1. Asked(fetch', ready') /\ ~ready' /\ buffer' = <<>> /\ last' = 0
  BY <1>0, AsksNow DEF Feed!Resync
<1>2. LineOk'
  <2>1. v \in 0 .. Len(changes) /\ 0 \in 0 .. v
    BY <1>0 DEF LineOk
  <2>2. ready' = FALSE /\ last' = 0
    BY DEF Feed!Resync
  <2>3. QED
    BY <1>0, <2>1, <2>2 DEF LineOk
<1>3. ViewOk'
  BY <1>0, <1>1 DEF ViewOk
<1>4. QED
  BY <1>0, <1>1, <1>2, <1>3, BufferClears, FetchAsked, PartsAfter

\* A snapshot gives back its place.
LEMMA LandingFits ==
  ASSUME Feed!DepthAssumptions, Feed!FeedInv, NEW i \in DOMAIN fetch,
         fetch[i] # Feed!NoFetch,
         fetch[i].at # Feed!Unanswered
  PROVE  /\ fetch[i].at \in 0 .. Len(changes) /\ fetch[i].sound \in BOOLEAN
         /\ fetch[i].sound => last <= fetch[i].at
         /\ Feed!Reads(i) \in {"down", "snapshot", "open"}
         /\ Feed!Truth(fetch[i].at) \in [Levels -> 0 .. MaxVersion]
<1>0. LineOk /\ FetchOk
  BY PartsBefore
<1>1. fetch[i] \in Feed!FetchType /\ Len(changes) \in Nat
  BY <1>0 DEF FetchOk, LineOk
<1>2. fetch[i].at \in 0 .. Len(changes) /\ fetch[i].sound \in BOOLEAN
  BY <1>0, <1>1 DEF FetchOk, Feed!FetchType, Feed!Unanswered
<1>3. \A l \in Levels : Feed!Latest(l, fetch[i].at) \in 0 .. MaxVersion
  <2> SUFFICES ASSUME NEW l \in Levels PROVE Feed!Latest(l, fetch[i].at) \in 0 .. MaxVersion
    OBVIOUS
  <2>1. Feed!Latest(l, fetch[i].at) \in 0 .. fetch[i].at
    BY <1>0, <1>2, LatestIs DEF LineOk
  <2>2. QED
    BY <1>0, <1>1, <1>2, <2>1 DEF LineOk, Feed!DepthAssumptions
<1>4. Feed!Truth(fetch[i].at) \in [Levels -> 0 .. MaxVersion]
  BY <1>3 DEF Feed!Truth
<1>5. QED
  BY <1>0, <1>2, <1>4 DEF Feed!Reads, LineOk, FetchOk, Feed!SoundAlone

\* What is newer than a snapshot is the end of the buffer.
LEMMA NewerIs ==
  ASSUME Feed!FeedInv, NEW v \in Nat, Feed!Newer(v) # {}
  PROVE  /\ Feed!Newer(v) \in SUBSET DOMAIN buffer /\ DOMAIN buffer = 1 .. Len(buffer)
         /\ Len(buffer) \in Nat
         /\ Feed!Min(Feed!Newer(v)) \in Feed!Newer(v)
         /\ Feed!Max(Feed!Newer(v)) = Len(buffer)
         /\ \A k \in DOMAIN buffer : k \in Feed!Newer(v) <=> Feed!Min(Feed!Newer(v)) <= k
         /\ \A k \in DOMAIN buffer : /\ buffer[k].to \in 0 .. read
                                     /\ buffer[k].from \in Nat
         /\ \A k \in Feed!Newer(v) : buffer[k].to > v
<1>0. buffer \in Seq(Messages) /\ Feed!BufferFits
  BY DEF Feed!FeedInv, Feed!TypeOK, Messages
<1>1. DOMAIN buffer = 1 .. Len(buffer) /\ Len(buffer) \in Nat
  BY <1>0
<1>2. \A k \in DOMAIN buffer : /\ buffer[k].to \in 0 .. read
                               /\ buffer[k].from \in Nat
                               /\ buffer[k].from < buffer[k].to
  <2> SUFFICES ASSUME NEW k \in DOMAIN buffer
               PROVE  /\ buffer[k].to \in 0 .. read /\ buffer[k].from \in Nat
                      /\ buffer[k].from < buffer[k].to
    OBVIOUS
  <2>1. buffer[k] \in Messages
    BY <1>0, MemberOfSeq
  <2>2. buffer[k].to <= read /\ read \in Nat /\ buffer[k].from < buffer[k].to
    BY DEF Feed!FeedInv, Feed!TypeOK, Feed!BufferFits
  <2>3. QED
    BY <2>1, <2>2 DEF Messages
<1>3. Feed!Newer(v) \in SUBSET DOMAIN buffer /\ \A k \in Feed!Newer(v) : buffer[k].to > v
  BY DEF Feed!Newer
<1>4. Feed!Newer(v) \in SUBSET Nat /\ Feed!Newer(v) \in SUBSET (0 .. Len(buffer))
  <2>1. \A k \in Feed!Newer(v) : k \in Nat /\ k \in 0 .. Len(buffer)
    BY <1>1, <1>3
  <2>2. QED
    BY <2>1
<1>5. Feed!Min(Feed!Newer(v)) \in Feed!Newer(v) /\ \A k \in Feed!Newer(v) : Feed!Min(Feed!Newer(v)) <= k
  BY <1>4, MinIs
<1>6. ASSUME NEW j \in Feed!Newer(v), NEW k \in DOMAIN buffer,
             j < k PROVE k \in Feed!Newer(v)
  <2>1. buffer[j].to <= buffer[k].from
    BY <1>0, <1>3, <1>6 DEF Feed!BufferFits
  <2>2. buffer[k].to > v
    BY <1>2, <1>3, <2>1
  <2>3. QED
    BY <2>2 DEF Feed!Newer
<1>7. \A k \in DOMAIN buffer : k \in Feed!Newer(v) <=> Feed!Min(Feed!Newer(v)) <= k
  <2> SUFFICES ASSUME NEW k \in DOMAIN buffer, Feed!Min(Feed!Newer(v)) <= k PROVE k \in Feed!Newer(v)
    BY <1>5
  <2>1. Feed!Min(Feed!Newer(v)) = k \/ Feed!Min(Feed!Newer(v)) < k
    BY <1>1, <1>4, <1>5
  <2>2. QED
    BY <1>5, <1>6, <2>1
<1>8. Feed!Max(Feed!Newer(v)) = Len(buffer)
  <2>1. Feed!Max(Feed!Newer(v)) \in Feed!Newer(v) /\ \A k \in Feed!Newer(v) : k <= Feed!Max(Feed!Newer(v))
    BY <1>1, <1>4, MaxIs
  <2>2. Len(buffer) \in DOMAIN buffer /\ Feed!Min(Feed!Newer(v)) <= Len(buffer)
    BY <1>1, <1>3, <1>5
  <2>3. Len(buffer) \in Feed!Newer(v)
    BY <1>7, <2>2
  <2>4. QED
    BY <1>1, <1>3, <2>1, <2>3
<1>9. QED
  BY <1>1, <1>2, <1>3, <1>5, <1>7, <1>8

\* The books that messages make are books.
LEMMA MergesTyped ==
  ASSUME Feed!DepthAssumptions, Feed!FeedInv, NEW b \in [Levels -> 0 .. MaxVersion]
  PROVE  /\ \A m : m.to \in 0 .. Len(changes) =>
              Feed!Merge(b, m) \in [Levels -> 0 .. MaxVersion]
         /\ \A ns \in SUBSET DOMAIN buffer : Feed!MergeAll(b, ns) \in [Levels -> 0 .. MaxVersion]
<1>0. LineOk /\ BufferOk
  BY PartsBefore
<1>1. ASSUME NEW l \in Levels, NEW v \in 0 .. Len(changes)
      PROVE  Feed!Latest(l, v) \in 0 .. MaxVersion
  <2>1. Feed!Latest(l, v) \in 0 .. v
    BY <1>0, LatestIs DEF LineOk
  <2>2. QED
    BY <1>0, <2>1 DEF LineOk, Feed!DepthAssumptions
<1>2. ASSUME NEW m, m.to \in 0 .. Len(changes)
      PROVE  Feed!Merge(b, m) \in [Levels -> 0 .. MaxVersion]
  BY <1>1, <1>2 DEF Feed!Merge
<1>3. ASSUME NEW ns \in SUBSET DOMAIN buffer
      PROVE  Feed!MergeAll(b, ns) \in [Levels -> 0 .. MaxVersion]
  <2> SUFFICES ASSUME NEW l \in Levels PROVE Feed!MergeAll(b, ns)[l] \in 0 .. MaxVersion
    BY DEF Feed!MergeAll
  <2> DEFINE named == {n \in ns : l \in buffer[n].names}
  <2>1. Feed!MergeAll(b, ns)[l] = IF named = {} THEN b[l] ELSE Feed!Latest(l, buffer[Feed!Max(named)].to)
    BY DEF Feed!MergeAll
  <2>2. ASSUME named # {} PROVE Feed!Latest(l, buffer[Feed!Max(named)].to) \in 0 .. MaxVersion
    <3>1. named \in SUBSET (0 .. Len(buffer)) /\ Len(buffer) \in Nat
      BY <1>0 DEF BufferOk
    <3> HIDE DEF named
    <3>2. Feed!Max(named) \in named
      BY <2>2, <3>1, MaxIs
    <3>3. Feed!Max(named) \in DOMAIN buffer
      BY <3>2 DEF named
    <3>4. buffer[Feed!Max(named)] \in Messages
      BY <1>0, <3>3, MemberOfSeq DEF BufferOk
    <3>5. buffer[Feed!Max(named)].to \in 0 .. Len(changes)
      <4>1. buffer[Feed!Max(named)].to \in Nat
        BY <3>4 DEF Messages
      <4>2. buffer[Feed!Max(named)].to <= read /\ read \in 0 .. Len(changes)
        BY <1>0, <3>3 DEF BufferOk, Feed!BufferFits, LineOk
      <4>3. QED
        BY <1>0, <4>1, <4>2 DEF LineOk
    <3>6. QED
      BY <1>1, <3>5
  <2> HIDE DEF named
  <2>3. QED
    BY <2>1, <2>2
<1>4. QED
  BY <1>2, <1>3

\* Nothing is known before the first connection.
LEMMA FeedInit ==
  ASSUME Feed!DepthAssumptions, Feed!Init PROVE Feed!FeedInv
<1>1. Feed!NoFetch \in Feed!FetchType /\ Feed!NoFetch.at = -1 /\ ~Feed!NoFetch.sound
  BY DEF Feed!NoFetch, Feed!FetchType, Feed!Unanswered, Feed!DepthAssumptions
<1>2. LineOk
  <2>1. MaxVersion \in Nat
    BY DEF Feed!DepthAssumptions
  <2>2. changes \in Seq(Levels) /\ Len(changes) = 0
    BY DEF Feed!Init
  <2>3. Len(changes) <= MaxVersion /\ read \in 0 .. Len(changes) /\ last \in 0 .. read
    BY <2>1, <2>2 DEF Feed!Init
  <2>4. QED
    BY <2>2, <2>3 DEF LineOk, Feed!Init
<1>3. FetchOk
  BY <1>1, <1>2 DEF FetchOk, Feed!SoundAlone, Feed!Init, LineOk
<1>4. BufferOk
  BY DEF BufferOk, Feed!BufferFits, Feed!Init
<1>5. ViewOk
  BY <1>2 DEF ViewOk, Feed!Init, Feed!DepthAssumptions, LineOk
<1>6. QED
  BY <1>2, <1>3, <1>4, <1>5, PartsBefore

\* A book that is past its snapshot is the exchange's.
LEMMA FeedIsTrue ==
  ASSUME Feed!FeedInv PROVE Feed!ReadyBookIsTrue
<1> SUFFICES ASSUME ready, sound, applied >= snap, NEW l \in Levels \ stray
             PROVE  book[l] = Feed!Latest(l, applied)
  BY DEF Feed!ReadyBookIsTrue
<1>1. /\ changes \in Seq(Levels) /\ applied \in 0 .. Len(changes)
      /\ snap \in 0 .. applied /\ Feed!BookFits /\ snap \in 0 .. Len(changes)
  BY DEF Feed!FeedInv, Feed!TypeOK, Feed!Known
<1>2. Feed!Latest(l, snap) \in 0 .. snap
  BY <1>1, LatestIs
<1>3. QED
  BY <1>1, <1>2 DEF Feed!BookFits

-----------------------------------------------------------------------------
(* The depth stream of MEXC.                                               *)

-----------------------------------------------------------------------------
(* MEXC.                                                                   *)

\* What MexcDepth has from DepthFeed is what is proved about above.
LEMMA MexcIsFeed ==
  /\ Mexc!FeedInv = Feed!FeedInv /\ (Mexc!FeedInv = Feed!FeedInv)'
  /\ Mexc!TypeOK = Feed!TypeOK
  /\ Mexc!Init = Feed!Init /\ Mexc!Common = Feed!Common
  /\ Mexc!MayResnap = Feed!MayResnap /\ Mexc!Resync = Feed!Resync
  /\ Mexc!ReadyBookIsTrue = Feed!ReadyBookIsTrue
  /\ \A b \in BOOLEAN : Mexc!HealLists(b) = Feed!HealLists(b)
  /\ \A i : Mexc!Done(i) = Feed!Done(i) /\ Mexc!Reads(i) = Feed!Reads(i)
  /\ \A v : /\ Mexc!Newer(v) = Feed!Newer(v) /\ Mexc!Truth(v) = Feed!Truth(v)
            /\ Mexc!ReadEarly(v) = Feed!ReadEarly(v) /\ Mexc!Arrives(v) = Feed!Arrives(v)
            /\ \A out : Mexc!Message(v, out) = Feed!Message(v, out)
            /\ \A ns : Mexc!MissedAll(v, ns) = Feed!MissedAll(v, ns)
  /\ \A b, t, cut : Mexc!Shows(b, t, cut) = Feed!Shows(b, t, cut)
  /\ \A t, m : Mexc!Missed(t, m) = Feed!Missed(t, m)
  /\ \A b, ns : Mexc!MergeAll(b, ns) = Feed!MergeAll(b, ns)
  /\ \A b, m : Mexc!Merge(b, m) = Feed!Merge(b, m)
  /\ Mexc!NoFetch = Feed!NoFetch /\ Mexc!Unanswered = Feed!Unanswered
  /\ \A s : Mexc!Min(s) = Feed!Min(s) /\ Mexc!Max(s) = Feed!Max(s)
BY DEF Mexc!FeedInv, Feed!FeedInv, Mexc!Init, Feed!Init, Mexc!Connect, Feed!Connect,
   Mexc!Change, Feed!Change, Mexc!Common, Feed!Common, Mexc!HealAsks, Feed!HealAsks,
   Mexc!MinutePasses, Feed!MinutePasses, Mexc!Answer, Feed!Answer, Mexc!Fails,
   Feed!Fails, Mexc!HealLists, Feed!HealLists, Mexc!Ask, Feed!Ask, Mexc!Idle,
   Feed!Idle, Mexc!CanAsk, Feed!CanAsk, Mexc!Done, Feed!Done, Mexc!Reads,
   Feed!Reads, Mexc!Newer, Feed!Newer, Mexc!Truth, Feed!Truth, Mexc!Latest,
   Feed!Latest, Mexc!ReadEarly, Feed!ReadEarly, Mexc!Arrives, Feed!Arrives,
   Mexc!Message, Feed!Message, Mexc!MergeAll, Feed!MergeAll, Mexc!Changed,
   Feed!Changed, Mexc!Missed, Feed!Missed, Mexc!MissedAll, Feed!MissedAll,
   Mexc!Shows, Feed!Shows,
   Mexc!Merge, Feed!Merge, Mexc!MayResnap, Feed!MayResnap, Mexc!Resync, Feed!Resync,
   Mexc!NoFetch, Feed!NoFetch, Mexc!Unanswered, Feed!Unanswered, Mexc!exchange,
   Feed!exchange, Mexc!line, Feed!line, Mexc!view, Feed!view, Mexc!gates,
   Feed!gates, Mexc!Buffered, Feed!Buffered, Mexc!TypeOK, Feed!TypeOK, Mexc!Known,
   Feed!Known, Mexc!BufferFits, Feed!BufferFits, Mexc!SoundAlone, Feed!SoundAlone,
   Mexc!BookFits, Feed!BookFits, Mexc!FetchType, Feed!FetchType,
   Mexc!ReadyBookIsTrue, Feed!ReadyBookIsTrue, Mexc!Min, Mexc!Max, Feed!Min,
   Feed!Max

\* Asked(..) leaves no snapshot that is sound and answered.
LEMMA LeftOutStays ==
  ASSUME FetchOk, Mexc!NothingLeftOut, UNCHANGED <<buffer, read>>,
         fetch' = fetch \/ Asked(fetch', ready')
  PROVE  Mexc!NothingLeftOut'
BY MexcIsFeed
   DEF Mexc!NothingLeftOut, Mexc!Begins, Asked, Mexc!Unanswered, Feed!Unanswered,
       FetchOk

\* ... and with none that is sound and answered nothing is said.
LEMMA LeftOutClears ==
  ASSUME FetchOk', buffer' = <<>>, Asked(fetch', ready')
  PROVE  Mexc!NothingLeftOut'
BY DEF Mexc!NothingLeftOut, Mexc!Begins, Asked, Mexc!Unanswered, Feed!Unanswered,
   FetchOk

\* What both streams do.
LEMMA MexcCommon ==
  ASSUME Feed!DepthAssumptions, Mexc!MexcInv, Feed!Common
  PROVE  Mexc!MexcInv'
<1>0. /\ Feed!FeedInv /\ Mexc!NothingLeftOut /\ Mexc!SkipsOn
      /\ LineOk /\ BufferOk /\ FetchOk /\ ViewOk
  BY PartsBefore, MexcIsFeed DEF Mexc!MexcInv
<1> SUFFICES Feed!FeedInv' /\ Mexc!NothingLeftOut' /\ Mexc!SkipsOn'
  BY MexcIsFeed DEF Mexc!MexcInv
<1>1. ASSUME NEW l \in Levels, Feed!Change(l)
      PROVE  Feed!FeedInv' /\ Mexc!NothingLeftOut' /\ Mexc!SkipsOn'
  <2>1. UNCHANGED <<read, buffer, ready, sound, applied, last, fetch>>
    BY <1>1 DEF Feed!Change, Feed!line, Feed!gates, Feed!view
  <2>2. Mexc!SkipsOn'
    BY <1>0, <2>1 DEF Mexc!SkipsOn
  <2>3. QED
    BY <1>0, <1>1, <2>1, <2>2, StepChange, LeftOutStays
<1>2. CASE Feed!Connect
  <2>1. Feed!FeedInv' /\ Asked(fetch', ready') /\ buffer' = <<>> /\ ready' = FALSE
    BY <1>0, <1>2, StepConnect DEF Feed!Connect
  <2>2. FetchOk'
    BY <2>1 DEF FetchOk, Feed!FeedInv, Feed!TypeOK, Feed!Known
  <2>3. QED
    BY <2>1, <2>2, LeftOutClears DEF Mexc!SkipsOn
<1>3. CASE Feed!HealAsks \/ Feed!MinutePasses
  <2>1. Feed!FeedInv' /\ UNCHANGED <<Feed!exchange, Feed!line, Feed!gates, Feed!view>>
    BY <1>0, <1>3, StepHeal
  <2>2. fetch' = fetch \/ Asked(fetch', ready')
    BY <1>0, <1>3, StepHeal
  <2>3. UNCHANGED <<read, buffer, ready, sound, applied, last>>
    BY <2>1 DEF Feed!line, Feed!gates, Feed!view
  <2>4. Mexc!SkipsOn'
    BY <1>0, <2>3 DEF Mexc!SkipsOn
  <2>5. QED
    BY <1>0, <2>1, <2>2, <2>3, <2>4, LeftOutStays
<1>4. ASSUME NEW i \in DOMAIN fetch, Feed!Answer(i)
      PROVE  Feed!FeedInv' /\ Mexc!NothingLeftOut' /\ Mexc!SkipsOn'
  <2>1. UNCHANGED <<read, buffer, ready, sound, applied, last>>
    BY <1>4 DEF Feed!Answer, Feed!line, Feed!gates, Feed!view
  <2>2. Mexc!SkipsOn'
    BY <1>0, <2>1 DEF Mexc!SkipsOn
  <2>3. /\ fetch' = [fetch EXCEPT ![i].at = Len(changes)]
        /\ fetch \in [1 .. MaxFetches -> Feed!FetchType]
    BY <1>0, <1>4 DEF Feed!Answer, FetchOk
  <2>4. Mexc!Begins <= Len(changes)
    <3>1. read <= Len(changes) /\ read \in Nat /\ Len(changes) \in Nat
      BY <1>0 DEF LineOk
    <3>2. CASE buffer = <<>>
      BY <3>1, <3>2 DEF Mexc!Begins
    <3>3. CASE buffer # <<>>
      <4>1. 1 \in DOMAIN buffer
        BY <1>0, <3>3 DEF BufferOk
      <4>2. buffer[1] \in Messages
        BY <1>0, <4>1, MemberOfSeq DEF BufferOk
      <4>3. buffer[1].from < buffer[1].to /\ buffer[1].to <= read
        BY <1>0, <4>1 DEF BufferOk, Feed!BufferFits
      <4>4. QED
        BY <3>1, <3>3, <4>2, <4>3 DEF Mexc!Begins, Messages
    <3>4. QED
      BY <3>2, <3>3
  <2>5. Mexc!Begins' = Mexc!Begins
    BY <2>1 DEF Mexc!Begins
  <2>6. ASSUME NEW j \in DOMAIN fetch, fetch'[j].sound, fetch'[j].at # Feed!Unanswered
        PROVE  Mexc!Begins <= fetch'[j].at
    <3>1. CASE j = i
      <4>1. fetch'[j].at = Len(changes)
        BY <2>3, <3>1 DEF Feed!FetchType
      <4>2. QED
        BY <2>4, <4>1
    <3>2. CASE j # i
      <4>1. fetch'[j] = fetch[j]
        BY <2>3, <3>2
      <4>2. QED
        BY <1>0, <2>6, <4>1
           DEF Mexc!NothingLeftOut, Mexc!Unanswered, Feed!Unanswered
    <3>3. QED
      BY <3>1, <3>2
  <2>7. DOMAIN fetch' = DOMAIN fetch
    BY <2>3
  <2>8. Mexc!NothingLeftOut'
    BY <1>0, <2>1, <2>5, <2>6, <2>7
       DEF Mexc!NothingLeftOut, Mexc!Unanswered, Feed!Unanswered
  <2>9. QED
    BY <1>0, <1>4, <2>2, <2>8, StepAnswer
<1>5. ASSUME NEW i \in DOMAIN fetch, Feed!Fails(i)
      PROVE  Feed!FeedInv' /\ Mexc!NothingLeftOut' /\ Mexc!SkipsOn'
  <2>1. Feed!FeedInv' /\ Asked(fetch', ready')
    BY <1>0, <1>5, StepFails
  <2>2. UNCHANGED <<read, buffer>> /\ ready' = FALSE
    BY <1>5 DEF Feed!Fails
  <2>3. QED
    BY <1>0, <2>1, <2>2, LeftOutStays DEF Mexc!SkipsOn
<1>6. QED
  BY <1>1, <1>2, <1>3, <1>4, <1>5 DEF Feed!Common

\* The connection drops.
LEMMA MexcDrop ==
  ASSUME Feed!DepthAssumptions, Mexc!MexcInv, Mexc!Drop
  PROVE  Mexc!MexcInv'
<1>0. /\ Feed!FeedInv /\ Mexc!NothingLeftOut /\ Mexc!SkipsOn
      /\ LineOk /\ BufferOk /\ FetchOk /\ ViewOk
  BY PartsBefore, MexcIsFeed DEF Mexc!MexcInv
<1>1. /\ UNCHANGED <<changes, Feed!view, read, ready, last, buffer, resnaps>>
      /\ link' = "down" /\ drops' = drops + 1 /\ listed' = FALSE
      /\ fetch' = [i \in DOMAIN fetch |-> IF fetch[i].kind = "heal" THEN Feed!NoFetch ELSE fetch[i]]
  BY MexcIsFeed DEF Mexc!Drop, Mexc!exchange, Mexc!gates, Mexc!view, Feed!view
<1>2. Feed!NoFetch \in Feed!FetchType /\ DOMAIN fetch = 1 .. MaxFetches
  BY <1>0
     DEF Feed!NoFetch, Feed!FetchType, Feed!Unanswered, Feed!DepthAssumptions,
         FetchOk
<1>3. /\ fetch' \in [1 .. MaxFetches -> Feed!FetchType]
      /\ \A i \in 1 .. MaxFetches : fetch'[i] \in {fetch[i], Feed!NoFetch}
  BY <1>0, <1>1, <1>2 DEF FetchOk
<1>4. FetchOk'
  BY <1>0, <1>1, <1>3, FetchStays
<1>5. LineOk' /\ BufferOk'
  <2>0. drops \in Nat /\ drops' = drops + 1
    BY <1>0, <1>1 DEF LineOk
  <2>1. drops' \in Nat
    BY <2>0
  <2>2. LineOk'
    BY <1>0, <1>1, <2>1 DEF LineOk
  <2>3. BufferOk'
    BY <1>0, <1>1 DEF BufferOk, Feed!BufferFits
  <2>4. QED
    BY <2>2, <2>3
<1>6. read \in Nat /\ read' \in Nat /\ read <= read'
  BY <1>0, <1>1 DEF LineOk
<1>7. ready' \in BOOLEAN /\ (ready' => ready)
  BY <1>0, <1>1 DEF LineOk
<1>8. Feed!FeedInv'
  BY <1>0, <1>1, <1>4, <1>5, <1>6, <1>7, ViewStays, PartsAfter
<1>9. Mexc!NothingLeftOut'
  <2>1. Mexc!Begins' = Mexc!Begins /\ Mexc!Unanswered = Feed!Unanswered
    BY <1>1, MexcIsFeed DEF Mexc!Begins
  <2>2. ASSUME NEW j \in DOMAIN fetch', fetch'[j].sound, fetch'[j].at # Feed!Unanswered
        PROVE  Mexc!Begins <= fetch'[j].at
    <3>1. fetch'[j] = fetch[j] /\ j \in DOMAIN fetch
      BY <1>2, <1>3, <2>2 DEF Feed!NoFetch
    <3>2. QED
      BY <1>0, <2>1, <2>2, <3>1 DEF Mexc!NothingLeftOut
  <2>3. QED
    BY <1>0, <1>1, <2>1, <2>2 DEF Mexc!NothingLeftOut
<1>10. Mexc!SkipsOn'
  BY <1>0, <1>1 DEF Mexc!SkipsOn, Feed!view
<1>11. QED
  BY <1>8, <1>9, <1>10, MexcIsFeed DEF Mexc!MexcInv

\* The messages behind a sound snapshot lead from it to what was read last.
LEMMA MexcReplay ==
  ASSUME Feed!DepthAssumptions, Feed!FeedInv, Mexc!NothingLeftOut,
         NEW i \in DOMAIN fetch, fetch[i].sound, fetch[i].at \in 0 .. Len(changes),
         fetch[i].at # Feed!Unanswered, Feed!Newer(fetch[i].at) # {}
  PROVE  /\ \A l \in Levels \ Feed!MissedAll(fetch[i].at, Feed!Newer(fetch[i].at)) :
              Feed!MergeAll(Feed!Truth(fetch[i].at), Feed!Newer(fetch[i].at))[l] = Feed!Latest(l, read)
         /\ buffer[Feed!Max(Feed!Newer(fetch[i].at))].to = read
<1> DEFINE v == fetch[i].at
           ns == Feed!Newer(v)
<1>0. v \in Nat /\ v \in 0 .. Len(changes) /\ ns # {} /\ Mexc!Begins <= v
      /\ Feed!Unanswered = Mexc!Unanswered
  BY MexcIsFeed DEF Feed!FeedInv, Feed!TypeOK, Mexc!NothingLeftOut
<1> HIDE DEF v, ns
<1>1. /\ ns \in SUBSET DOMAIN buffer /\ DOMAIN buffer = 1 .. Len(buffer)
      /\ Len(buffer) \in Nat
      /\ Feed!Min(ns) \in ns /\ Feed!Max(ns) = Len(buffer)
      /\ \A k \in DOMAIN buffer : k \in ns <=> Feed!Min(ns) <= k
      /\ \A k \in DOMAIN buffer : buffer[k].to \in 0 .. read /\ buffer[k].from \in Nat
      /\ \A k \in ns : buffer[k].to > v
  BY <1>0, NewerIs DEF ns
<1>2. Feed!Min(ns) \in 1 .. Len(buffer) /\ buffer # <<>>
  BY <1>1
<1>3. Follow(ns)
  <2> SUFFICES ASSUME NEW k \in ns, Feed!Min(ns) < k
               PROVE  k - 1 \in ns /\ buffer[k].from = buffer[k - 1].to
    BY DEF Follow
  <2>1. k \in 1 .. Len(buffer) /\ k > 1 /\ k - 1 \in 1 .. Len(buffer) /\ Feed!Min(ns) <= k - 1
    BY <1>1, <1>2
  <2>2. QED
    BY <1>1, <2>1 DEF Mexc!NothingLeftOut
<1>4. buffer[Feed!Min(ns)].from <= v
  <2>1. CASE Feed!Min(ns) = 1
    BY <1>0, <1>2, <2>1 DEF Mexc!Begins
  <2>2. CASE Feed!Min(ns) > 1
    <3>1. Feed!Min(ns) - 1 \in DOMAIN buffer /\ ~(Feed!Min(ns) <= Feed!Min(ns) - 1)
      BY <1>1, <1>2, <2>2
    <3>2. ~(Feed!Min(ns) - 1 \in ns)
      BY <1>1, <3>1
    <3>3. ~(buffer[Feed!Min(ns) - 1].to > v)
      BY <3>1, <3>2 DEF ns, Feed!Newer
    <3>4. buffer[Feed!Min(ns)].from = buffer[Feed!Min(ns) - 1].to
      BY <1>1, <1>2, <2>2 DEF Mexc!NothingLeftOut
    <3>5. QED
      BY <1>0, <1>1, <3>1, <3>3, <3>4
  <2>3. QED
    BY <1>2, <2>1, <2>2
<1>5. buffer[Len(buffer)].to = read
  BY <1>2 DEF Mexc!NothingLeftOut
<1>6. \A l \in Levels \ Feed!MissedAll(v, ns) :
        Feed!MergeAll(Feed!Truth(v), ns)[l] = Feed!Latest(l, buffer[Feed!Max(ns)].to)
  BY <1>0, <1>1, <1>3, <1>4, MergeAllIsTruth DEF Feed!FeedInv
<1>7. QED
  BY <1>1, <1>5, <1>6 DEF v, ns

\* A snapshot is handled.
LEMMA MexcLand ==
  ASSUME Feed!DepthAssumptions, Mexc!MexcInv, NEW i \in DOMAIN fetch, Mexc!Land(i)
  PROVE  Mexc!MexcInv'
<1>0. /\ Feed!FeedInv /\ Mexc!NothingLeftOut /\ Mexc!SkipsOn
      /\ LineOk /\ BufferOk /\ FetchOk /\ ViewOk
  BY PartsBefore, MexcIsFeed DEF Mexc!MexcInv
<1> DEFINE v == fetch[i].at
           rest == Feed!Newer(v)
           first == buffer[Feed!Min(rest)].to
<1>1. /\ fetch[i] # Feed!NoFetch /\ fetch[i].at # Feed!Unanswered
      /\ UNCHANGED <<changes, read, drops, resnaps, listed>>
      /\ fetch' = Feed!Done(i) /\ link' = Feed!Reads(i) /\ buffer' = <<>>
      /\ snap' = v /\ sound' = fetch[i].sound
  BY MexcIsFeed DEF Mexc!Land, Mexc!exchange
<1> DEFINE Shown(b, t, cut) ==
        /\ Feed!Shows(b, t, cut)
        /\ \/ /\ b = Feed!Truth(v) /\ t = {} /\ applied' = v /\ last' = last
              /\ ready' \in BOOLEAN /\ (ready' => rest = {})
           \/ /\ b = Feed!MergeAll(Feed!Truth(v), rest) /\ t = Feed!MissedAll(v, rest)
              /\ applied' = buffer[Feed!Max(rest)].to
              /\ ready' = TRUE /\ last' = first /\ rest # {}
<1>a. \E cut \in SUBSET Outer : \E b, t : Shown(b, t, cut)
  <2> DEFINE stale == rest # {} /\ Mexc!Gap(first, v) >= MAX_VERSION_GAP
  <2>1. PICK cut \in SUBSET Outer :
          IF rest = {} \/ stale
          THEN /\ Feed!Shows(Feed!Truth(v), {}, cut) /\ applied' = v
               /\ ready' = ~stale /\ last' = last
          ELSE /\ Feed!Shows(Feed!MergeAll(Feed!Truth(v), rest), Feed!MissedAll(v, rest), cut)
               /\ applied' = buffer[Feed!Max(rest)].to
               /\ ready' = TRUE /\ last' = first
    BY MexcIsFeed DEF Mexc!Land
  <2>2. stale \in BOOLEAN /\ (stale => rest # {})
    OBVIOUS
  <2> HIDE DEF rest, first, stale
  <2>3. CASE rest = {} \/ stale
    <3>1. ready' \in BOOLEAN /\ (ready' => rest = {})
      BY <2>1, <2>3
    <3>2. Shown(Feed!Truth(v), {}, cut)
      BY <2>1, <2>3, <3>1
    <3>3. QED
      BY <3>2
  <2>4. CASE ~(rest = {} \/ stale)
    <3>1. Shown(Feed!MergeAll(Feed!Truth(v), rest), Feed!MissedAll(v, rest), cut)
      BY <2>1, <2>4
    <3>2. QED
      BY <3>1
  <2>5. QED
    BY <2>3, <2>4
<1>2. PICK cut \in SUBSET Outer : \E b, t : Shown(b, t, cut)
  BY <1>a
<1>b. PICK b, t : Shown(b, t, cut)
  BY <1>2
<1>3. /\ v \in 0 .. Len(changes) /\ fetch[i].sound \in BOOLEAN /\ v \in Nat
      /\ Feed!Reads(i) \in {"down", "snapshot", "open"}
      /\ Feed!Truth(v) \in [Levels -> 0 .. MaxVersion]
  BY <1>0, <1>1, LandingFits DEF LineOk
<1>4. Asked(fetch', ready') /\ \A n \in 1 .. MaxFetches : ~fetch'[n].sound
  BY <1>0, <1>1, DoneAsked
<1>5. FetchOk'
  BY <1>0, <1>1, <1>4, FetchAsked
<1>6. rest # {} => /\ first \in 0 .. read /\ buffer[Feed!Max(rest)].to \in 0 .. read
                   /\ rest \in SUBSET DOMAIN buffer /\ Feed!Max(rest) = Len(buffer)
  <2> SUFFICES ASSUME rest # {}
               PROVE  /\ first \in 0 .. read /\ buffer[Feed!Max(rest)].to \in 0 .. read
                      /\ rest \in SUBSET DOMAIN buffer /\ Feed!Max(rest) = Len(buffer)
    OBVIOUS
  <2>1. /\ rest \in SUBSET DOMAIN buffer /\ DOMAIN buffer = 1 .. Len(buffer)
        /\ Len(buffer) \in Nat
        /\ Feed!Min(rest) \in rest /\ Feed!Max(rest) = Len(buffer)
        /\ \A k \in DOMAIN buffer : buffer[k].to \in 0 .. read
    BY <1>0, <1>3, NewerIs
  <2> HIDE DEF rest
  <2>2. Len(buffer) \in DOMAIN buffer
    BY <2>1
  <2>3. QED
    BY <2>1, <2>2
<1>7. fetch[i].sound /\ rest # {} =>
        /\ \A l \in Levels \ Feed!MissedAll(v, rest) :
             Feed!MergeAll(Feed!Truth(v), rest)[l] = Feed!Latest(l, read)
        /\ buffer[Feed!Max(rest)].to = read
  BY <1>0, <1>1, <1>3, MexcReplay
<1>8. fetch[i].sound /\ rest = {} => read <= v
  <2> SUFFICES ASSUME fetch[i].sound, rest = {} PROVE read <= v
    OBVIOUS
  <2>1. Mexc!Begins <= v
    BY <1>0, <1>1, MexcIsFeed DEF Mexc!NothingLeftOut
  <2>2. CASE buffer = <<>>
    BY <2>1, <2>2 DEF Mexc!Begins
  <2>3. CASE buffer # <<>>
    <3>1. Len(buffer) \in DOMAIN buffer /\ buffer[Len(buffer)].to = read
      BY <1>0, <2>3 DEF BufferOk, Mexc!NothingLeftOut
    <3>2. ~(buffer[Len(buffer)].to > v)
      BY <3>1 DEF Feed!Newer
    <3>3. QED
      BY <1>0, <1>3, <3>1, <3>2 DEF LineOk
  <2>4. QED
    BY <2>2, <2>3
<1>9. Feed!MergeAll(Feed!Truth(v), rest) \in [Levels -> 0 .. MaxVersion] \/ rest = {}
  BY <1>0, <1>3, <1>6, MergesTyped
<1>10. /\ read \in Nat /\ Len(changes) \in Nat /\ read <= Len(changes) /\ last \in 0 .. read
  BY <1>0 DEF LineOk
<1> HIDE DEF v, rest, first
<1>11. LineOk'
  <2>1. last' \in 0 .. read /\ ready' \in BOOLEAN
    BY <1>b, <1>6, <1>10
  <2>2. QED
    BY <1>0, <1>1, <1>3, <2>1 DEF LineOk
<1>12. \A l, n : Feed!Latest(l, n)' = Feed!Latest(l, n)
  BY <1>1 DEF Feed!Latest
<1>13. ViewOk'
  <2>0. b \in [Levels -> 0 .. MaxVersion] /\ t \in SUBSET Levels
    BY <1>b, <1>3, <1>9 DEF Feed!MissedAll
  <2>1. /\ book' \in [Levels -> 0 .. MaxVersion] /\ stray' \in SUBSET Levels
        /\ \A l \in Levels \ stray' : l \notin t /\ book'[l] = b[l]
    BY <1>b, <2>0, ShowsIs DEF Feed!DepthAssumptions
  <2>2. {applied', snap'} \subseteq 0 .. Len(changes) /\ sound' \in BOOLEAN
    BY <1>1, <1>b, <1>3, <1>6, <1>10
  <2>3. ASSUME ready', sound'
        PROVE  /\ \A l \in Levels \ t : b[l] = Feed!Latest(l, applied')
               /\ applied' > read => applied' = snap'
    <3>1. fetch[i].sound
      BY <1>1, <2>3
    <3>2. CASE b = Feed!Truth(v) /\ applied' = v
      BY <1>1, <3>2 DEF Feed!Truth
    <3>3. CASE /\ b = Feed!MergeAll(Feed!Truth(v), rest) /\ t = Feed!MissedAll(v, rest)
               /\ applied' = buffer[Feed!Max(rest)].to /\ rest # {}
      BY <1>7, <1>10, <3>1, <3>3
    <3>4. QED
      BY <1>b, <3>2, <3>3
  <2>4. ASSUME ready', sound' PROVE Feed!BookFits'
    BY <1>1, <1>12, <2>1, <2>3, <2>4 DEF Feed!BookFits
  <2>5. QED
    BY <1>1, <2>1, <2>2, <2>4, ViewIs
<1>14. Mexc!SkipsOn'
  <2> SUFFICES ASSUME ready', sound' PROVE ~(read > applied')
    BY <1>1 DEF Mexc!SkipsOn
  <2>1. fetch[i].sound
    BY <1>1
  <2>2. CASE applied' = v /\ rest = {}
    BY <1>3, <1>8, <1>10, <2>1, <2>2
  <2>3. CASE applied' = buffer[Feed!Max(rest)].to /\ rest # {}
    BY <1>7, <1>10, <2>1, <2>3
  <2>4. QED
    BY <1>b, <2>2, <2>3
<1>15. Feed!FeedInv'
  BY <1>1, <1>5, <1>11, <1>13, BufferClears, PartsAfter
<1>16. QED
  BY <1>1, <1>4, <1>5, <1>14, <1>15, LeftOutClears, MexcIsFeed DEF Mexc!MexcInv

\* A message that is not skipped begins no later than the book.
LEMMA MexcReadNext ==
  ASSUME Feed!DepthAssumptions, Mexc!GapAssumption, Mexc!MexcInv,
         NEW v \in read + 1 .. Len(changes), Mexc!ReadNext(v)
  PROVE  Mexc!MexcInv'
<1>0. /\ Feed!FeedInv /\ Mexc!NothingLeftOut /\ Mexc!SkipsOn
      /\ LineOk /\ BufferOk /\ FetchOk /\ ViewOk
  BY PartsBefore, MexcIsFeed DEF Mexc!MexcInv
<1>1. /\ ready /\ read' = v /\ ~Mexc!TooFar(v) /\ applied' = v
      /\ UNCHANGED <<changes, link, drops, snap, sound, listed>>
  BY MexcIsFeed DEF Mexc!ReadNext, Mexc!exchange, Feed!Arrives
<1>a. PICK out \in SUBSET Outer, cut \in SUBSET Outer :
        Feed!Shows(Feed!Merge(book, Feed!Message(v, out)), Feed!Missed(stray, Feed!Message(v, out)), cut)
  BY MexcIsFeed DEF Mexc!ReadNext
<1> DEFINE m == Feed!Message(v, out)
<1>2. \/ last' = v /\ UNCHANGED <<ready, buffer, fetch, resnaps>>
      \/ Feed!Resync /\ resnaps' = resnaps + 1
  BY MexcIsFeed DEF Mexc!ReadNext
<1>3. /\ read \in Nat /\ v \in Nat /\ v \in 0 .. Len(changes) /\ read < v
      /\ last \in Nat /\ resnaps + 1 \in Nat /\ applied \in Nat
  BY <1>0 DEF LineOk, ViewOk
<1>b. m \in Messages /\ m.from = read /\ m.to = v
  BY <1>0, <1>3, MessageIs DEF LineOk
<1> HIDE DEF m
<1>4. /\ book' \in [Levels -> 0 .. MaxVersion] /\ stray' \in SUBSET Levels
      /\ \A l \in Levels \ stray' : /\ l \notin Feed!Missed(stray, m)
                                   /\ book'[l] = Feed!Merge(book, m)[l]
  <2>1. Feed!Merge(book, m) \in [Levels -> 0 .. MaxVersion]
    BY <1>0, <1>3, <1>b, MergesTyped DEF ViewOk
  <2>2. Feed!Missed(stray, m) \in SUBSET Levels
    BY <1>0 DEF ViewOk, Feed!Missed, Feed!Changed
  <2>3. cut \in SUBSET Levels /\ MaxVersion \in Nat
    BY DEF Feed!DepthAssumptions
  <2>4. QED
    BY <1>a, <2>1, <2>2, <2>3, ShowsIs DEF m
<1>5. {applied', snap'} \subseteq 0 .. Len(changes) /\ sound' \in BOOLEAN
  BY <1>0, <1>1, <1>3 DEF ViewOk
<1>6. CASE Feed!Resync /\ resnaps' = resnaps + 1
  <2>1. Feed!FeedInv' /\ Asked(fetch', ready') /\ ~ready' /\ buffer' = <<>>
    BY <1>0, <1>1, <1>3, <1>4, <1>5, <1>6, StepResync
  <2>2. FetchOk'
    BY <2>1 DEF FetchOk, Feed!FeedInv, Feed!TypeOK, Feed!Known
  <2>3. QED
    BY <2>1, <2>2, LeftOutClears, MexcIsFeed DEF Mexc!MexcInv, Mexc!SkipsOn
<1>7. CASE last' = v /\ UNCHANGED <<ready, buffer, fetch, resnaps>>
  <2>1. ASSUME sound PROVE read <= applied
    <3> SUFFICES ASSUME read > applied PROVE FALSE
      BY <1>3
    <3>1. last # 0 /\ Mexc!Gap(read, last) >= MAX_VERSION_GAP
      BY <1>0, <1>1, <2>1 DEF Mexc!SkipsOn
    <3>2. ~(Mexc!Gap(v, last) >= MAX_VERSION_GAP)
      BY <1>1, <3>1 DEF Mexc!TooFar
    <3>3. QED
      BY <1>3, <3>1, <3>2 DEF Mexc!Gap, Mexc!GapAssumption
  <2>2. ASSUME sound, NEW l \in Levels \ stray', Feed!Latest(l, snap) <= v
        PROVE  book'[l] = Feed!Latest(l, v)
    <3>1. Feed!BookFits /\ Feed!TypeOK /\ Feed!Known
      BY <1>0, <1>1, <2>2 DEF Feed!FeedInv
    <3>2. read <= applied
      BY <2>1, <2>2
    <3>3. l \in Levels \ Feed!Missed(stray, m) /\ v <= Len(changes) /\ read <= read
      BY <1>0, <1>3, <1>4, <2>2 DEF LineOk
    <3>4. Feed!Merge(book, m)[l] = Feed!Latest(l, v)
      BY <1>3, <1>b, <2>2, <3>1, <3>2, <3>3, MergeFits
    <3>5. QED
      BY <1>4, <2>2, <3>4
  <2>3. \A l, n : Feed!Latest(l, n)' = Feed!Latest(l, n)
    BY <1>1 DEF Feed!Latest
  <2>4. ~(applied' > read')
    BY <1>1, <1>3
  <2>5. ready' /\ sound' => Feed!BookFits'
    BY <1>1, <2>2, <2>3, <2>4 DEF Feed!BookFits
  <2>6. ViewOk'
    BY <1>1, <1>4, <1>5, <2>5, ViewIs
  <2>7. LineOk'
    <3>1. v \in 0 .. Len(changes) /\ v \in 0 .. v
      BY <1>3
    <3>2. QED
      BY <1>0, <1>1, <1>7, <3>1 DEF LineOk
  <2>8. buffer' = <<>>
    BY <1>0, <1>1, <1>7 DEF BufferOk, Feed!BufferFits
  <2>9. \A n \in DOMAIN fetch : ~fetch[n].sound
    BY <1>0, <1>1 DEF FetchOk, Feed!SoundAlone
  <2>10. FetchOk'
    BY <1>0, <1>1, <1>7, <2>9 DEF FetchOk, Feed!SoundAlone
  <2>11. Feed!FeedInv'
    BY <2>6, <2>7, <2>8, <2>10, BufferClears, PartsAfter
  <2>12. Mexc!NothingLeftOut'
    BY <1>7, <2>8, <2>9 DEF Mexc!NothingLeftOut
  <2>13. Mexc!SkipsOn'
    BY <1>1, <1>3 DEF Mexc!SkipsOn
  <2>14. QED
    BY <2>11, <2>12, <2>13, MexcIsFeed DEF Mexc!MexcInv
<1>8. QED
  BY <1>2, <1>6, <1>7

\* Once a message is too far off, so are all that follow, until the symbol asks
\* for a snapshot.
LEMMA MexcReadFar ==
  ASSUME Feed!DepthAssumptions, Mexc!MexcInv,
         NEW v \in read + 1 .. Len(changes), Mexc!ReadFar(v)
  PROVE  Mexc!MexcInv'
<1>0. /\ Feed!FeedInv /\ Mexc!NothingLeftOut /\ Mexc!SkipsOn
      /\ LineOk /\ BufferOk /\ FetchOk /\ ViewOk
  BY PartsBefore, MexcIsFeed DEF Mexc!MexcInv
<1>1. /\ ready /\ read' = v /\ Mexc!TooFar(v)
      /\ UNCHANGED <<changes, link, drops, listed, Feed!view>>
  BY MexcIsFeed DEF Mexc!ReadFar, Mexc!exchange, Mexc!view, Feed!view, Feed!Arrives
<1>2. \/ Feed!Resync /\ resnaps' = resnaps + 1
      \/ UNCHANGED <<ready, last, buffer, fetch, resnaps>>
  BY MexcIsFeed DEF Mexc!ReadFar, Mexc!gates
<1>3. /\ read \in Nat /\ v \in Nat /\ v \in 0 .. Len(changes) /\ read < v
      /\ last \in 0 .. v /\ resnaps + 1 \in Nat
  BY <1>0 DEF LineOk
<1>4. CASE Feed!Resync /\ resnaps' = resnaps + 1
  <2>1. /\ {applied', snap'} \subseteq 0 .. Len(changes)
        /\ book' \in [Levels -> 0 .. MaxVersion] /\ sound' \in BOOLEAN
        /\ stray' \in SUBSET Levels
    BY <1>0, <1>1 DEF ViewOk, Feed!view
  <2>2. Feed!FeedInv' /\ Asked(fetch', ready') /\ ~ready' /\ buffer' = <<>>
    BY <1>0, <1>1, <1>3, <1>4, <2>1, StepResync
  <2>3. FetchOk'
    BY <2>2 DEF FetchOk, Feed!FeedInv, Feed!TypeOK, Feed!Known
  <2>4. QED
    BY <2>2, <2>3, LeftOutClears, MexcIsFeed DEF Mexc!MexcInv, Mexc!SkipsOn
<1>5. CASE UNCHANGED <<ready, last, buffer, fetch, resnaps>>
  <2>1. LineOk'
    BY <1>0, <1>1, <1>3, <1>5 DEF LineOk
  <2>2. ready' \in BOOLEAN /\ (ready' => ready) /\ read' \in Nat /\ read <= read'
    BY <1>0, <1>1, <1>3, <1>5 DEF LineOk
  <2>3. Feed!FeedInv'
    BY <1>0, <1>1, <1>3, <1>5, <2>1, <2>2, BufferStays, FetchSame, ViewStays,
       PartsAfter
  <2>4. buffer' = <<>> /\ \A n \in DOMAIN fetch : ~fetch[n].sound
    BY <1>0, <1>1, <1>5 DEF BufferOk, Feed!BufferFits, FetchOk, Feed!SoundAlone
  <2>5. Mexc!NothingLeftOut'
    BY <1>5, <2>4 DEF Mexc!NothingLeftOut
  <2>6. Mexc!SkipsOn'
    BY <1>1, <1>5 DEF Mexc!SkipsOn, Mexc!TooFar, Mexc!Gap
  <2>7. QED
    BY <2>3, <2>5, <2>6, MexcIsFeed DEF Mexc!MexcInv
<1>6. QED
  BY <1>2, <1>4, <1>5

\* A message before the snapshot.
LEMMA MexcReadEarly ==
  ASSUME Feed!DepthAssumptions, Mexc!MexcInv, NEW v \in read + 1 .. Len(changes),
         Feed!ReadEarly(v)
  PROVE  Mexc!MexcInv'
<1>0. Feed!FeedInv /\ Mexc!NothingLeftOut /\ LineOk /\ BufferOk
  BY PartsBefore, MexcIsFeed DEF Mexc!MexcInv
<1>1. /\ Feed!FeedInv' /\ ~ready' /\ read' = v /\ fetch' = fetch
      /\ \E m \in Messages : m.from = read /\ m.to = v /\ buffer' = Append(buffer, m)
  BY <1>0, StepReadEarly
<1>2. PICK m \in Messages : m.from = read /\ m.to = v /\ buffer' = Append(buffer, m)
  BY <1>1
<1>3. buffer \in Seq(Messages) /\ buffer' = Append(buffer, m)
  BY <1>0, <1>2 DEF BufferOk
<1>4. /\ Len(buffer') = Len(buffer) + 1 /\ DOMAIN buffer' = 1 .. Len(buffer) + 1
      /\ DOMAIN buffer = 1 .. Len(buffer) /\ Len(buffer) \in Nat
      /\ \A n \in 1 .. Len(buffer) : buffer'[n] = buffer[n]
      /\ buffer'[Len(buffer) + 1] = m /\ buffer' # <<>>
  BY <1>2, <1>3
<1>5. buffer'[Len(buffer')].to = read'
  BY <1>1, <1>2, <1>4
<1>6. ASSUME NEW n \in DOMAIN buffer', n > 1 PROVE buffer'[n].from = buffer'[n - 1].to
  <2>1. n - 1 \in 1 .. Len(buffer) /\ (n \in 1 .. Len(buffer) \/ n = Len(buffer) + 1)
    BY <1>4, <1>6
  <2>2. CASE n \in 1 .. Len(buffer)
    BY <1>0, <1>4, <1>6, <2>1, <2>2 DEF Mexc!NothingLeftOut
  <2>3. CASE n = Len(buffer) + 1
    <3>1. buffer # <<>> /\ buffer'[n] = m /\ buffer'[n - 1] = buffer[Len(buffer)]
      BY <1>4, <2>1, <2>3
    <3>2. QED
      BY <1>0, <1>2, <3>1 DEF Mexc!NothingLeftOut
  <2>4. QED
    BY <2>1, <2>2, <2>3
<1>7. Mexc!Begins' = Mexc!Begins
  <2>1. CASE buffer = <<>>
    BY <1>2, <1>4, <2>1 DEF Mexc!Begins
  <2>2. CASE buffer # <<>>
    <3>1. 1 \in 1 .. Len(buffer)
      BY <1>3, <2>2
    <3>2. QED
      BY <1>4, <2>2, <3>1 DEF Mexc!Begins
  <2>3. QED
    BY <2>1, <2>2
<1>8. Mexc!NothingLeftOut'
  BY <1>0, <1>1, <1>5, <1>6, <1>7 DEF Mexc!NothingLeftOut
<1>9. QED
  BY <1>1, <1>8, MexcIsFeed DEF Mexc!MexcInv, Mexc!SkipsOn

\* Every step keeps the invariant.
LEMMA MexcStep ==
  ASSUME Feed!DepthAssumptions, Mexc!GapAssumption, Mexc!MexcInv, [Mexc!Next]_(Mexc!vars)
  PROVE  Mexc!MexcInv'
<1>0. Feed!FeedInv /\ Mexc!NothingLeftOut /\ Mexc!SkipsOn
  BY MexcIsFeed DEF Mexc!MexcInv
<1>1. CASE UNCHANGED Mexc!vars
  <2>1. UNCHANGED <<Feed!exchange, Feed!line, Feed!gates, Feed!view, fetch, listed, resnaps>>
    BY <1>1 DEF Mexc!vars, Feed!exchange, Feed!line, Feed!gates, Feed!view
  <2>2. Feed!FeedInv'
    BY <1>0, <2>1, StepAside DEF Feed!FeedInv, Feed!TypeOK
  <2>3. Mexc!NothingLeftOut' /\ Mexc!SkipsOn'
    BY <1>0, <1>1 DEF Mexc!vars, Mexc!NothingLeftOut, Mexc!SkipsOn, Mexc!Begins
  <2>4. QED
    BY <2>2, <2>3, MexcIsFeed DEF Mexc!MexcInv
<1>2. CASE Feed!Common
  BY <1>2, MexcCommon
<1>3. CASE Mexc!Drop
  BY <1>3, MexcDrop
<1>4. CASE Feed!HealLists(link = "open")
  <2>1. \E runs \in BOOLEAN : Feed!HealLists(runs)
    BY <1>4
  <2>2. Feed!FeedInv' /\ UNCHANGED <<Feed!exchange, Feed!line, Feed!gates, Feed!view>>
    BY <1>0, <2>1, StepHeal
  <2>3. fetch' = fetch
    BY <1>4 DEF Feed!HealLists
  <2>4. Mexc!NothingLeftOut' /\ Mexc!SkipsOn'
    BY <1>0, <2>2, <2>3
       DEF Feed!line, Feed!gates, Feed!view, Mexc!NothingLeftOut, Mexc!SkipsOn,
           Mexc!Begins
  <2>5. QED
    BY <2>2, <2>4, MexcIsFeed DEF Mexc!MexcInv
<1>5. ASSUME NEW i \in DOMAIN fetch, Mexc!Land(i) PROVE Mexc!MexcInv'
  BY <1>5, MexcLand
<1>6. ASSUME NEW v \in read + 1 .. Len(changes), Feed!ReadEarly(v) PROVE Mexc!MexcInv'
  BY <1>6, MexcReadEarly
<1>7. ASSUME NEW v \in read + 1 .. Len(changes), Mexc!ReadStale(v) PROVE Mexc!MexcInv'
  <2>1. v <= last /\ last <= read /\ read \in Nat /\ last \in Nat /\ v > read
    BY <1>0, <1>7 DEF Mexc!ReadStale, Feed!FeedInv, Feed!TypeOK, Feed!Known
  <2>2. QED
    BY <2>1
<1>8. ASSUME NEW v \in read + 1 .. Len(changes), Mexc!ReadFar(v) PROVE Mexc!MexcInv'
  BY <1>8, MexcReadFar
<1>9. ASSUME NEW v \in read + 1 .. Len(changes), Mexc!ReadNext(v) PROVE Mexc!MexcInv'
  BY <1>9, MexcReadNext
<1>10. QED
  BY <1>1, <1>2, <1>3, <1>4, <1>5, <1>6, <1>7, <1>8, <1>9, MexcIsFeed DEF Mexc!Next

\* At the start nothing is ready.
LEMMA MexcInit ==
  ASSUME Feed!DepthAssumptions, Mexc!Init
  PROVE  Mexc!MexcInv
<1>0. Feed!Init
  BY MexcIsFeed
<1>1. Feed!FeedInv
  BY <1>0, FeedInit
<1>2. \A i \in DOMAIN fetch : ~fetch[i].sound
  BY <1>0 DEF Feed!Init, Feed!NoFetch
<1>3. QED
  BY <1>0, <1>1, <1>2, MexcIsFeed
     DEF Feed!Init, Mexc!MexcInv, Mexc!NothingLeftOut, Mexc!SkipsOn

\* A book that is ready in the invariant is true.
LEMMA MexcGives == Mexc!MexcInv => Mexc!TypeOK /\ Mexc!ReadyBookIsTrue
BY FeedIsTrue, MexcIsFeed DEF Mexc!MexcInv, Feed!FeedInv

\* What the connection says of a book that is in order.
THEOREM MexcBookIsTrue ==
  ASSUME Feed!DepthAssumptions, Mexc!GapAssumption
  PROVE  Mexc!Spec => []Mexc!TypeOK /\ []Mexc!ReadyBookIsTrue
<1>1. Mexc!Init => Mexc!MexcInv
  BY MexcInit
<1>2. Mexc!MexcInv /\ [Mexc!Next]_(Mexc!vars) => Mexc!MexcInv'
  BY MexcStep
<1>3. QED
  BY <1>1, <1>2, MexcGives, PTL DEF Mexc!Spec


-----------------------------------------------------------------------------
(* The depth stream of Binance.                                            *)

-----------------------------------------------------------------------------
(* Binance.                                                                *)

\* What BinanceDepth has from DepthFeed is what is proved about above.
LEMMA BinanceIsFeed ==
  /\ Binance!FeedInv = Feed!FeedInv /\ (Binance!FeedInv = Feed!FeedInv)'
  /\ Binance!TypeOK = Feed!TypeOK
  /\ Binance!Init = Feed!Init /\ Binance!Common = Feed!Common
  /\ Binance!MayResnap = Feed!MayResnap /\ Binance!Resync = Feed!Resync
  /\ Binance!ReadyBookIsTrue = Feed!ReadyBookIsTrue
  /\ \A b \in BOOLEAN : Binance!HealLists(b) = Feed!HealLists(b)
  /\ \A i : Binance!Done(i) = Feed!Done(i) /\ Binance!Reads(i) = Feed!Reads(i)
  /\ \A v : /\ Binance!Newer(v) = Feed!Newer(v) /\ Binance!Truth(v) = Feed!Truth(v)
            /\ Binance!ReadEarly(v) = Feed!ReadEarly(v)
            /\ Binance!Arrives(v) = Feed!Arrives(v)
            /\ \A out : Binance!Message(v, out) = Feed!Message(v, out)
            /\ \A ns : Binance!MissedAll(v, ns) = Feed!MissedAll(v, ns)
  /\ \A b, t, cut : Binance!Shows(b, t, cut) = Feed!Shows(b, t, cut)
  /\ \A t, m : Binance!Missed(t, m) = Feed!Missed(t, m)
  /\ \A b, ns : Binance!MergeAll(b, ns) = Feed!MergeAll(b, ns)
  /\ \A b, m : Binance!Merge(b, m) = Feed!Merge(b, m)
  /\ Binance!NoFetch = Feed!NoFetch /\ Binance!Unanswered = Feed!Unanswered
  /\ \A s : Binance!Min(s) = Feed!Min(s) /\ Binance!Max(s) = Feed!Max(s)
  /\ \A fs, kind : Binance!Ask(fs, kind) = Feed!Ask(fs, kind)
BY DEF Binance!FeedInv, Feed!FeedInv, Binance!Init, Feed!Init, Binance!Connect,
   Feed!Connect, Binance!Change, Feed!Change, Binance!Common, Feed!Common,
   Binance!HealAsks, Feed!HealAsks, Binance!MinutePasses, Feed!MinutePasses,
   Binance!Answer, Feed!Answer, Binance!Fails, Feed!Fails, Binance!HealLists,
   Feed!HealLists, Binance!Ask, Feed!Ask, Binance!Idle, Feed!Idle, Binance!CanAsk,
   Feed!CanAsk, Binance!Done, Feed!Done, Binance!Reads, Feed!Reads, Binance!Newer,
   Feed!Newer, Binance!Truth, Feed!Truth, Binance!Latest, Feed!Latest,
   Binance!ReadEarly, Feed!ReadEarly, Binance!Arrives, Feed!Arrives,
   Binance!Message, Feed!Message, Binance!MergeAll, Feed!MergeAll, Binance!Changed, Feed!Changed, Binance!Missed, Feed!Missed, Binance!MissedAll, Feed!MissedAll, Binance!Shows, Feed!Shows, Binance!Merge, Feed!Merge, Binance!MayResnap, Feed!MayResnap,
   Binance!Resync, Feed!Resync, Binance!NoFetch, Feed!NoFetch, Binance!Unanswered,
   Feed!Unanswered, Binance!exchange, Feed!exchange, Binance!line, Feed!line,
   Binance!view, Feed!view, Binance!gates, Feed!gates, Binance!Buffered,
   Feed!Buffered, Binance!TypeOK, Feed!TypeOK, Binance!Known, Feed!Known,
   Binance!BufferFits, Feed!BufferFits, Binance!SoundAlone, Feed!SoundAlone,
   Binance!BookFits, Feed!BookFits, Binance!FetchType, Feed!FetchType,
   Binance!ReadyBookIsTrue, Feed!ReadyBookIsTrue, Binance!Min, Binance!Max,
   Feed!Min, Feed!Max

\* Steps that leave the gates and the view alone.
LEMMA BinanceAside ==
  ASSUME Feed!DepthAssumptions, Binance!BinanceInv, UNCHANGED <<Feed!exchange,
         Feed!gates, Feed!view>>,
         losses' \in Nat,
         listed' \in BOOLEAN, {drops', resnaps'} \subseteq Nat,
         link' \in {"down", "snapshot", "open"}, read' \in read .. Len(changes),
         fetch' = fetch \/ Asked(fetch', ready')
  PROVE  Binance!BinanceInv'
<1>0. /\ Feed!FeedInv /\ losses \in Nat /\ (ready /\ sound => last <= applied)
      /\ LineOk /\ BufferOk /\ FetchOk /\ ViewOk
  BY PartsBefore, BinanceIsFeed DEF Binance!BinanceInv
<1>1. UNCHANGED <<changes, ready, last, buffer, Feed!view, applied, sound>>
  BY DEF Feed!exchange, Feed!gates, Feed!view
<1>2. read \in Nat /\ read' \in Nat /\ read <= read' /\ last \in 0 .. read' /\ Len(changes) \in Nat
      /\ read' \in 0 .. Len(changes)
  BY <1>0 DEF LineOk
<1>3. LineOk'
  BY <1>0, <1>1, <1>2 DEF LineOk
<1>4. ready' \in BOOLEAN /\ (ready' => ready)
  BY <1>0, <1>1 DEF LineOk
<1>5. FetchOk'
  BY <1>0, <1>1, FetchSame, FetchAsked
<1>6. Feed!FeedInv'
  BY <1>0, <1>1, <1>2, <1>3, <1>4, <1>5, BufferStays, ViewStays, PartsAfter
<1>7. QED
  BY <1>0, <1>1, <1>6, BinanceIsFeed DEF Binance!BinanceInv

\* What both streams do.
LEMMA BinanceCommon ==
  ASSUME Feed!DepthAssumptions, Binance!BinanceInv, Feed!Common, losses' = losses
  PROVE  Binance!BinanceInv'
<1>0. Feed!FeedInv /\ losses \in Nat /\ (ready /\ sound => last <= applied)
  BY BinanceIsFeed DEF Binance!BinanceInv
<1>1. ASSUME Feed!FeedInv', UNCHANGED <<ready, sound, last, applied>> \/ ready' = FALSE
      PROVE  Binance!BinanceInv'
  BY <1>0, <1>1, BinanceIsFeed DEF Binance!BinanceInv
<1>2. ASSUME NEW l \in Levels, Feed!Change(l) PROVE Binance!BinanceInv'
  BY <1>0, <1>1, <1>2, StepChange DEF Feed!Change, Feed!gates, Feed!view
<1>3. CASE Feed!Connect
  BY <1>0, <1>1, <1>3, StepConnect DEF Feed!Connect
<1>4. CASE Feed!HealAsks \/ Feed!MinutePasses
  BY <1>0, <1>1, <1>4, StepHeal DEF Feed!gates, Feed!view
<1>5. ASSUME NEW i \in DOMAIN fetch, Feed!Answer(i) PROVE Binance!BinanceInv'
  BY <1>0, <1>1, <1>5, StepAnswer DEF Feed!Answer, Feed!gates, Feed!view
<1>6. ASSUME NEW i \in DOMAIN fetch, Feed!Fails(i) PROVE Binance!BinanceInv'
  BY <1>0, <1>1, <1>6, StepFails DEF Feed!Fails
<1>7. QED
  BY <1>2, <1>3, <1>4, <1>5, <1>6 DEF Feed!Common

\* A snapshot with nothing behind it.
LEMMA BinanceLandBare ==
  ASSUME Feed!DepthAssumptions, Binance!BinanceInv, NEW i \in DOMAIN fetch,
         Binance!LandBare(i), losses' = losses
  PROVE  Binance!BinanceInv'
<1>0. /\ Feed!FeedInv /\ losses \in Nat /\ LineOk /\ BufferOk /\ FetchOk /\ ViewOk
  BY PartsBefore, BinanceIsFeed DEF Binance!BinanceInv
<1> DEFINE v == fetch[i].at
<1>1. /\ fetch[i] # Feed!NoFetch /\ fetch[i].at # Feed!Unanswered
      /\ UNCHANGED <<changes, read, drops, listed, resnaps, last>>
      /\ fetch' = Feed!Done(i) /\ link' = Feed!Reads(i) /\ buffer' = <<>>
      /\ snap' = v /\ sound' = fetch[i].sound
      /\ applied' = v
  BY BinanceIsFeed DEF Binance!LandBare, Binance!Landing, Binance!exchange
<1>a. PICK cut \in SUBSET Outer : Feed!Shows(Feed!Truth(v), {}, cut)
  BY BinanceIsFeed DEF Binance!LandBare
<1>2. ready' \in BOOLEAN
  BY DEF Binance!LandBare
<1>3. /\ v \in 0 .. Len(changes) /\ fetch[i].sound \in BOOLEAN
      /\ fetch[i].sound => last <= v
      /\ Feed!Reads(i) \in {"down", "snapshot", "open"}
      /\ Feed!Truth(v) \in [Levels -> 0 .. MaxVersion]
  BY <1>0, <1>1, LandingFits
<1>4. Asked(fetch', ready')
  BY <1>0, <1>1, DoneAsked
<1> HIDE DEF v
<1>5. LineOk'
  BY <1>0, <1>1, <1>2, <1>3 DEF LineOk
<1>6. \A l, n : Feed!Latest(l, n)' = Feed!Latest(l, n)
  BY <1>1 DEF Feed!Latest
<1>b. /\ book' \in [Levels -> 0 .. MaxVersion] /\ stray' \in SUBSET Levels
      /\ \A l \in Levels \ stray' : book'[l] = Feed!Truth(v)[l]
  BY <1>3, <1>a, ShowsIs DEF Feed!DepthAssumptions
<1>7. Feed!BookFits'
  BY <1>1, <1>6, <1>b DEF Feed!BookFits, Feed!Truth
<1>8. ViewOk'
  BY <1>1, <1>3, <1>7, <1>b, ViewIs
<1>9. Feed!FeedInv'
  BY <1>0, <1>1, <1>4, <1>5, <1>8, BufferClears, FetchAsked, PartsAfter
<1>10. QED
  BY <1>0, <1>1, <1>3, <1>9, BinanceIsFeed DEF Binance!BinanceInv

\* What is taken of the messages behind a snapshot has no gap.
LEMMA ChainFits ==
  ASSUME Feed!DepthAssumptions, Feed!FeedInv, NEW v \in Nat, Feed!Newer(v) # {}
  PROVE  /\ Binance!Chain(Feed!Newer(v)) \in SUBSET Feed!Newer(v)
         /\ Follow(Binance!Chain(Feed!Newer(v)))
         /\ Feed!Min(Binance!Chain(Feed!Newer(v))) = Feed!Min(Feed!Newer(v))
         /\ Binance!Chain(Feed!Newer(v)) # {}
<1> DEFINE ns == Feed!Newer(v)
           cs == Binance!Chain(ns)
<1>1. /\ ns \in SUBSET DOMAIN buffer /\ DOMAIN buffer = 1 .. Len(buffer)
      /\ Len(buffer) \in Nat /\ Feed!Min(ns) \in ns
      /\ \A k \in DOMAIN buffer : k \in ns <=> Feed!Min(ns) <= k
  BY NewerIs
<1> HIDE DEF ns, cs
<1>2. \A k \in ns : k \in Nat /\ k <= Len(buffer) /\ Feed!Min(ns) <= k /\ k \in DOMAIN buffer
  BY <1>1
<1>3. cs \in SUBSET ns /\ Feed!Min(ns) \in cs
  <2>1. cs = {n \in ns : \A k \in ns : Feed!Min(ns) < k /\ k <= n => Binance!Follows(ns, k)}
    BY BinanceIsFeed DEF cs, Binance!Chain
  <2>2. \A k \in ns : ~(Feed!Min(ns) < k /\ k <= Feed!Min(ns))
    BY <1>1, <1>2
  <2>3. QED
    BY <1>1, <2>1, <2>2
<1>4. Feed!Min(cs) = Feed!Min(ns)
  <2>1. cs \in SUBSET Nat /\ cs # {}
    BY <1>2, <1>3
  <2>2. Feed!Min(cs) \in cs /\ \A y \in cs : Feed!Min(cs) <= y
    BY <2>1, MinIs
  <2>3. Feed!Min(ns) <= Feed!Min(cs) /\ Feed!Min(cs) <= Feed!Min(ns) /\ Feed!Min(cs) \in Nat /\ Feed!Min(ns) \in Nat
    BY <1>2, <1>3, <2>2
  <2>4. QED
    BY <2>3
<1>5. ASSUME NEW k \in ns, Feed!Min(ns) < k
      PROVE  k - 1 \in ns /\ Feed!Max({j \in ns : j < k}) = k - 1
  <2>1. k - 1 \in DOMAIN buffer /\ Feed!Min(ns) <= k - 1
    BY <1>1, <1>2, <1>5
  <2>2. k - 1 \in ns
    BY <1>1, <2>1
  <2> DEFINE before == {j \in ns : j < k}
  <2>3. before \in SUBSET (0 .. Len(buffer)) /\ k - 1 \in before
    BY <1>1, <1>2, <2>2
  <2>4. Feed!Max(before) \in before /\ \A j \in before : j <= Feed!Max(before)
    BY <1>1, <2>3, MaxIs
  <2>5. Feed!Max(before) < k /\ k - 1 <= Feed!Max(before) /\ Feed!Max(before) \in Nat /\ k \in Nat
    BY <1>2, <2>3, <2>4
  <2> HIDE DEF before
  <2>6. Feed!Max(before) = k - 1
    BY <2>5
  <2>7. QED
    BY <2>2, <2>6 DEF before
<1>6. Follow(cs)
  <2> SUFFICES ASSUME NEW k \in cs, Feed!Min(ns) < k
               PROVE  k - 1 \in cs /\ buffer[k].from = buffer[k - 1].to
    BY <1>4 DEF Follow
  <2>1. /\ k \in ns /\ k \in Nat
        /\ \A j \in ns : Feed!Min(ns) < j /\ j <= k => Binance!Follows(ns, j)
    BY <1>2, <1>3, BinanceIsFeed DEF cs, Binance!Chain
  <2>2. k - 1 \in ns /\ Feed!Max({j \in ns : j < k}) = k - 1
    BY <1>5, <2>1
  <2>3. Binance!Follows(ns, k)
    BY <2>1
  <2>4. buffer[k].from = buffer[k - 1].to
    BY <2>2, <2>3, BinanceIsFeed DEF Binance!Follows
  <2>5. \A j \in ns : Feed!Min(ns) < j /\ j <= k - 1 => Binance!Follows(ns, j)
    BY <1>2, <2>1
  <2>6. k - 1 \in cs
    BY <2>2, <2>5, BinanceIsFeed DEF cs, Binance!Chain
  <2>7. QED
    BY <2>4, <2>6
<1>7. QED
  BY <1>3, <1>4, <1>6 DEF cs, ns

\* A snapshot with messages after it.
LEMMA BinanceLandReplay ==
  ASSUME Feed!DepthAssumptions, Binance!BinanceInv, NEW i \in DOMAIN fetch,
         Binance!LandReplay(i), losses' = losses
  PROVE  Binance!BinanceInv'
<1>0. /\ Feed!FeedInv /\ losses \in Nat /\ LineOk /\ BufferOk /\ FetchOk /\ ViewOk
  BY PartsBefore, BinanceIsFeed DEF Binance!BinanceInv
<1> DEFINE v == fetch[i].at
           rest == Feed!Newer(v)
           taken == Binance!Chain(rest)
           end == buffer[Feed!Max(taken)].to
<1>1. /\ fetch[i] # Feed!NoFetch /\ fetch[i].at # Feed!Unanswered
      /\ UNCHANGED <<changes, read, drops, listed>>
      /\ link' = Feed!Reads(i) /\ buffer' = <<>>
      /\ snap' = v /\ sound' = fetch[i].sound
      /\ rest # {} /\ buffer[Feed!Min(rest)].from <= v
      /\ applied' = end /\ ready' = TRUE
  BY BinanceIsFeed DEF Binance!LandReplay, Binance!Landing, Binance!exchange
<1>a. PICK cut \in SUBSET Outer :
        Feed!Shows(Feed!MergeAll(Feed!Truth(v), taken), Feed!MissedAll(v, taken), cut)
  BY BinanceIsFeed DEF Binance!LandReplay
<1>2. \/ last' = applied' /\ fetch' = Feed!Done(i) /\ resnaps' = resnaps
      \/ last' = 0 /\ resnaps' \in {resnaps, resnaps + 1} /\ fetch' = Feed!Ask(Feed!Done(i), "resync")
  BY BinanceIsFeed DEF Binance!LandReplay, Binance!Spent
<1>3. /\ v \in 0 .. Len(changes) /\ fetch[i].sound \in BOOLEAN
      /\ Feed!Reads(i) \in {"down", "snapshot", "open"}
      /\ Feed!Truth(v) \in [Levels -> 0 .. MaxVersion] /\ v \in Nat
  BY <1>0, <1>1, LandingFits DEF LineOk
<1>4. /\ rest \in SUBSET DOMAIN buffer
      /\ \A k \in DOMAIN buffer : buffer[k].to \in 0 .. read /\ buffer[k].from \in Nat
      /\ \A k \in rest : buffer[k].to > v
  BY <1>0, <1>1, <1>3, NewerIs
<1>5. taken \in SUBSET rest /\ Follow(taken) /\ Feed!Min(taken) = Feed!Min(rest) /\ taken # {}
  BY <1>0, <1>1, <1>3, ChainFits
<1> HIDE DEF v, rest, taken
<1>6. /\ \A l \in Levels \ Feed!MissedAll(v, taken) :
           Feed!MergeAll(Feed!Truth(v), taken)[l] = Feed!Latest(l, end)
      /\ Feed!Max(taken) \in taken
  <2>1. Feed!TypeOK /\ Feed!Known /\ Feed!BufferFits /\ taken \in SUBSET DOMAIN buffer
    BY <1>0, <1>4, <1>5 DEF Feed!FeedInv
  <2>2. buffer[Feed!Min(taken)].from <= v /\ \A k \in taken : buffer[k].to > v
    BY <1>1, <1>4, <1>5
  <2>3. QED
    BY <1>3, <1>5, <2>1, <2>2, MergeAllIsTruth
<1>7. end \in 0 .. read
  BY <1>4, <1>5, <1>6
<1>8. Asked(fetch', ready')
  <2>1. Asked(Feed!Done(i), ready')
    BY <1>0, <1>1, DoneAsked
  <2>2. CASE fetch' = Feed!Done(i)
    BY <2>1, <2>2
  <2>3. CASE fetch' = Feed!Ask(Feed!Done(i), "resync")
    <3>1. Feed!Done(i) \in [1 .. MaxFetches -> Feed!FetchType] /\ DOMAIN fetch = 1 .. MaxFetches
      BY <1>0, DoneFits DEF FetchOk
    <3>2. Feed!Done(i)[i] = Feed!NoFetch /\ i \in DOMAIN Feed!Done(i)
      BY <1>0, <3>1, DoneFits DEF FetchOk
    <3>3. Feed!CanAsk(Feed!Done(i)) /\ ready' \in BOOLEAN
      BY <1>1, <3>2 DEF Feed!CanAsk
    <3>4. \A n \in 1 .. MaxFetches : Feed!Done(i)[n].at = Feed!Unanswered \/ Feed!Done(i)[n].at = fetch[n].at
      BY <2>1 DEF Asked
    <3>5. Asked(Feed!Ask(Feed!Done(i), "resync"), ready')
      BY <3>1, <3>3, <3>4, AskFits
    <3>6. QED
      BY <2>3, <3>5
  <2>4. QED
    BY <1>2, <2>2, <2>3
<1> HIDE DEF end
<1>9. read \in Nat /\ Len(changes) \in Nat /\ read <= Len(changes) /\ resnaps \in Nat
  BY <1>0 DEF LineOk
<1>10. last' \in 0 .. read /\ resnaps' \in Nat /\ last' <= applied'
  BY <1>1, <1>2, <1>7, <1>9
<1>11. LineOk'
  BY <1>0, <1>1, <1>3, <1>10 DEF LineOk
<1>12. \A l, n : Feed!Latest(l, n)' = Feed!Latest(l, n)
  BY <1>1 DEF Feed!Latest
<1>13. /\ book' \in [Levels -> 0 .. MaxVersion] /\ stray' \in SUBSET Levels
       /\ \A l \in Levels \ stray' : book'[l] = Feed!Latest(l, end)
  <2>1. taken \in SUBSET DOMAIN buffer
    BY <1>4, <1>5
  <2>2. Feed!MergeAll(Feed!Truth(v), taken) \in [Levels -> 0 .. MaxVersion]
    BY <1>0, <1>3, <2>1, MergesTyped
  <2>3. Feed!MissedAll(v, taken) \in SUBSET Levels /\ cut \in SUBSET Levels /\ MaxVersion \in Nat
    BY DEF Feed!MissedAll, Feed!DepthAssumptions
  <2>4. QED
    BY <1>6, <1>a, <2>2, <2>3, ShowsIs
<1>14. ViewOk'
  <2>1. {applied', snap'} \subseteq 0 .. Len(changes) /\ sound' \in BOOLEAN /\ ~(applied' > read')
    BY <1>1, <1>3, <1>7, <1>9
  <2>2. Feed!BookFits'
    BY <1>1, <1>12, <1>13, <2>1 DEF Feed!BookFits
  <2>3. QED
    BY <1>1, <1>13, <2>1, <2>2, ViewIs
<1>15. Feed!FeedInv'
  BY <1>0, <1>1, <1>8, <1>11, <1>14, BufferClears, FetchAsked, PartsAfter
<1>16. QED
  BY <1>0, <1>10, <1>15, BinanceIsFeed DEF Binance!BinanceInv

\* A message that follows on the one before, or the first after a snapshot that
\* reaches back to it.
LEMMA BinanceReadNext ==
  ASSUME Feed!DepthAssumptions, Binance!BinanceInv, NEW v \in read + 1 .. Len(changes),
         Binance!ReadNext(v), losses' = losses
  PROVE  Binance!BinanceInv'
<1>0. /\ Feed!FeedInv /\ losses \in Nat /\ (ready /\ sound => last <= applied)
      /\ LineOk /\ BufferOk /\ FetchOk /\ ViewOk
  BY PartsBefore, BinanceIsFeed DEF Binance!BinanceInv
<1>1. /\ ready /\ read' = v /\ ~Binance!Broken(v)
      /\ applied' = v /\ last' = v
      /\ sound' = (sound /\ (last # 0 \/ read <= applied))
      /\ UNCHANGED <<changes, link, drops, ready, buffer, fetch, resnaps, listed, snap>>
  BY BinanceIsFeed
     DEF Binance!ReadNext, Binance!exchange, Feed!Arrives
<1>a. PICK out \in SUBSET Outer, cut \in SUBSET Outer :
        Feed!Shows(Feed!Merge(book, Feed!Message(v, out)), Feed!Missed(stray, Feed!Message(v, out)), cut)
  BY BinanceIsFeed DEF Binance!ReadNext
<1> DEFINE m == Feed!Message(v, out)
<1>2. /\ read \in Nat /\ v \in Nat /\ v \in 0 .. Len(changes) /\ read < v
      /\ last \in Nat /\ applied \in Nat
  BY <1>0 DEF LineOk, ViewOk
<1>b. m \in Messages /\ m.from = read /\ m.to = v
  BY <1>0, <1>2, MessageIs DEF LineOk
<1> HIDE DEF m
<1>3. /\ book' \in [Levels -> 0 .. MaxVersion] /\ stray' \in SUBSET Levels
      /\ \A l \in Levels \ stray' : /\ l \notin Feed!Missed(stray, m)
                                   /\ book'[l] = Feed!Merge(book, m)[l]
  <2>1. Feed!Merge(book, m) \in [Levels -> 0 .. MaxVersion]
    BY <1>0, <1>2, <1>b, MergesTyped DEF ViewOk
  <2>2. Feed!Missed(stray, m) \in SUBSET Levels
    BY <1>0 DEF ViewOk, Feed!Missed, Feed!Changed
  <2>3. cut \in SUBSET Levels /\ MaxVersion \in Nat
    BY DEF Feed!DepthAssumptions
  <2>4. QED
    BY <1>a, <2>1, <2>2, <2>3, ShowsIs DEF m
<1>4. sound \in BOOLEAN /\ sound' \in BOOLEAN /\ (sound' => sound /\ (last # 0 \/ read <= applied))
  BY <1>0, <1>1 DEF ViewOk
<1>5. {applied', snap'} \subseteq 0 .. Len(changes)
  BY <1>0, <1>1, <1>2 DEF ViewOk
<1>6. ASSUME sound' PROVE read <= applied
  <2>1. CASE last # 0
    <3>1. read = last
      BY <1>1, <2>1, BinanceIsFeed DEF Binance!Broken, Feed!Message
    <3>2. last <= applied
      BY <1>0, <1>1, <1>4, <1>6
    <3>3. QED
      BY <3>1, <3>2
  <2>2. QED
    BY <1>4, <1>6, <2>1
<1>7. ASSUME sound', NEW l \in Levels \ stray', Feed!Latest(l, snap) <= v
      PROVE  book'[l] = Feed!Latest(l, v)
  <2>1. Feed!BookFits /\ Feed!TypeOK /\ Feed!Known
    BY <1>0, <1>1, <1>4, <1>7 DEF Feed!FeedInv
  <2>2. read <= applied
    BY <1>6, <1>7
  <2>3. l \in Levels \ Feed!Missed(stray, m) /\ v <= Len(changes) /\ read <= read
    BY <1>0, <1>2, <1>3, <1>7 DEF LineOk
  <2>4. Feed!Merge(book, m)[l] = Feed!Latest(l, v)
    BY <1>2, <1>7, <1>b, <2>1, <2>2, <2>3, MergeFits
  <2>5. QED
    BY <1>3, <1>7, <2>4
<1>8. \A l, n : Feed!Latest(l, n)' = Feed!Latest(l, n)
  BY <1>1 DEF Feed!Latest
<1>9. ~(applied' > read') /\ last' <= applied'
  BY <1>1, <1>2
<1>10. ready' /\ sound' => Feed!BookFits'
  BY <1>1, <1>7, <1>8, <1>9 DEF Feed!BookFits
<1>11. ViewOk'
  BY <1>1, <1>3, <1>4, <1>5, <1>10, ViewIs
<1>12. LineOk'
  <2>1. v \in 0 .. v
    BY <1>2
  <2>2. QED
    BY <1>0, <1>1, <1>2, <2>1 DEF LineOk
<1>13. buffer' = <<>>
  BY <1>0, <1>1 DEF BufferOk, Feed!BufferFits
<1>14. \A n \in DOMAIN fetch : ~fetch[n].sound
  BY <1>0, <1>1 DEF FetchOk, Feed!SoundAlone
<1>15. FetchOk'
  BY <1>0, <1>1, <1>14 DEF FetchOk, Feed!SoundAlone
<1>16. Feed!FeedInv'
  BY <1>11, <1>12, <1>13, <1>15, BufferClears, PartsAfter
<1>17. QED
  BY <1>0, <1>9, <1>16, BinanceIsFeed DEF Binance!BinanceInv

\* A break, or a book that looks crossed, gives the symbol up or passes by.
LEMMA BinanceGivesUp ==
  ASSUME Feed!DepthAssumptions, Binance!BinanceInv, NEW v \in read + 1 .. Len(changes),
         Binance!ReadBroken(v) \/ Binance!ReadCrossed(v), losses' = losses
  PROVE  Binance!BinanceInv'
<1>0. /\ Feed!FeedInv /\ losses \in Nat /\ LineOk /\ BufferOk /\ FetchOk /\ ViewOk
  BY PartsBefore, BinanceIsFeed DEF Binance!BinanceInv
<1>1. /\ read' = v /\ UNCHANGED <<changes, link, drops, listed>>
      /\ \/ Feed!Resync /\ resnaps' \in {resnaps, resnaps + 1} /\ UNCHANGED Feed!view
         \/ UNCHANGED <<Feed!gates, Feed!view, fetch, resnaps>>
  BY BinanceIsFeed
     DEF Binance!ReadBroken, Binance!ReadCrossed, Binance!AsksAgain, Binance!Spent,
         Binance!exchange, Binance!gates, Binance!view, Feed!gates, Feed!view,
         Feed!Arrives
<1>2. /\ read \in Nat /\ v \in Nat /\ v \in read .. Len(changes)
      /\ resnaps \in Nat /\ resnaps + 1 \in Nat /\ drops \in Nat
  BY <1>0 DEF LineOk
<1>3. CASE Feed!Resync /\ resnaps' \in {resnaps, resnaps + 1} /\ UNCHANGED Feed!view
  <2>1. /\ {applied', snap'} \subseteq 0 .. Len(changes)
        /\ book' \in [Levels -> 0 .. MaxVersion] /\ sound' \in BOOLEAN
        /\ stray' \in SUBSET Levels
    BY <1>0, <1>3 DEF ViewOk, Feed!view
  <2>2. Feed!FeedInv' /\ ~ready'
    BY <1>0, <1>1, <1>2, <1>3, <2>1, StepResync
  <2>3. QED
    BY <1>0, <2>2, BinanceIsFeed DEF Binance!BinanceInv
<1>4. CASE UNCHANGED <<Feed!gates, Feed!view, fetch, resnaps>>
  <2>1. listed' \in BOOLEAN /\ link' \in {"down", "snapshot", "open"}
    BY <1>0, <1>1 DEF LineOk
  <2>2. {drops', resnaps'} \subseteq Nat /\ read' \in read .. Len(changes)
    BY <1>1, <1>2, <1>4
  <2>3. QED
    BY <1>0, <1>1, <1>4, <2>1, <2>2, BinanceAside DEF Feed!exchange
<1>5. QED
  BY <1>1, <1>3, <1>4

\* Every step keeps the invariant.
LEMMA BinanceStep ==
  ASSUME Feed!DepthAssumptions, Binance!BinanceInv, [Binance!Next]_(Binance!allVars)
  PROVE  Binance!BinanceInv'
<1>0. /\ Feed!FeedInv /\ losses \in Nat /\ LineOk
  BY PartsBefore, BinanceIsFeed DEF Binance!BinanceInv
<1>a. /\ read \in Nat /\ read \in read .. Len(changes) /\ drops \in Nat /\ drops + 1 \in Nat
       /\ resnaps \in Nat /\ losses + 1 \in Nat
  BY <1>0 DEF LineOk
<1>b. listed \in BOOLEAN /\ link \in {"down", "snapshot", "open"}
  BY <1>0 DEF LineOk
<1>1. CASE UNCHANGED Binance!allVars
  <2>1. UNCHANGED <<Feed!exchange, Feed!line, Feed!gates, Feed!view, fetch, listed, resnaps, losses>>
    BY <1>1
       DEF Binance!allVars, Binance!vars, Feed!exchange, Feed!line, Feed!gates,
           Feed!view
  <2>2. QED
    BY <1>0, <1>a, <1>b, <2>1, BinanceAside DEF Feed!line
<1>2. CASE Feed!Common /\ losses' = losses
  BY <1>2, BinanceCommon
<1>3. CASE Binance!Drop /\ losses' = losses
  <2>1. /\ UNCHANGED <<Feed!exchange, Feed!gates, Feed!view, losses, fetch, resnaps, listed, read>>
        /\ link' = "down" /\ drops' = drops + 1
    BY <1>3
       DEF Binance!Drop, Binance!exchange, Binance!gates, Binance!view,
           Feed!exchange, Feed!gates, Feed!view
  <2>2. QED
    BY <1>0, <1>a, <1>b, <2>1, BinanceAside
<1>4. CASE Feed!HealLists(link # "down" \/ drops > 0) /\ losses' = losses
  <2>1. UNCHANGED <<Feed!exchange, Feed!line, Feed!gates, Feed!view, losses, fetch, resnaps>> /\ listed' = TRUE
    BY <1>4 DEF Feed!HealLists
  <2>2. QED
    BY <1>0, <1>a, <1>b, <2>1, BinanceAside DEF Feed!line
<1>5. ASSUME NEW i \in DOMAIN fetch, Binance!LandBare(i) \/ Binance!LandReplay(i),
             losses' = losses
      PROVE  Binance!BinanceInv'
  BY <1>5, BinanceLandBare, BinanceLandReplay
<1>6. ASSUME NEW v \in read + 1 .. Len(changes), Feed!ReadEarly(v), losses' = losses
      PROVE  Binance!BinanceInv'
  BY <1>0, <1>6, StepReadEarly, BinanceIsFeed DEF Binance!BinanceInv
<1>7. ASSUME NEW v \in read + 1 .. Len(changes), losses' = losses,
             Binance!ReadBroken(v) \/ Binance!ReadCrossed(v)
      PROVE  Binance!BinanceInv'
  BY <1>7, BinanceGivesUp
<1>8. ASSUME NEW v \in read + 1 .. Len(changes), Binance!ReadNext(v), losses' = losses
      PROVE  Binance!BinanceInv'
  BY <1>8, BinanceReadNext
<1>9. ASSUME NEW v \in read + 1 .. Len(changes), Binance!Lose(v)
      PROVE  Binance!BinanceInv'
  <2>1. /\ UNCHANGED <<Feed!exchange, link, drops, Feed!gates, Feed!view, fetch, resnaps, listed>>
        /\ read' = v /\ losses' = losses + 1
    BY <1>9, BinanceIsFeed
       DEF Binance!Lose, Binance!exchange, Binance!gates, Binance!view,
           Feed!exchange, Feed!gates, Feed!view, Feed!Arrives
  <2>2. read' \in read .. Len(changes)
    BY <1>a, <2>1
  <2>3. QED
    BY <1>a, <1>b, <2>1, <2>2, BinanceAside
<1>10. QED
  BY <1>1, <1>2, <1>3, <1>4, <1>5, <1>6, <1>7, <1>8, <1>9, BinanceIsFeed
     DEF Binance!Next

\* At the start nothing is ready.
LEMMA BinanceInit ==
  ASSUME Feed!DepthAssumptions, Binance!InitB
  PROVE  Binance!BinanceInv
<1>1. Feed!Init /\ losses = 0
  BY BinanceIsFeed DEF Binance!InitB
<1>2. Feed!FeedInv
  BY <1>1, FeedInit
<1>3. QED
  BY <1>1, <1>2, BinanceIsFeed DEF Binance!BinanceInv, Feed!Init
\* A book that is ready in the invariant is true.
LEMMA BinanceGives == Binance!BinanceInv => Binance!TypeOK /\ Binance!ReadyBookIsTrue
BY FeedIsTrue, BinanceIsFeed DEF Binance!BinanceInv, Feed!FeedInv


\* A ready book of Binance is the book of the exchange at the version it claims,
\* for any levels, snapshots, drops and losses (_fetch_snapshot, _handle_depth_msg).
THEOREM BinanceBookIsTrue ==
  ASSUME Feed!DepthAssumptions
  PROVE  Binance!Spec => []Binance!TypeOK /\ []Binance!ReadyBookIsTrue
<1>1. Binance!InitB => Binance!BinanceInv
  BY BinanceInit
<1>2. Binance!BinanceInv /\ [Binance!Next]_(Binance!allVars) => Binance!BinanceInv'
  BY BinanceStep
<1>3. QED
  BY <1>1, <1>2, BinanceGives, PTL DEF Binance!Spec


-----------------------------------------------------------------------------
(* The ticker and the book.                                                *)

\* One Min and one Max.
LEMMA BestIsBest == \A s : Quotes!Min(s) = Feed!Min(s) /\ Quotes!Max(s) = Feed!Max(s)
BY DEF Quotes!Min, Quotes!Max, Feed!Min, Feed!Max

\* The market has a best bid and a best ask.
LEMMA BestOf ==
  ASSUME Quotes!TopAssumptions, NEW m \in Quotes!Books
  PROVE  /\ m.bids \in SUBSET Quotes!Prices /\ m.asks \in SUBSET Quotes!Prices
         /\ Quotes!Max(m.bids) \in m.bids /\ \A p \in m.bids : p <= Quotes!Max(m.bids)
         /\ Quotes!Min(m.asks) \in m.asks /\ \A p \in m.asks : Quotes!Min(m.asks) <= p
<1>1. /\ m.bids \in SUBSET Quotes!Prices /\ m.asks \in SUBSET Quotes!Prices
      /\ m.bids # {} /\ m.asks # {} /\ Top \in Nat
  BY DEF Quotes!Books, Quotes!TopAssumptions
<1>2. m.bids \in SUBSET (0 .. Top) /\ m.asks \in SUBSET Nat
  BY <1>1 DEF Quotes!Prices
<1>3. QED
  BY <1>1, <1>2, MinIs, MaxIs, BestIsBest

\* The ticker is the best of the market at its number.
TickIs ==
  tickAt > 0 =>
    tick = [bid |-> Quotes!Max(market[tickAt].bids), ask |-> Quotes!Min(market[tickAt].asks)]

\* At the start nothing is synced.
LEMMA TopInit == ASSUME Quotes!TopAssumptions, Quotes!Init PROVE Quotes!TopInv
<1>1. market \in Seq(Quotes!Books) /\ Len(market) = 1
  BY DEF Quotes!Init
<1>2. bids = {} /\ asks = {} /\ depthAt = 0 /\ tickAt = 0 /\ synced = FALSE
  BY DEF Quotes!Init
<1>3. Quotes!TypeOK
  <2>1. bids \in SUBSET Quotes!Prices /\ asks \in SUBSET Quotes!Prices /\ synced \in BOOLEAN
    BY <1>2
  <2>2. {depthAt, tickAt} \subseteq 0 .. Quotes!Now
    BY <1>1, <1>2 DEF Quotes!Now
  <2>3. astray \in [bids : SUBSET Quotes!Prices, asks : SUBSET Quotes!Prices]
    BY DEF Quotes!Init
  <2>4. QED
    BY <1>1, <2>1, <2>2, <2>3 DEF Quotes!TypeOK
<1>4. QED
  BY <1>2, <1>3 DEF Quotes!TopInv

\* One side of the book after a depth message.
LEMMA DiffSettles ==
  ASSUME NEW levels \in SUBSET Quotes!Prices, NEW side \in {"bids", "asks"},
         NEW v, Quotes!Settled(levels, side),
         {depthAt, tickAt, v} \subseteq Nat, depthAt < v,
         NEW named, NEW b, b = Quotes!Set(levels, named, market[v][side]),
         NEW p \in Quotes!Prices \ Quotes!Untold(side, v, named),
         Quotes!Still(side, p, v, tickAt)
  PROVE  (p \in b) = (p \in market[v][side])
<1>1. CASE p \in named
  BY <1>1 DEF Quotes!Set
<1>2. CASE p \notin named
  <2>0. p \notin Quotes!Touched(side, v) /\ p \in Quotes!Prices \ astray[side]
    BY <1>2 DEF Quotes!Untold
  <2>1. \A k \in depthAt .. v, n \in depthAt .. v :
          (p \in market[k][side]) = (p \in market[n][side])
    BY <2>0 DEF Quotes!Touched
  <2>2. (p \in market[depthAt][side]) = (p \in market[v][side])
    <3>1. depthAt \in depthAt .. v /\ v \in depthAt .. v
      OBVIOUS
    <3>2. QED
      BY <2>1, <3>1
  <2>3. \A k \in depthAt .. tickAt :
          (p \in market[k][side]) = (p \in market[v][side])
    <3> SUFFICES ASSUME NEW k \in depthAt .. tickAt
                 PROVE  (p \in market[k][side]) = (p \in market[v][side])
      OBVIOUS
    <3>1. CASE k <= v
      <4>1. k \in depthAt .. v /\ v \in depthAt .. v
        BY <3>1
      <4>2. QED
        BY <2>1, <4>1
    <3>2. CASE v < k
      <4>1. k \in v .. tickAt /\ v \in v .. tickAt
        BY <3>2
      <4>2. QED
        BY <4>1 DEF Quotes!Still
    <3>3. QED
      BY <3>1, <3>2
  <2>4. Quotes!Still(side, p, depthAt, tickAt)
    BY <2>3 DEF Quotes!Still
  <2>5. (p \in levels) = (p \in market[depthAt][side])
    BY <2>0, <2>4 DEF Quotes!Settled
  <2>6. (p \in b) = (p \in levels)
    BY <1>2 DEF Quotes!Set
  <2>7. QED
    BY <2>2, <2>5, <2>6
<1>3. QED
  BY <1>1, <1>2

\* A depth message keeps the invariant,
LEMMA StepDiff ==
  ASSUME Quotes!TopAssumptions, Quotes!TopInv, NEW v \in 1 .. Quotes!Now, Quotes!Diff(v)
  PROVE  Quotes!TopInv'
<1>0. /\ synced /\ v \in depthAt + 1 .. Quotes!Now /\ depthAt' = v
      /\ UNCHANGED <<market, tickAt, tick, synced>>
  BY DEF Quotes!Diff
<1>a. PICK nb \in SUBSET Quotes!Touched("bids", v), na \in SUBSET Quotes!Touched("asks", v) :
        LET b == Quotes!Set(bids, nb, market[v].bids)
            a == Quotes!Set(asks, na, market[v].asks)
        IN  \E low \in b \cup {1}, high \in a \cup {Top} :
              /\ bids' = {p \in Quotes!BidsDownTo(b, low) : Quotes!Prunes(v) => p <= tick.bid}
              /\ asks' = {p \in Quotes!AsksUpTo(a, high) : Quotes!Prunes(v) => p >= tick.ask}
              /\ astray' = [bids |-> Quotes!Untold("bids", v, nb) \cup (b \ Quotes!BidsDownTo(b, low)),
                            asks |-> Quotes!Untold("asks", v, na) \cup (a \ Quotes!AsksUpTo(a, high))]
  BY DEF Quotes!Diff
<1> DEFINE b == Quotes!Set(bids, nb, market[v].bids)
           a == Quotes!Set(asks, na, market[v].asks)
<1>b. PICK low, high :
        /\ bids' = {p \in Quotes!BidsDownTo(b, low) : Quotes!Prunes(v) => p <= tick.bid}
        /\ asks' = {p \in Quotes!AsksUpTo(a, high) : Quotes!Prunes(v) => p >= tick.ask}
        /\ astray' = [bids |-> Quotes!Untold("bids", v, nb) \cup (b \ Quotes!BidsDownTo(b, low)),
                      asks |-> Quotes!Untold("asks", v, na) \cup (a \ Quotes!AsksUpTo(a, high))]
  BY <1>a
<1>1. /\ synced /\ v \in depthAt + 1 .. Quotes!Now /\ depthAt' = v
      /\ UNCHANGED <<market, tickAt, tick, synced>>
      /\ bids' \subseteq b /\ asks' \subseteq a
      /\ \A p \in Quotes!Prices \ astray'.bids :
           /\ p \notin Quotes!Untold("bids", v, nb)
           /\ (p \in bids') = (p \in b /\ (Quotes!Prunes(v) => p <= tick.bid))
      /\ \A p \in Quotes!Prices \ astray'.asks :
           /\ p \notin Quotes!Untold("asks", v, na)
           /\ (p \in asks') = (p \in a /\ (Quotes!Prunes(v) => p >= tick.ask))
  BY <1>0, <1>b DEF Quotes!BidsDownTo, Quotes!AsksUpTo
<1>2. /\ market \in Seq(Quotes!Books) /\ Quotes!Now \in Nat
      /\ DOMAIN market = 1 .. Quotes!Now
      /\ bids \in SUBSET Quotes!Prices /\ asks \in SUBSET Quotes!Prices
      /\ depthAt \in 0 .. Quotes!Now /\ tickAt \in 0 .. Quotes!Now /\ synced \in BOOLEAN
  BY DEF Quotes!TopInv, Quotes!TypeOK, Quotes!Now
<1>3. /\ depthAt > 0 /\ Quotes!Settled(bids, "bids") /\ Quotes!Settled(asks, "asks")
      /\ TickIs
  BY <1>1 DEF Quotes!TopInv, TickIs
<1>4. /\ v \in Nat /\ depthAt \in Nat /\ tickAt \in Nat /\ depthAt < v
  BY <1>1, <1>2
<1>5. market[v] \in Quotes!Books
  BY <1>2, MemberOfSeq
<1>6. b \in SUBSET Quotes!Prices /\ a \in SUBSET Quotes!Prices
  BY <1>2, <1>5, BestOf DEF Quotes!Set
<1>c. astray' \in [bids : SUBSET Quotes!Prices, asks : SUBSET Quotes!Prices]
  <2>1. /\ Quotes!Untold("bids", v, nb) \in SUBSET Quotes!Prices
        /\ Quotes!Untold("asks", v, na) \in SUBSET Quotes!Prices
    BY DEF Quotes!TopInv, Quotes!TypeOK, Quotes!Untold, Quotes!Touched
  <2>2. QED
    BY <1>6, <1>b, <2>1
<1>7. ASSUME NEW p \in Quotes!Prices \ astray'.bids, Quotes!Still("bids", p, v, tickAt)
      PROVE  (p \in b) = (p \in market[v].bids)
  BY <1>1, <1>2, <1>3, <1>4, <1>7, DiffSettles
<1>8. ASSUME NEW p \in Quotes!Prices \ astray'.asks, Quotes!Still("asks", p, v, tickAt)
      PROVE  (p \in a) = (p \in market[v].asks)
  BY <1>1, <1>2, <1>3, <1>4, <1>8, DiffSettles
<1> HIDE DEF a, b
<1>9. ASSUME tickAt > v
      PROVE  /\ \A p \in market[tickAt].bids : p <= tick.bid
             /\ \A p \in market[tickAt].asks : p >= tick.ask
             /\ v \in v .. tickAt /\ tickAt \in v .. tickAt
  <2>1. market[tickAt] \in Quotes!Books /\ tick.bid = Quotes!Max(market[tickAt].bids)
        /\ tick.ask = Quotes!Min(market[tickAt].asks)
    BY <1>2, <1>3, <1>4, <1>9, MemberOfSeq DEF TickIs
  <2>2. QED
    BY <1>4, <1>9, <2>1, BestOf DEF Quotes!Prices
<1>10. ASSUME NEW p \in Quotes!Prices \ astray'.bids, Quotes!Still("bids", p, v, tickAt)
       PROVE  (p \in bids') = (p \in market[v].bids)
  <2>1. CASE Quotes!Prunes(v) /\ p \in market[v].bids
    <3>1. p \in market[tickAt].bids
      BY <1>9, <1>10, <2>1 DEF Quotes!Prunes, Quotes!Still
    <3>2. QED
      BY <1>1, <1>7, <1>9, <1>10, <2>1, <3>1 DEF Quotes!Prunes
  <2>2. CASE ~Quotes!Prunes(v) \/ p \notin market[v].bids
    BY <1>1, <1>7, <1>10, <2>2
  <2>3. QED
    BY <2>1, <2>2
<1>11. ASSUME NEW p \in Quotes!Prices \ astray'.asks, Quotes!Still("asks", p, v, tickAt)
       PROVE  (p \in asks') = (p \in market[v].asks)
  <2>1. CASE Quotes!Prunes(v) /\ p \in market[v].asks
    <3>1. p \in market[tickAt].asks
      BY <1>9, <1>11, <2>1 DEF Quotes!Prunes, Quotes!Still
    <3>2. QED
      BY <1>1, <1>8, <1>9, <1>11, <2>1, <3>1 DEF Quotes!Prunes
  <2>2. CASE ~Quotes!Prunes(v) \/ p \notin market[v].asks
    BY <1>1, <1>8, <1>11, <2>2
  <2>3. QED
    BY <2>1, <2>2
<1>12. bids' \in SUBSET Quotes!Prices /\ asks' \in SUBSET Quotes!Prices
  BY <1>1, <1>6
<1>13. Quotes!Settled(bids, "bids")' /\ Quotes!Settled(asks, "asks")'
  BY <1>1, <1>10, <1>11 DEF Quotes!Settled, Quotes!Still
<1>14. Quotes!TypeOK'
  BY <1>1, <1>2, <1>4, <1>12, <1>c DEF Quotes!TypeOK, Quotes!Now
<1>15. QED
  BY <1>1, <1>2, <1>3, <1>4, <1>13, <1>14 DEF Quotes!TopInv, TickIs

\* ... so does a snapshot,
LEMMA StepSnapshot ==
  ASSUME Quotes!TopAssumptions, Quotes!TopInv, NEW v \in 1 .. Quotes!Now, Quotes!Snapshot(v)
  PROVE  Quotes!TopInv'
<1>1. /\ depthAt' = v /\ synced' = TRUE
      /\ UNCHANGED <<market, tickAt, tick>>
      /\ bids' \subseteq market[v].bids /\ asks' \subseteq market[v].asks
      /\ astray' = [bids |-> market[v].bids \ bids', asks |-> market[v].asks \ asks']
  BY DEF Quotes!Snapshot, Quotes!BidsDownTo, Quotes!AsksUpTo
<1>2. /\ market \in Seq(Quotes!Books) /\ Quotes!Now \in Nat
      /\ DOMAIN market = 1 .. Quotes!Now
      /\ depthAt \in 0 .. Quotes!Now /\ tickAt \in 0 .. Quotes!Now
  BY DEF Quotes!TopInv, Quotes!TypeOK, Quotes!Now
<1>3. market[v] \in Quotes!Books
  BY <1>2, MemberOfSeq
<1>4. /\ bids' \in SUBSET Quotes!Prices /\ asks' \in SUBSET Quotes!Prices
      /\ astray' \in [bids : SUBSET Quotes!Prices, asks : SUBSET Quotes!Prices]
  BY <1>1, <1>3, BestOf
<1>5. TickIs
  BY DEF Quotes!TopInv, TickIs
<1>6. Quotes!Settled(bids, "bids")' /\ Quotes!Settled(asks, "asks")'
  BY <1>1 DEF Quotes!Settled
<1>7. Quotes!TypeOK'
  BY <1>1, <1>2, <1>4 DEF Quotes!TypeOK, Quotes!Now
<1>8. QED
  BY <1>1, <1>2, <1>5, <1>6, <1>7 DEF Quotes!TopInv, TickIs

\* ... the ticker: what one behind depth changes is astray,
LEMMA StepTicker ==
  ASSUME Quotes!TopAssumptions, Quotes!TopInv, NEW v \in 1 .. Quotes!Now, Quotes!Ticker(v)
  PROVE  Quotes!TopInv'
<1> DEFINE hi == Quotes!Max(market[v].bids)
           lo == Quotes!Min(market[v].asks)
<1>1. /\ synced /\ v \in tickAt + 1 .. Quotes!Now /\ tickAt' = v
      /\ UNCHANGED <<market, depthAt, synced>> /\ tick' = [bid |-> hi, ask |-> lo]
      /\ bids' = {p \in bids : p <= hi} \cup {hi}
      /\ asks' = {p \in asks : p >= lo} \cup {lo}
  BY DEF Quotes!Ticker
<1>a. astray' = IF v >= depthAt THEN astray
                ELSE [bids |-> astray.bids \cup Quotes!SymDiff(bids, bids'),
                      asks |-> astray.asks \cup Quotes!SymDiff(asks, asks')]
  BY DEF Quotes!Ticker
<1>2. /\ market \in Seq(Quotes!Books) /\ Quotes!Now \in Nat
      /\ DOMAIN market = 1 .. Quotes!Now
      /\ bids \in SUBSET Quotes!Prices /\ asks \in SUBSET Quotes!Prices
      /\ depthAt \in 0 .. Quotes!Now /\ tickAt \in 0 .. Quotes!Now /\ synced \in BOOLEAN
  BY DEF Quotes!TopInv, Quotes!TypeOK, Quotes!Now
<1>3. depthAt > 0 /\ Quotes!Settled(bids, "bids") /\ Quotes!Settled(asks, "asks")
  BY <1>1 DEF Quotes!TopInv
<1>4. /\ v \in Nat /\ depthAt \in Nat /\ tickAt \in Nat /\ tickAt < v
      /\ depthAt .. tickAt \subseteq depthAt .. v
      /\ v >= depthAt => depthAt \in depthAt .. v /\ v \in depthAt .. v
  BY <1>1, <1>2
<1>b. /\ astray \in [bids : SUBSET Quotes!Prices, asks : SUBSET Quotes!Prices]
      /\ astray.bids \subseteq astray'.bids /\ astray.asks \subseteq astray'.asks
      /\ v < depthAt => \A p \in Quotes!Prices :
           /\ p \notin astray'.bids => (p \in bids') = (p \in bids)
           /\ p \notin astray'.asks => (p \in asks') = (p \in asks)
  <2>1. astray \in [bids : SUBSET Quotes!Prices, asks : SUBSET Quotes!Prices]
    BY DEF Quotes!TopInv, Quotes!TypeOK
  <2>2. CASE v >= depthAt
    BY <1>4, <1>a, <2>1, <2>2
  <2>3. CASE v < depthAt
    <3>1. astray' = [bids |-> astray.bids \cup Quotes!SymDiff(bids, bids'),
                     asks |-> astray.asks \cup Quotes!SymDiff(asks, asks')]
      BY <1>4, <1>a, <2>3
    <3>2. QED
      BY <2>1, <3>1 DEF Quotes!SymDiff
  <2>4. QED
    BY <1>4, <2>2, <2>3
<1>5. market[v] \in Quotes!Books
  BY <1>2, MemberOfSeq
<1>6. /\ hi \in market[v].bids /\ \A p \in market[v].bids : p <= hi
      /\ lo \in market[v].asks /\ \A p \in market[v].asks : lo <= p
      /\ market[v].bids \in SUBSET Quotes!Prices /\ market[v].asks \in SUBSET Quotes!Prices
  BY <1>5, BestOf
<1>7. bids' \in SUBSET Quotes!Prices /\ asks' \in SUBSET Quotes!Prices
  BY <1>1, <1>2, <1>6
<1>c. astray' \in [bids : SUBSET Quotes!Prices, asks : SUBSET Quotes!Prices]
  BY <1>2, <1>7, <1>a, <1>b DEF Quotes!SymDiff
<1> HIDE DEF hi, lo
<1>8. ASSUME NEW p \in Quotes!Prices \ astray'.bids, Quotes!Still("bids", p, depthAt, v)
      PROVE  (p \in bids') = (p \in market[depthAt].bids)
  <2>1. v >= depthAt => (p \in market[depthAt].bids) = (p \in market[v].bids)
    BY <1>4, <1>8 DEF Quotes!Still
  <2>2. (p \in bids) = (p \in market[depthAt].bids)
    <3>1. Quotes!Still("bids", p, depthAt, tickAt)
      BY <1>4, <1>8 DEF Quotes!Still
    <3>2. QED
      BY <1>3, <1>b, <3>1 DEF Quotes!Settled
  <2>3. CASE v >= depthAt /\ p \in market[v].bids
    BY <1>1, <1>6, <2>1, <2>2, <2>3
  <2>4. CASE v >= depthAt /\ p \notin market[v].bids
    BY <1>1, <1>6, <2>1, <2>2, <2>4
  <2>5. CASE v < depthAt
    BY <1>b, <2>2, <2>5
  <2>6. QED
    BY <1>4, <2>3, <2>4, <2>5
<1>9. ASSUME NEW p \in Quotes!Prices \ astray'.asks, Quotes!Still("asks", p, depthAt, v)
      PROVE  (p \in asks') = (p \in market[depthAt].asks)
  <2>1. v >= depthAt => (p \in market[depthAt].asks) = (p \in market[v].asks)
    BY <1>4, <1>9 DEF Quotes!Still
  <2>2. (p \in asks) = (p \in market[depthAt].asks)
    <3>1. Quotes!Still("asks", p, depthAt, tickAt)
      BY <1>4, <1>9 DEF Quotes!Still
    <3>2. QED
      BY <1>3, <1>b, <3>1 DEF Quotes!Settled
  <2>3. CASE v >= depthAt /\ p \in market[v].asks
    <3>1. p >= lo
      BY <1>6, <2>3 DEF Quotes!Prices
    <3>2. QED
      BY <1>1, <2>1, <2>2, <2>3, <3>1
  <2>4. CASE v >= depthAt /\ p \notin market[v].asks
    BY <1>1, <1>6, <2>1, <2>2, <2>4
  <2>5. CASE v < depthAt
    BY <1>b, <2>2, <2>5
  <2>6. QED
    BY <1>4, <2>3, <2>4, <2>5
<1>10. tick' = [bid |-> Quotes!Max(market'[tickAt'].bids), ask |-> Quotes!Min(market'[tickAt'].asks)]
  BY <1>1 DEF hi, lo
<1>11. Quotes!Settled(bids, "bids")' /\ Quotes!Settled(asks, "asks")'
  BY <1>1, <1>8, <1>9 DEF Quotes!Settled, Quotes!Still
<1>12. Quotes!TypeOK'
  BY <1>1, <1>2, <1>4, <1>7, <1>c DEF Quotes!TypeOK, Quotes!Now
<1>13. QED
  BY <1>1, <1>3, <1>10, <1>11, <1>12 DEF Quotes!TopInv

\* ... and a move of the market.
LEMMA StepMove ==
  ASSUME Quotes!TopInv, NEW m \in Quotes!Books, Quotes!Move(m)
  PROVE  Quotes!TopInv'
<1>1. /\ market' = Append(market, m)
      /\ UNCHANGED <<bids, asks, depthAt, tickAt, tick, synced, astray>>
  BY DEF Quotes!Move, Quotes!book
<1>2. /\ market \in Seq(Quotes!Books) /\ Quotes!Now \in Nat
      /\ bids \in SUBSET Quotes!Prices /\ asks \in SUBSET Quotes!Prices
      /\ depthAt \in 0 .. Quotes!Now /\ tickAt \in 0 .. Quotes!Now /\ synced \in BOOLEAN
  BY DEF Quotes!TopInv, Quotes!TypeOK, Quotes!Now
<1>3. market' \in Seq(Quotes!Books) /\ Quotes!Now' = Quotes!Now + 1 /\ \A k \in 1 .. Quotes!Now : market'[k] = market[k]
  BY <1>1, <1>2 DEF Quotes!Now
<1>4. Quotes!TypeOK'
  BY <1>1, <1>2, <1>3 DEF Quotes!TopInv, Quotes!TypeOK
<1>5. tickAt > 0 => market'[tickAt] = market[tickAt]
  BY <1>2, <1>3
<1>6. synced => depthAt > 0 /\ Quotes!Settled(bids, "bids") /\ Quotes!Settled(asks, "asks")
  BY DEF Quotes!TopInv
<1>7. ASSUME depthAt > 0
      PROVE  \A k \in depthAt .. tickAt : market'[k] = market[k]
  BY <1>2, <1>3, <1>7
<1>8. depthAt > 0 => market'[depthAt] = market[depthAt]
  BY <1>2, <1>3
<1>9. ASSUME NEW levels, NEW side, depthAt > 0, Quotes!Settled(levels, side),
             NEW p \in Quotes!Prices \ astray[side],
             \A k \in depthAt .. tickAt, n \in depthAt .. tickAt :
               (p \in market'[k][side]) = (p \in market'[n][side])
      PROVE  (p \in levels) = (p \in market'[depthAt][side])
  BY <1>7, <1>8, <1>9 DEF Quotes!Settled, Quotes!Still
<1>10. synced' => Quotes!Settled(bids, "bids")' /\ Quotes!Settled(asks, "asks")'
  <2> SUFFICES ASSUME synced
               PROVE  Quotes!Settled(bids, "bids")' /\ Quotes!Settled(asks, "asks")'
    BY <1>1
  <2>1. \A p \in Quotes!Prices \ astray["bids"] :
          (\A k \in depthAt .. tickAt, n \in depthAt .. tickAt :
               (p \in market'[k]["bids"]) = (p \in market'[n]["bids"]))
            => (p \in bids) = (p \in market'[depthAt]["bids"])
    BY <1>6, <1>9
  <2>2. \A p \in Quotes!Prices \ astray["asks"] :
          (\A k \in depthAt .. tickAt, n \in depthAt .. tickAt :
               (p \in market'[k]["asks"]) = (p \in market'[n]["asks"]))
            => (p \in asks) = (p \in market'[depthAt]["asks"])
    BY <1>6, <1>9
  <2>3. QED
    BY <1>1, <2>1, <2>2 DEF Quotes!Settled, Quotes!Still
<1>11. QED
  BY <1>1, <1>4, <1>5, <1>6, <1>10 DEF Quotes!TopInv

\* Every step keeps the invariant.
LEMMA StepTop ==
  ASSUME Quotes!TopAssumptions, Quotes!TopInv, [Quotes!Next]_(Quotes!vars)
  PROVE  Quotes!TopInv'
<1>1. CASE UNCHANGED Quotes!vars
  BY <1>1
     DEF Quotes!vars, Quotes!TopInv, Quotes!TypeOK, Quotes!Now, Quotes!Settled,
         Quotes!Still
<1>2. CASE Quotes!Next
  BY <1>2, StepMove, StepSnapshot, StepDiff, StepTicker DEF Quotes!Next
<1>3. QED
  BY <1>1, <1>2

\* With depth as late as the ticker every level that is not astray is settled.
LEMMA TopGives ==
  ASSUME Quotes!TopAssumptions, Quotes!TopInv PROVE Quotes!DepthSurvivesTicker
<1> SUFFICES ASSUME synced, depthAt >= tickAt
             PROVE  /\ bids \ astray.bids = market[depthAt].bids \ astray.bids
                    /\ asks \ astray.asks = market[depthAt].asks \ astray.asks
  BY DEF Quotes!DepthSurvivesTicker
<1>1. /\ market \in Seq(Quotes!Books) /\ DOMAIN market = 1 .. Quotes!Now
      /\ bids \in SUBSET Quotes!Prices /\ asks \in SUBSET Quotes!Prices
      /\ depthAt \in 1 .. Quotes!Now /\ tickAt \in 0 .. Quotes!Now /\ Quotes!Now \in Nat
      /\ Quotes!Settled(bids, "bids") /\ Quotes!Settled(asks, "asks")
  BY DEF Quotes!TopInv, Quotes!TypeOK, Quotes!Now
<1>2. market[depthAt] \in Quotes!Books
  BY <1>1, MemberOfSeq
<1>3. market[depthAt].bids \in SUBSET Quotes!Prices /\ market[depthAt].asks \in SUBSET Quotes!Prices
  BY <1>2, BestOf
<1>4. \A k \in depthAt .. tickAt, n \in depthAt .. tickAt : k = n
  BY <1>1
<1>5. \A side \in {"bids", "asks"} : \A p \in Quotes!Prices : Quotes!Still(side, p, depthAt, tickAt)
  BY <1>4 DEF Quotes!Still
<1>6. QED
  BY <1>1, <1>3, <1>5 DEF Quotes!Settled

\* The ticker that hurries ahead of depth does not spoil the book
\* (orderbook.py apply_top_of_book, apply_diff), for markets of any length:
\* what is wrong when depth has caught up was not told, cut off, or changed by
\* a ticker that came behind depth.
THEOREM TopSurvivesTicker ==
  ASSUME Quotes!TopAssumptions
  PROVE  Quotes!Spec => []Quotes!TypeOK /\ []Quotes!DepthSurvivesTicker
<1>1. Quotes!Init => Quotes!TopInv
  BY TopInit
<1>2. Quotes!TopInv /\ [Quotes!Next]_(Quotes!vars) => Quotes!TopInv'
  BY StepTop
<1>3. Quotes!TopInv => Quotes!TypeOK /\ Quotes!DepthSurvivesTicker
  BY TopGives DEF Quotes!TopInv
<1>4. QED
  BY <1>1, <1>2, <1>3, PTL DEF Quotes!Spec


-----------------------------------------------------------------------------
(* The burst alert.                                                        *)

\* At the start no series runs.
LEMMA InitBurst == ASSUME Burst!BurstAssumptions, Burst!Init PROVE Burst!TypeOK
<1>1. 0 \in Burst!Times
  BY DEF Burst!BurstAssumptions, Burst!Times
<1>2. QED
  BY <1>1 DEF Burst!Init, Burst!TypeOK

\* What a scan leaves in the tables is a time.
LEMMA StepBurst == ASSUME Burst!BurstAssumptions, Burst!TypeOK,
                          [Burst!Next]_(Burst!vars) PROVE Burst!TypeOK'
<1> DEFINE Stamps == Burst!Times \cup {Burst!None}
<1>1. /\ now \in Burst!Times /\ active \in [Keys -> Stamps]
      /\ run_since \in [Keys -> Stamps]
      /\ series \in [Keys -> Stamps] /\ told \in [Keys -> {"none", "burst", "end"}]
  BY DEF Burst!TypeOK
<1>2. \A t \in Burst!ScanTimes : t \in Burst!Times
  BY <1>1 DEF Burst!ScanTimes, Burst!Times, Burst!BurstAssumptions
<1> HIDE DEF Stamps
<1>3. Burst!None \in Stamps /\ \A t \in Burst!Times : t \in Stamps
  BY DEF Stamps
<1>4. ASSUME NEW found \in [Keys -> Burst!Findings], Burst!Scan(found) PROVE Burst!TypeOK'
  <2>1. PICK t \in Burst!ScanTimes :
          /\ now' = t
          /\ run_since' = [k \in Keys |-> Burst!SeriesAfter(k, found[k], t)]
          /\ active' = [k \in Keys |-> Burst!ActiveAfter(k, found[k], t)]
          /\ told' = [k \in Keys |-> Burst!Message(k, found[k], t)]
          /\ series' = [k \in Keys |-> IF found[k] = "burst" THEN Burst!Since(series, k, t)
                                       ELSE Burst!None]
    BY <1>4 DEF Burst!Scan
  <2>2. t \in Burst!Times /\ t \in Stamps
    BY <1>2, <1>3
  <2>3. \A k \in Keys : /\ Burst!Since(run_since, k, t) \in Stamps
                        /\ Burst!Since(series, k, t) \in Stamps
    BY <1>1, <2>2 DEF Burst!Since
  <2>4. \A k \in Keys : Burst!SeriesAfter(k, found[k], t) \in Stamps
    BY <1>1, <1>3, <2>3 DEF Burst!SeriesAfter
  <2>5. \A k \in Keys : Burst!ActiveAfter(k, found[k], t) \in Stamps
    BY <1>1, <1>3, <2>2 DEF Burst!ActiveAfter
  <2>6. \A k \in Keys : Burst!Message(k, found[k], t) \in {"none", "burst", "end"}
    BY DEF Burst!Message
  <2>7. /\ run_since' \in [Keys -> Stamps] /\ active' \in [Keys -> Stamps]
        /\ told' \in [Keys -> {"none", "burst", "end"}] /\ series' \in [Keys -> Stamps]
    BY <1>3, <2>1, <2>3, <2>4, <2>5, <2>6
  <2>8. QED
    BY <2>1, <2>2, <2>7 DEF Burst!TypeOK, Stamps
<1>5. CASE Burst!NothingLive
  <2>1. PICK t \in Burst!ScanTimes :
          /\ now' = t /\ UNCHANGED run_since
          /\ active' = [k \in Keys |-> Burst!None] /\ told' = [k \in Keys |-> "none"]
          /\ series' = [k \in Keys |-> Burst!None]
    BY <1>5 DEF Burst!NothingLive
  <2>2. now' \in Burst!Times
    BY <1>2, <2>1
  <2>3. QED
    BY <1>1, <1>3, <2>1, <2>2 DEF Burst!TypeOK, Stamps
<1>6. CASE UNCHANGED Burst!vars
  BY <1>6 DEF Burst!vars, Burst!TypeOK
<1>7. QED
  BY <1>4, <1>5, <1>6 DEF Burst!Next

\* The tables of the bursts hold times of scans, for any keys and however long
\* the loop runs (_burst_alert_loop).
THEOREM BurstsAreTyped == ASSUME Burst!BurstAssumptions PROVE Burst!Spec => []Burst!TypeOK
BY InitBurst, StepBurst, PTL DEF Burst!Spec


-----------------------------------------------------------------------------
(* Account warming, spot.                                                  *)

\* The total is the sum over the coins.
LEMMA TotalIs == ASSUME NEW f PROVE Spot!Total(f) = SumFunctionOnSet(f, Tokens)
BY DEF Spot!Total, Spot!MapThenSumSet, SumFunctionOnSet, FoldFunctionOnSet,
   MapThenFoldSet, Spot!MapThenFoldSet

\* The coins are finitely many.
LEMMA SpotCoins == ASSUME Spot!SpotAssumptions PROVE IsFiniteSet(Tokens)
BY DEF Spot!SpotAssumptions, Spot!IsFiniteSet, IsFiniteSet

\* The recursion of a sum.
Pick(s) == CHOOSE x \in s : TRUE
Rec(f, S, g) ==
  g = [s \in SUBSET S |-> IF s = {} THEN 0 ELSE f[Pick(s)] + g[s \ {Pick(s)}]]

\* A sum is a solution of the recursion.
LEMMA SumIs == ASSUME NEW f,
                      NEW S PROVE SumFunctionOnSet(f, S) = (CHOOSE g : Rec(f, S, g))[S]
BY DEF SumFunctionOnSet, FoldFunctionOnSet, MapThenFoldSet, Rec, Pick

\* A set without one of its members is smaller.
LEMMA Smaller ==
  ASSUME NEW s, IsFiniteSet(s), NEW y \in s
  PROVE  /\ IsFiniteSet(s \ {y}) /\ Cardinality(s \ {y}) \in Nat
         /\ Cardinality(s) \in Nat /\ Cardinality(s \ {y}) = Cardinality(s) - 1
BY FS_RemoveElement, FS_CardinalityType

\* The recursion has a solution: for sets of one size after the other.
LEMMA RecExists ==
  ASSUME NEW f, NEW S, IsFiniteSet(S)
  PROVE  \E g : Rec(f, S, g)
<1> DEFINE D(n) == {s \in SUBSET S : Cardinality(s) <= n}
           G(n, g) == g = [s \in D(n) |-> IF s = {} THEN 0 ELSE f[Pick(s)] + g[s \ {Pick(s)}]]
           N == Cardinality(S)
           Bad == {n \in Nat : ~\E g : G(n, g)}
<1>1. N \in Nat /\ \A s \in SUBSET S : IsFiniteSet(s) /\ Cardinality(s) \in Nat /\ Cardinality(s) <= N
  BY FS_CardinalityType, FS_Subset
<1>2. \A s \in SUBSET S : s # {} => /\ Pick(s) \in s /\ s \ {Pick(s)} \in SUBSET S
                                    /\ Cardinality(s \ {Pick(s)}) = Cardinality(s) - 1
  BY <1>1, Smaller DEF Pick
<1>3. \E g : G(0, g)
  <2>1. D(0) = {{}}
    BY <1>1, FS_EmptySet
  <2> DEFINE h == [s \in D(0) |-> 0]
  <2>2. G(0, h)
    BY <2>1
  <2>3. QED
    BY <2>2
<1>4. ASSUME NEW n \in Nat, NEW g, G(n, g)
      PROVE  \E h : G(n + 1, h)
  <2> DEFINE h == [s \in D(n + 1) |-> IF s = {} THEN 0 ELSE f[Pick(s)] + g[s \ {Pick(s)}]]
  <2>1. \A s \in D(n) : s \in D(n + 1) /\ h[s] = g[s]
    <3> SUFFICES ASSUME NEW s \in D(n) PROVE s \in D(n + 1) /\ h[s] = g[s]
      OBVIOUS
    <3>1. s \in D(n + 1)
      BY <1>1
    <3>2. g[s] = IF s = {} THEN 0 ELSE f[Pick(s)] + g[s \ {Pick(s)}]
      BY <1>4
    <3>3. QED
      BY <3>1, <3>2
  <2>2. \A s \in D(n + 1) : s # {} => s \ {Pick(s)} \in D(n)
    BY <1>1, <1>2
  <2>3. h = [s \in D(n + 1) |-> IF s = {} THEN 0 ELSE f[Pick(s)] + h[s \ {Pick(s)}]]
    <3> HIDE DEF D
    <3>1. \A s \in D(n + 1) :
            (IF s = {} THEN 0 ELSE f[Pick(s)] + g[s \ {Pick(s)}])
              = (IF s = {} THEN 0 ELSE f[Pick(s)] + h[s \ {Pick(s)}])
      BY <2>1, <2>2
    <3>2. QED
      BY <3>1
  <2>4. G(n + 1, h)
    BY <2>3
  <2>5. QED
    BY <2>4
<1> HIDE DEF G, D
<1>5. \A n \in Nat : \E g : G(n, g)
  <2> SUFFICES ASSUME Bad # {} PROVE FALSE
    OBVIOUS
  <2>1. PICK n \in Bad : \A k \in Bad : n <= k
    BY LeastOf
  <2>2. n # 0 /\ n \in Nat
    BY <1>3
  <2>3. n - 1 \in Nat /\ ~(n - 1 \in Bad)
    BY <2>1, <2>2
  <2>4. PICK g : G(n - 1, g)
    BY <2>3
  <2>5. \E h : G((n - 1) + 1, h)
    BY <1>4, <2>3, <2>4
  <2>6. (n - 1) + 1 = n
    BY <2>2
  <2>7. QED
    BY <2>1, <2>5, <2>6
<1>6. D(N) = SUBSET S
  BY <1>1 DEF D
<1>7. PICK g : G(N, g)
  BY <1>1, <1>5
<1>8. Rec(f, S, g)
  BY <1>6, <1>7 DEF Rec, G
<1>9. QED
  BY <1>8

\* What a solution gives for a set.
LEMMA RecGives ==
  ASSUME NEW f, NEW S, NEW g, Rec(f, S, g), NEW s \in SUBSET S
  PROVE  /\ s = {} => g[s] = 0
         /\ s # {} => Pick(s) \in s /\ g[s] = f[Pick(s)] + g[s \ {Pick(s)}]
BY DEF Rec, Pick

\* Solutions for functions that agree on a set agree on the set.
LEMMA RecAgree ==
  ASSUME NEW f, NEW S, NEW g, Rec(f, S, g), IsFiniteSet(S),
         NEW e, NEW T, NEW h, Rec(e, T, h),
         NEW U, U \in SUBSET S, U \in SUBSET T, \A x \in U : f[x] = e[x]
  PROVE  g[U] = h[U]
<1> DEFINE Bad == {n \in Nat : \E s \in SUBSET U : Cardinality(s) = n /\ g[s] # h[s]}
<1>1. \A s \in SUBSET U : IsFiniteSet(s) /\ Cardinality(s) \in Nat
  BY FS_CardinalityType, FS_Subset
<1>2. Bad = {}
  <2> SUFFICES ASSUME Bad # {} PROVE FALSE
    OBVIOUS
  <2>1. PICK n \in Bad : \A k \in Bad : n <= k
    BY LeastOf
  <2>2. PICK s \in SUBSET U : Cardinality(s) = n /\ g[s] # h[s]
    BY <2>1
  <2>3. s # {} /\ s \in SUBSET S /\ s \in SUBSET T
    BY <2>2, RecGives
  <2> DEFINE c == Pick(s)
  <2>4. /\ c \in s /\ g[s] = f[c] + g[s \ {c}] /\ h[s] = e[c] + h[s \ {c}]
    BY <2>3, RecGives
  <2>5. Cardinality(s \ {c}) = n - 1 /\ n - 1 \in Nat /\ n \in Nat
    BY <1>1, <2>2, <2>4, Smaller
  <2>6. g[s \ {c}] = h[s \ {c}]
    <3>1. ~(n - 1 \in Bad)
      BY <2>1, <2>5
    <3>2. QED
      BY <2>5, <3>1
  <2>7. f[c] = e[c]
    BY <2>4
  <2>8. QED
    BY <2>2, <2>4, <2>6, <2>7
<1>3. QED
  BY <1>1, <1>2

\* The sums of functions that agree on a set.
LEMMA SumSame ==
  ASSUME NEW f, NEW e, NEW S, IsFiniteSet(S), \A x \in S : f[x] = e[x]
  PROVE  SumFunctionOnSet(f, S) = SumFunctionOnSet(e, S)
<1>1. Rec(f, S, CHOOSE g : Rec(f, S, g)) /\ Rec(e, S, CHOOSE g : Rec(e, S, g))
  BY RecExists
<1>2. QED
  BY <1>1, SumIs, RecAgree

\* The sum over the empty set,
LEMMA SumOfNone == ASSUME NEW f PROVE SumFunctionOnSet(f, {}) = 0
<1>1. Rec(f, {}, CHOOSE g : Rec(f, {}, g))
  BY RecExists, FS_EmptySet
<1>2. QED
  BY <1>1, SumIs, RecGives

\* ... and over a set with a member taken out.
LEMMA SumSplits ==
  ASSUME NEW f, NEW S, IsFiniteSet(S), \A x \in S : f[x] \in Int, NEW y \in S
  PROVE  /\ SumFunctionOnSet(f, S) \in Int
         /\ SumFunctionOnSet(f, S) = f[y] + SumFunctionOnSet(f, S \ {y})
<1> DEFINE g == CHOOSE k : Rec(f, S, k)
           h == CHOOSE k : Rec(f, S \ {y}, k)
           Bad == {n \in Nat : \E s \in SUBSET S : Cardinality(s) = n /\ g[s] \notin Int}
           Odd == {n \in Nat : \E s \in SUBSET S : \E z \in s :
                     Cardinality(s) = n /\ g[s] # f[z] + g[s \ {z}]}
<1>1. Rec(f, S, g) /\ Rec(f, S \ {y}, h)
  BY RecExists, FS_Subset
<1>2. \A s \in SUBSET S : IsFiniteSet(s) /\ Cardinality(s) \in Nat
  BY FS_CardinalityType, FS_Subset
<1> HIDE DEF g, h, Bad, Odd
<1>0. \A s \in SUBSET S : s # {} => Pick(s) \in s /\ g[s] = f[Pick(s)] + g[s \ {Pick(s)}]
  BY <1>1, RecGives
<1> USE DEF Bad, Odd
<1>3. Bad = {}
  <2> SUFFICES ASSUME Bad # {} PROVE FALSE
    OBVIOUS
  <2>1. PICK n \in Bad : \A k \in Bad : n <= k
    BY LeastOf
  <2>2. PICK s \in SUBSET S : Cardinality(s) = n /\ g[s] \notin Int
    BY <2>1
  <2>3. s # {}
    <3>1. s = {} => g[s] = 0
      BY <1>1, RecGives
    <3>2. QED
      BY <2>2, <3>1
  <2> DEFINE c == Pick(s)
  <2>4. /\ c \in s /\ g[s] = f[c] + g[s \ {c}]
    BY <1>0, <2>3
  <2>5. Cardinality(s \ {c}) = n - 1 /\ n - 1 \in Nat /\ n \in Nat
    BY <1>2, <2>2, <2>4, Smaller
  <2>6. ~(n - 1 \in Bad)
    BY <2>1, <2>5
  <2>7. g[s \ {c}] \in Int /\ f[c] \in Int
    BY <2>4, <2>5, <2>6
  <2>8. QED
    BY <2>2, <2>4, <2>7
<1>4. \A s \in SUBSET S : g[s] \in Int
  BY <1>2, <1>3
<1>5. Odd = {}
  <2> SUFFICES ASSUME Odd # {} PROVE FALSE
    OBVIOUS
  <2>1. PICK n \in Odd : \A k \in Odd : n <= k
    BY LeastOf
  <2>2. PICK s \in SUBSET S : \E z \in s : Cardinality(s) = n /\ g[s] # f[z] + g[s \ {z}]
    BY <2>1
  <2>3. PICK z \in s : Cardinality(s) = n /\ g[s] # f[z] + g[s \ {z}]
    BY <2>2
  <2> DEFINE c == Pick(s)
  <2>4. /\ c \in s /\ g[s] = f[c] + g[s \ {c}]
    BY <1>0
  <2> HIDE DEF c
  <2>5. z # c /\ z \in s \ {c} /\ c \in s \ {z}
    BY <2>3, <2>4
  <2>6. /\ Cardinality(s \ {c}) = n - 1 /\ Cardinality(s \ {z}) = n - 1
        /\ n - 1 \in Nat /\ n \in Nat
    BY <1>2, <2>3, <2>4, Smaller
  <2>7. ~(n - 1 \in Odd)
    <3>1. n - 1 \in Odd => n <= n - 1
      BY <2>1
    <3>2. QED
      BY <2>6, <3>1
  <2>8. g[s \ {c}] = f[z] + g[(s \ {c}) \ {z}]
    BY <2>5, <2>6, <2>7
  <2>9. g[s \ {z}] = f[c] + g[(s \ {z}) \ {c}]
    BY <2>5, <2>6, <2>7
  <2>10. (s \ {c}) \ {z} = (s \ {z}) \ {c}
    OBVIOUS
  <2>11. f[c] \in Int /\ f[z] \in Int /\ g[(s \ {z}) \ {c}] \in Int
    BY <1>4, <2>4
  <2>12. g[s] = f[c] + (f[z] + g[(s \ {z}) \ {c}])
    BY <2>4, <2>8, <2>10
  <2>13. f[z] + g[s \ {z}] = f[z] + (f[c] + g[(s \ {z}) \ {c}])
    BY <2>9
  <2>14. QED
    BY <2>3, <2>11, <2>12, <2>13
<1>6. g[S] = f[y] + g[S \ {y}]
  <2>1. Cardinality(S) \in Nat /\ ~(Cardinality(S) \in Odd)
    BY <1>2, <1>5
  <2>2. QED
    BY <2>1
<1>7. g[S \ {y}] = h[S \ {y}]
  BY <1>1, RecAgree
<1>8. QED
  BY <1>4, <1>6, <1>7, SumIs DEF g, h

\* Amounts that are no debts add up to none.
LEMMA SumOfNats ==
  ASSUME NEW f, NEW S, IsFiniteSet(S), \A x \in S : f[x] \in Nat
  PROVE  SumFunctionOnSet(f, S) \in Nat
<1> DEFINE Bad == {n \in Nat : \E s \in SUBSET S :
                     Cardinality(s) = n /\ SumFunctionOnSet(f, s) \notin Nat}
<1>1. \A s \in SUBSET S : IsFiniteSet(s) /\ Cardinality(s) \in Nat
  BY FS_CardinalityType, FS_Subset
<1>2. Bad = {}
  <2> SUFFICES ASSUME Bad # {} PROVE FALSE
    OBVIOUS
  <2>1. PICK n \in Bad : \A k \in Bad : n <= k
    BY LeastOf
  <2>2. PICK s \in SUBSET S : Cardinality(s) = n /\ SumFunctionOnSet(f, s) \notin Nat
    BY <2>1
  <2> HIDE DEF Bad
  <2>3. PICK y \in s : TRUE
    BY <2>2, SumOfNone
  <2>4. SumFunctionOnSet(f, s) = f[y] + SumFunctionOnSet(f, s \ {y}) /\ f[y] \in Nat
    BY <1>1, <2>3, SumSplits
  <2>5. Cardinality(s \ {y}) = n - 1 /\ n - 1 \in Nat /\ n \in Nat
    BY <1>1, <2>2, <2>3, Smaller
  <2>6. ~(n - 1 \in Bad)
    BY <2>1, <2>5
  <2>7. SumFunctionOnSet(f, s \ {y}) \in Nat
    BY <2>5, <2>6 DEF Bad
  <2>8. QED
    BY <2>2, <2>4, <2>7
<1>3. QED
  BY <1>1, <1>2

\* A sum of nothings is nothing.
LEMMA SumOfZeros ==
  ASSUME NEW f, NEW S, IsFiniteSet(S), \A x \in S : f[x] = 0
  PROVE  SumFunctionOnSet(f, S) = 0
<1> DEFINE Bad == {n \in Nat : \E s \in SUBSET S :
                     Cardinality(s) = n /\ SumFunctionOnSet(f, s) # 0}
<1>1. \A s \in SUBSET S : IsFiniteSet(s) /\ Cardinality(s) \in Nat
  BY FS_CardinalityType, FS_Subset
<1>2. Bad = {}
  <2> SUFFICES ASSUME Bad # {} PROVE FALSE
    OBVIOUS
  <2>1. PICK n \in Bad : \A k \in Bad : n <= k
    BY LeastOf
  <2>2. PICK s \in SUBSET S : Cardinality(s) = n /\ SumFunctionOnSet(f, s) # 0
    BY <2>1
  <2> HIDE DEF Bad
  <2>3. PICK y \in s : TRUE
    BY <2>2, SumOfNone
  <2>4. SumFunctionOnSet(f, s) = f[y] + SumFunctionOnSet(f, s \ {y}) /\ f[y] = 0
    BY <1>1, <2>3, SumSplits
  <2>5. Cardinality(s \ {y}) = n - 1 /\ n - 1 \in Nat /\ n \in Nat
    BY <1>1, <2>2, <2>3, Smaller
  <2>6. ~(n - 1 \in Bad)
    BY <2>1, <2>5
  <2>7. SumFunctionOnSet(f, s \ {y}) = 0
    BY <2>5, <2>6 DEF Bad
  <2>8. QED
    BY <2>2, <2>4, <2>7
<1>3. QED
  BY <1>1, <1>2

\* One amount changes.
LEMMA SumChanges ==
  ASSUME NEW f, NEW e, NEW S, IsFiniteSet(S), \A x \in S : f[x] \in Int /\ e[x] \in Int,
         NEW y \in S, \A x \in S \ {y} : f[x] = e[x]
  PROVE  /\ SumFunctionOnSet(f, S) \in Int /\ SumFunctionOnSet(e, S) \in Int
         /\ SumFunctionOnSet(e, S) = SumFunctionOnSet(f, S) - f[y] + e[y]
<1>1. /\ SumFunctionOnSet(f, S) \in Int /\ SumFunctionOnSet(e, S) \in Int
      /\ SumFunctionOnSet(f, S) = f[y] + SumFunctionOnSet(f, S \ {y})
      /\ SumFunctionOnSet(e, S) = e[y] + SumFunctionOnSet(e, S \ {y})
  BY SumSplits
<1>2. IsFiniteSet(S \ {y})
  BY FS_Subset
<1>3. SumFunctionOnSet(f, S \ {y}) = SumFunctionOnSet(e, S \ {y})
  BY <1>2, SumSame
<1>4. SumFunctionOnSet(f, S \ {y}) \in Int
  <2>1. CASE S \ {y} = {}
    BY <2>1, SumOfNone
  <2>2. CASE S \ {y} # {}
    BY <1>2, <2>2, SumSplits
  <2>3. QED
    BY <2>1, <2>2
<1>5. QED
  BY <1>1, <1>3, <1>4

-----------------------------------------------------------------------------
(* Arithmetic.                                                             *)

\* A product of two amounts.
LEMMA Product ==
  ASSUME NEW a \in Nat, NEW b \in Nat, NEW c \in Nat, a <= c
  PROVE  a * b \in Nat /\ c * b \in Nat /\ a * b <= c * b
<1>1. c * b = a * b + (c - a) * b
  OBVIOUS
<1>2. a * b \in Nat /\ (c - a) * b \in Nat
  <2>1. c - a \in Nat
    OBVIOUS
  <2>2. QED
    BY <2>1
<1>3. QED
  BY <1>1, <1>2

\* A share.
LEMMA Share ==
  ASSUME NEW a \in Nat, NEW b \in Nat, b > 0
  PROVE  /\ a \div b \in Nat /\ (a \div b) * b <= a
         /\ \A w \in Nat : a <= w * b => a \div b <= w
<1> DEFINE q == a \div b
<1>1. q \in Nat /\ q * b <= a /\ a < q * b + b
  OBVIOUS
<1> HIDE DEF q
<1>2. ASSUME NEW w \in Nat, a <= w * b, w < q PROVE FALSE
  <2>1. (w + 1) * b <= q * b
    BY <1>1, <1>2, Product
  <2>2. (w + 1) * b = w * b + b
    OBVIOUS
  <2>3. w * b \in Nat /\ q * b \in Nat
    BY <1>1
  <2>4. QED
    BY <1>1, <1>2, <2>1, <2>2, <2>3
<1>3. QED
  BY <1>1, <1>2 DEF q

-----------------------------------------------------------------------------
(* The books.                                                              *)

\* The basis of the books, and how one position changes it.
LEMMA BasisChanges ==
  ASSUME Spot!SpotAssumptions, NEW b \in Spot!BooksType, NEW c \in Spot!BooksType,
         NEW t \in Tokens,
         \A u \in Tokens \ {t} : c.pos[u] = b.pos[u]
  PROVE  /\ Spot!Basis(b) \in Int
         /\ Spot!Basis(c) = Spot!Basis(b) - b.pos[t].cost + c.pos[t].cost
<1> DEFINE f == [u \in Tokens |-> b.pos[u].cost]
           e == [u \in Tokens |-> c.pos[u].cost]
<1>1. \A u \in Tokens : b.pos[u].cost \in Nat /\ c.pos[u].cost \in Nat
  BY DEF Spot!BooksType
<1>2. \A u \in Tokens : f[u] \in Int /\ e[u] \in Int
  BY <1>1
<1>3. \A u \in Tokens \ {t} : f[u] = e[u]
  OBVIOUS
<1>4. Spot!Basis(b) = SumFunctionOnSet(f, Tokens) /\ Spot!Basis(c) = SumFunctionOnSet(e, Tokens)
  BY TotalIs DEF Spot!Basis
<1>5. IsFiniteSet(Tokens)
  BY SpotCoins
<1>6. f[t] = b.pos[t].cost /\ e[t] = c.pos[t].cost
  OBVIOUS
<1> HIDE DEF f, e
<1>7. QED
  BY <1>2, <1>3, <1>4, <1>5, <1>6, SumChanges

\* The money of so many coins at a price.
Paid(q, px) == q * px

\* A purchase.
BuyBooks(b, t, q, px, c) ==
  /\ c \in Spot!BooksType /\ Spot!Basis(b) \in Int
  /\ Spot!Basis(c) = Spot!Basis(b) + Paid(q, px)
  /\ c.flow = b.flow - Paid(q, px) /\ c.pnl = b.pnl /\ c.legacy = b.legacy
  /\ \A u \in Tokens \ {t} : c.pos[u] = b.pos[u]
  /\ c.pos[t].qty = b.pos[t].qty + q

\* record_spot_buy books a purchase.
LEMMA BuyIsBooked ==
  ASSUME Spot!SpotAssumptions, NEW b \in Spot!BooksType, NEW t \in Tokens,
         NEW q \in Nat, NEW px \in Nat, NEW c, c = Spot!RecordBuy(b, t, q, px)
  PROVE  BuyBooks(b, t, q, px, c)
<1> USE DEF Paid
<1>1. /\ b.pos \in [Tokens -> [qty : Nat, cost : Nat]]
      /\ b.flow \in Int /\ b.pnl \in Int /\ b.legacy \in Nat
      /\ b = [pos |-> b.pos, flow |-> b.flow, pnl |-> b.pnl, legacy |-> b.legacy]
  BY DEF Spot!BooksType
<1>2. q * px \in Nat
  OBVIOUS
<1> DEFINE new == [qty |-> b.pos[t].qty + q, cost |-> b.pos[t].cost + q * px]
<1>3. new \in [qty : Nat, cost : Nat]
  BY <1>1, <1>2
<1>4. c = [pos |-> [b.pos EXCEPT ![t] = new], flow |-> b.flow - q * px,
           pnl |-> b.pnl, legacy |-> b.legacy]
  BY <1>1 DEF Spot!RecordBuy
<1>5. new.cost = b.pos[t].cost + q * px /\ new.qty = b.pos[t].qty + q
  OBVIOUS
<1> HIDE DEF new
<1>6. c \in Spot!BooksType
  BY <1>1, <1>2, <1>3, <1>4 DEF Spot!BooksType
<1>7. \A u \in Tokens \ {t} : c.pos[u] = b.pos[u]
  BY <1>1, <1>4
<1>8. c.pos[t].cost = b.pos[t].cost + q * px /\ c.pos[t].qty = b.pos[t].qty + q
  BY <1>1, <1>4, <1>5
<1>9. Spot!Basis(b) \in Int /\ Spot!Basis(c) = Spot!Basis(b) - b.pos[t].cost + c.pos[t].cost
  BY <1>6, <1>7, BasisChanges
<1>10. b.pos[t].cost \in Nat
  BY <1>1
<1>11. Spot!Basis(c) = Spot!Basis(b) + q * px
  BY <1>2, <1>8, <1>9, <1>10
<1>12. QED
  BY <1>4, <1>6, <1>7, <1>8, <1>9, <1>11 DEF BuyBooks

\* What a sale takes out of a position.
LEMMA KnownPart ==
  ASSUME NEW b \in Spot!BooksType, NEW t \in Tokens, NEW q \in Nat
  PROVE  /\ Spot!Known(b, t, q) \in Nat /\ Spot!Known(b, t, q) <= q
         /\ Spot!Known(b, t, q) <= b.pos[t].qty
         /\ Spot!Known(b, t, q) = q \/ Spot!Known(b, t, q) = b.pos[t].qty
         /\ Spot!BasisOf(b, t, q) \in Nat /\ Spot!BasisOf(b, t, q) <= b.pos[t].cost
<1>1. b.pos[t].qty \in Nat /\ b.pos[t].cost \in Nat
  BY DEF Spot!BooksType
<1> DEFINE k == Spot!Known(b, t, q)
           cost == b.pos[t].cost
           qty == b.pos[t].qty
<1>2. k \in Nat /\ k <= q /\ k <= qty /\ (k = q \/ k = qty)
  BY <1>1 DEF Spot!Known, Spot!Least
<1>3. Spot!BasisOf(b, t, q) = IF qty = 0 THEN 0 ELSE (cost * k) \div qty
  BY DEF Spot!BasisOf
<1> HIDE DEF k, cost, qty
<1>4. ASSUME qty # 0
      PROVE  (cost * k) \div qty \in Nat /\ (cost * k) \div qty <= cost
  <2>1. cost \in Nat /\ qty \in Nat /\ qty > 0
    BY <1>1, <1>4 DEF cost, qty
  <2>2. k * cost \in Nat /\ k * cost <= qty * cost
    BY <1>2, <2>1, Product
  <2>3. cost * k \in Nat /\ cost * k <= cost * qty
    BY <2>1, <2>2, <1>2
  <2>4. QED
    BY <2>1, <2>3, Share
<1>5. QED
  BY <1>1, <1>2, <1>3, <1>4 DEF k, cost, qty

\* A sale.
SaleBooks(b, t, q, px, c) ==
  /\ c \in Spot!BooksType /\ Spot!Basis(b) \in Int
  /\ Spot!Basis(c) = Spot!Basis(b) - Spot!BasisOf(b, t, q)
  /\ c.flow = b.flow + Paid(q, px)
  /\ c.pnl = b.pnl + Paid(Spot!Known(b, t, q), px) - Spot!BasisOf(b, t, q)
  /\ c.legacy = Spot!Above0(b.legacy - Spot!Rest(b, t, q, px))
  /\ Spot!Rest(b, t, q, px) \in Nat /\ Paid(Spot!Known(b, t, q), px) \in Nat
  /\ Paid(q, px) = Paid(Spot!Known(b, t, q), px) + Spot!Rest(b, t, q, px)
  /\ \A u \in Tokens \ {t} : c.pos[u] = b.pos[u]
  /\ c.pos[t].qty = b.pos[t].qty - Spot!Known(b, t, q)

\* record_spot_sell books a sale.
LEMMA SaleIsBooked ==
  ASSUME Spot!SpotAssumptions, NEW b \in Spot!BooksType, NEW t \in Tokens,
         NEW q \in Nat, NEW px \in Nat, NEW c, c = Spot!RecordSell(b, t, q, px)
  PROVE  SaleBooks(b, t, q, px, c)
<1> USE DEF Paid
<1> DEFINE k == Spot!Known(b, t, q)
           basis == Spot!BasisOf(b, t, q)
           rest == Spot!Rest(b, t, q, px)
           new == [qty |-> b.pos[t].qty - k, cost |-> b.pos[t].cost - basis]
<1>1. /\ b.pos \in [Tokens -> [qty : Nat, cost : Nat]]
      /\ b.flow \in Int /\ b.pnl \in Int /\ b.legacy \in Nat
      /\ b = [pos |-> b.pos, flow |-> b.flow, pnl |-> b.pnl, legacy |-> b.legacy]
      /\ b.pos[t].qty \in Nat /\ b.pos[t].cost \in Nat
  BY DEF Spot!BooksType
<1>2. k \in Nat /\ k <= q /\ k <= b.pos[t].qty /\ basis \in Nat /\ basis <= b.pos[t].cost
  BY KnownPart
<1>3. k * px \in Nat /\ rest \in Nat /\ q * px \in Nat /\ q * px = k * px + rest
  <2>1. rest = (q - k) * px /\ q - k \in Nat
    BY <1>2 DEF Spot!Rest
  <2> HIDE DEF k, rest
  <2>2. q * px = k * px + (q - k) * px
    BY <1>2
  <2>3. k * px \in Nat /\ (q - k) * px \in Nat /\ q * px \in Nat
    BY <1>2, <2>1
  <2>4. QED
    BY <2>1, <2>2, <2>3
<1>4. c = [pos |-> [b.pos EXCEPT ![t] = new], flow |-> b.flow + q * px,
           pnl |-> b.pnl + k * px - basis, legacy |-> Spot!Above0(b.legacy - rest)]
  BY <1>1 DEF Spot!RecordSell
<1> HIDE DEF k, basis, rest
<1>5. new \in [qty : Nat, cost : Nat] /\ new.qty = b.pos[t].qty - k
      /\ new.cost = b.pos[t].cost - basis
  BY <1>1, <1>2
<1> HIDE DEF new
<1>6. Spot!Above0(b.legacy - rest) \in Nat
  BY <1>1, <1>3 DEF Spot!Above0
<1>7. b.flow + q * px \in Int /\ b.pnl + k * px - basis \in Int
  BY <1>1, <1>2, <1>3
<1>8. c \in Spot!BooksType
  BY <1>1, <1>4, <1>5, <1>6, <1>7 DEF Spot!BooksType
<1>9. \A u \in Tokens \ {t} : c.pos[u] = b.pos[u]
  BY <1>1, <1>4
<1>10. c.pos[t] = new
  BY <1>1, <1>4
<1>11. Spot!Basis(b) \in Int /\ Spot!Basis(c) = Spot!Basis(b) - b.pos[t].cost + c.pos[t].cost
  BY <1>8, <1>9, BasisChanges
<1>12. Spot!Basis(c) = Spot!Basis(b) - basis
  BY <1>1, <1>2, <1>5, <1>10, <1>11
<1>13. c.pos[t].qty = b.pos[t].qty - k
  BY <1>5, <1>10
<1>14. QED
  BY <1>3, <1>4, <1>8, <1>9, <1>11, <1>12, <1>13 DEF k, basis, rest, SaleBooks

\* Books that add up, and go on adding up.
LEMMA BuyAddsUp ==
  ASSUME Spot!SpotAssumptions, books \in Spot!BooksType, windfall \in Nat, Spot!BooksAddUp,
         NEW t \in Tokens, NEW q \in Nat, NEW px \in Nat,
         books' = Spot!RecordBuy(books, t, q, px), windfall' = windfall
  PROVE  books' \in Spot!BooksType /\ Spot!BooksAddUp'
<1>0. PICK c : c = books'
  OBVIOUS
<1>1. /\ c \in Spot!BooksType /\ Spot!Basis(books) \in Int
      /\ Spot!Basis(c) = Spot!Basis(books) + Paid(q, px)
      /\ c.flow = books.flow - Paid(q, px) /\ c.pnl = books.pnl
      /\ c.legacy = books.legacy
  <2>1. BuyBooks(books, t, q, px, c)
    BY <1>0, BuyIsBooked
  <2>2. QED
    BY <2>1 DEF BuyBooks
<1>2. Paid(q, px) \in Nat /\ books.flow \in Int /\ books.legacy \in Int /\ books.pnl \in Int
  BY DEF Spot!BooksType, Paid
<1>3. books.flow + Spot!Basis(books) + books.legacy = books.pnl + windfall
  BY DEF Spot!BooksAddUp
<1>4. c.flow + Spot!Basis(c) + c.legacy = c.pnl + windfall
  BY <1>1, <1>2, <1>3
<1>5. QED
  BY <1>0, <1>1, <1>4 DEF Spot!BooksAddUp, Spot!Basis

\* The books add up after a sale.
LEMMA SaleAddsUp ==
  ASSUME Spot!SpotAssumptions, books \in Spot!BooksType, windfall \in Nat, Spot!BooksAddUp,
         NEW t \in Tokens, NEW q \in Nat, NEW px \in Nat,
         books' = Spot!RecordSell(books, t, q, px),
         windfall' = windfall + Spot!Above0(Spot!Rest(books, t, q, px) - books.legacy)
  PROVE  books' \in Spot!BooksType /\ windfall' \in Nat /\ Spot!BooksAddUp'
<1> DEFINE r == Spot!Rest(books, t, q, px)
           kp == Paid(Spot!Known(books, t, q), px)
           bo == Spot!BasisOf(books, t, q)
<1>0. PICK c : c = books'
  OBVIOUS
<1>1. /\ c \in Spot!BooksType /\ Spot!Basis(books) \in Int
      /\ Spot!Basis(c) = Spot!Basis(books) - bo
      /\ c.flow = books.flow + Paid(q, px)
      /\ c.pnl = books.pnl + kp - bo
      /\ c.legacy = Spot!Above0(books.legacy - r)
      /\ r \in Nat /\ kp \in Nat /\ Paid(q, px) = kp + r
  <2>1. SaleBooks(books, t, q, px, c)
    BY <1>0, SaleIsBooked
  <2>2. QED
    BY <2>1 DEF SaleBooks
<1>2. bo \in Nat
  BY KnownPart
<1>3. books.flow \in Int /\ books.legacy \in Nat /\ books.pnl \in Int /\ Paid(q, px) \in Nat
  BY DEF Spot!BooksType, Paid
<1>4. books.flow + Spot!Basis(books) + books.legacy = books.pnl + windfall
  BY DEF Spot!BooksAddUp
<1>5. windfall' = windfall + Spot!Above0(r - books.legacy)
  OBVIOUS
<1> HIDE DEF r, kp, bo
<1>6. CASE r > books.legacy
  <2>1. c.legacy = 0 /\ windfall' = windfall + r - books.legacy
    BY <1>1, <1>3, <1>5, <1>6 DEF Spot!Above0
  <2> DEFINE w == windfall + r - books.legacy
  <2>a. w \in Nat /\ c.flow + Spot!Basis(c) + c.legacy = c.pnl + w
    BY <1>1, <1>2, <1>3, <1>4, <1>6, <2>1
  <2>2. windfall' \in Nat /\ c.flow + Spot!Basis(c) + c.legacy = c.pnl + windfall'
    BY <2>1, <2>a
  <2>3. QED
    BY <1>0, <1>1, <2>2 DEF Spot!BooksAddUp, Spot!Basis
<1>7. CASE r <= books.legacy
  <2>1. c.legacy = books.legacy - r /\ windfall' = windfall
    BY <1>1, <1>3, <1>5, <1>7 DEF Spot!Above0
  <2>2. windfall' \in Nat /\ c.flow + Spot!Basis(c) + c.legacy = c.pnl + windfall'
    BY <1>1, <1>2, <1>3, <1>4, <1>7, <2>1
  <2>3. QED
    BY <1>0, <1>1, <2>2 DEF Spot!BooksAddUp, Spot!Basis
<1>8. QED
  BY <1>1, <1>3, <1>6, <1>7

-----------------------------------------------------------------------------
(* What a pass of the sell-off sends.                                      *)

\* The wallet's coins have a value.
LEMMA ValuesAdd ==
  ASSUME Spot!SpotAssumptions, wallet \in [Tokens -> Nat], price \in [Tokens -> Prices]
  PROVE  Spot!CoinsValue \in Nat /\ \A t \in Tokens : price[t] \in Nat /\ price[t] > 0
                                                      /\ Spot!Value(t) \in Nat
<1> DEFINE f == [t \in Tokens |-> Spot!Value(t)]
<1>1. \A t \in Tokens : price[t] \in Nat /\ price[t] > 0 /\ wallet[t] \in Nat
  <2>1. \A p \in Prices : p \in Nat /\ p > 0
    BY DEF Spot!SpotAssumptions
  <2>2. QED
    BY <2>1
<1>2. \A t \in Tokens : Spot!Value(t) \in Nat
  BY <1>1 DEF Spot!Value
<1>3. \A t \in Tokens : f[t] \in Nat
  BY <1>2
<1>4. Spot!CoinsValue = SumFunctionOnSet(f, Tokens)
  BY TotalIs DEF Spot!CoinsValue
<1>5. IsFiniteSet(Tokens)
  BY SpotCoins
<1> HIDE DEF f
<1>6. Spot!CoinsValue \in Nat
  BY <1>3, <1>4, <1>5, SumOfNats
<1>7. QED
  BY <1>1, <1>2, <1>6

\* The client rounds a quantity to the step, by at most half of it.
LEMMA RoundedIs ==
  ASSUME Spot!SpotAssumptions, NEW q \in Nat
  PROVE  Spot!Rounded(q) \in Nat /\ Spot!Rounded(q) <= q + Step \div 2
<1> DEFINE h == Step \div 2
           x == q + h
           y == x \div Step
<1>1. Step \in Nat /\ Step > 0
  BY DEF Spot!SpotAssumptions
<1>2. h \in Nat
  BY <1>1
<1> HIDE DEF h
<1>3. x \in Nat
  BY <1>2
<1>4. y \in Nat /\ y * Step <= x
  BY <1>1, <1>3, Share
<1>5. Spot!Rounded(q) = y * Step
  BY DEF Spot!Rounded, h
<1> HIDE DEF y
<1>6. y * Step \in Nat
  BY <1>1, <1>4
<1>7. QED
  BY <1>4, <1>5, <1>6 DEF h

\* A pass sends amounts.
LEMMA PassFits ==
  ASSUME Spot!SpotAssumptions, wallet \in [Tokens -> Nat], price \in [Tokens -> Prices],
         cash \in Nat, NEW keep \in {0, 1, 2}, Spot!Selling(keep), NEW t \in Tokens
  PROVE  Spot!ToSell(t, keep) \in Nat
<1> DEFINE V == Spot!CoinsValue
           m == (V + cash) * keep
           target == m \div 4
           share == (Spot!Value(t) * (V - target)) \div V
           full == Spot!Value(t) - share < MinHold
           amount == IF full THEN Spot!Value(t) ELSE share
           floor == (wallet[t] \div Step) * Step
<1>1. V \in Nat /\ Spot!Value(t) \in Nat /\ price[t] \in Nat /\ price[t] > 0 /\ wallet[t] \in Nat
  BY ValuesAdd
<1>2. m \in Nat /\ m < V * 4
  <2>1. m \in Nat
    BY <1>1
  <2>2. V * 4 > m
    BY DEF Spot!Selling
  <2>3. QED
    BY <1>1, <2>1, <2>2
<1>3. floor \in Nat
  <2>1. Step \in Nat /\ Step > 0
    BY DEF Spot!SpotAssumptions
  <2> DEFINE n == wallet[t] \div Step
  <2>2. n \in Nat
    BY <1>1, <2>1
  <2> HIDE DEF n
  <2>3. n * Step \in Nat
    BY <2>1, <2>2
  <2>4. QED
    BY <2>3 DEF n
<1>4. Spot!ToSell(t, keep) = IF amount < MinExchange THEN 0
                        ELSE IF full THEN floor ELSE amount \div price[t]
  BY DEF Spot!ToSell
<1> HIDE DEF V, m, floor
<1>5. target \in Nat /\ V - target \in Nat /\ V > 0
  <2>1. target \in Nat /\ target * 4 <= m
    BY <1>2
  <2>2. QED
    BY <1>1, <1>2, <2>1
<1> HIDE DEF target
<1>6. share \in Nat
  <2> DEFINE w == V - target
             x == Spot!Value(t)
  <2>1. w * x \in Nat
    BY <1>1, <1>5
  <2>2. x * w = w * x
    BY <1>1, <1>5
  <2>3. share = (x * w) \div V
    OBVIOUS
  <2> HIDE DEF w, x, share
  <2>4. QED
    BY <1>1, <1>5, <2>1, <2>2, <2>3, Share
<1> HIDE DEF share
<1>7. amount \in Nat
  BY <1>1, <1>6
<1> HIDE DEF amount, full
<1>8. amount \div price[t] \in Nat
  BY <1>1, <1>7, Share
<1>9. QED
  BY <1>3, <1>4, <1>8

-----------------------------------------------------------------------------
(* The steps.                                                              *)

PlanType ==
  [today : BOOLEAN, buysTarget : Nat, buys : Nat, sells : Nat, spent : 0 .. Ceiling]

\* What belongs to a coin on the exchange, as numbers.
CoinsType ==
  /\ wallet \in [Tokens -> Nat] /\ due \in [Tokens -> Nat] /\ offered \in [Tokens -> Nat]
  /\ missed \in [Tokens -> Nat] /\ cash \in Nat

\* What backs the claim that the books have to a coin, up to rounding.
Backing(t) == wallet[t] + due[t] + missed[t]

\* An order of each kind.
BuyOrder == [kind : {"buy"}, token : Tokens, qty : Nat, px : Nat \ {0}, usdt : Nat]
SellOrder == [kind : {"sell"}, token : Tokens, qty : Nat, px : Nat]
WindOrder == [kind : {"wind"}, qty : [Tokens -> Nat], px : [Tokens -> Nat]]

\* An order fits by its kind,
LEMMA FitsIs ==
  Spot!OrderFits <=> \/ order = Spot!NoOrder
                     \/ order \in BuyOrder /\ plan.spent + order.usdt <= Ceiling
                     \/ order \in SellOrder \/ order \in WindOrder
BY DEF Spot!OrderFits, BuyOrder, SellOrder, WindOrder

\* ... also after a step.
LEMMA FitsAfter ==
  Spot!OrderFits' <=> \/ order' = Spot!NoOrder
                      \/ order' \in BuyOrder /\ plan'.spent + order'.usdt <= Ceiling
                      \/ order' \in SellOrder \/ order' \in WindOrder
BY DEF Spot!OrderFits, BuyOrder, SellOrder, WindOrder

\* The kind tells the shape.
LEMMA KindTells ==
  ASSUME Spot!OrderFits
  PROVE  /\ order.kind = "none" => order = Spot!NoOrder
         /\ order.kind = "buy" => order \in BuyOrder /\ plan.spent + order.usdt <= Ceiling
         /\ order.kind = "sell" => order \in SellOrder
         /\ order.kind = "wind" => order \in WindOrder
BY FitsIs DEF Spot!NoOrder, BuyOrder, SellOrder, WindOrder

\* The invariant, taken apart.
LEMMA SpotHas ==
  ASSUME Spot!SpotAssumptions, Spot!SpotInv
  PROVE  /\ CoinsType /\ sales \in [Tokens -> Nat] /\ price \in [Tokens -> Prices]
         /\ plan \in PlanType /\ books \in Spot!BooksType /\ windfall \in Nat
         /\ Spot!OrderFits /\ Spot!BooksAddUp /\ Spot!BooksAreBacked
         /\ Ceiling \in Nat /\ Quota \in Nat /\ Step \in Nat /\ Step \div 2 \in Nat
BY DEF Spot!SpotInv, Spot!TypeOK, PlanType, CoinsType, Spot!SpotAssumptions

\* ... and put together.
LEMMA SpotNow ==
  ASSUME CoinsType, sales \in [Tokens -> Nat], price \in [Tokens -> Prices],
         plan \in PlanType, books \in Spot!BooksType, windfall \in Nat,
         Spot!OrderFits, Spot!BooksAddUp, Spot!BooksAreBacked
  PROVE  Spot!SpotInv
<1>1. /\ \A t \in Tokens : books.pos[t].qty >= 0 /\ books.pos[t].cost >= 0
      /\ books.legacy >= 0
  BY DEF Spot!BooksType
<1>2. QED
  BY <1>1 DEF Spot!SpotInv, Spot!TypeOK, PlanType, CoinsType

\* ... and puts it together after a step.
LEMMA SpotThen ==
  ASSUME (/\ CoinsType /\ sales \in [Tokens -> Nat] /\ price \in [Tokens -> Prices]
          /\ plan \in PlanType /\ books \in Spot!BooksType /\ windfall \in Nat
          /\ Spot!OrderFits /\ Spot!BooksAddUp /\ Spot!BooksAreBacked)'
  PROVE  Spot!SpotInv'
<1>1. (/\ \A t \in Tokens : books.pos[t].qty >= 0 /\ books.pos[t].cost >= 0
       /\ books.legacy >= 0)'
  BY DEF Spot!BooksType
<1>2. QED
  BY <1>1 DEF Spot!SpotInv, Spot!TypeOK, PlanType, CoinsType

\* What the books claim of a coin, the sales booked and what backs the claim.
LEMMA ClaimIs ==
  ASSUME Spot!SpotAssumptions, Spot!SpotInv, NEW t \in Tokens
  PROVE  /\ books.pos[t].qty \in Nat /\ Backing(t) \in Nat
         /\ (Step \div 2) * sales[t] \in Nat
         /\ books.pos[t].qty <= Backing(t) + (Step \div 2) * sales[t]
<1>1. books.pos[t].qty \in Nat
  BY SpotHas DEF Spot!BooksType
<1>2. Backing(t) \in Nat
  BY SpotHas DEF Backing, CoinsType
<1>3. (Step \div 2) * sales[t] \in Nat
  <2> DEFINE h == Step \div 2
             n == sales[t]
  <2>1. h \in Nat /\ n \in Nat
    BY SpotHas
  <2> HIDE DEF h, n
  <2>2. h * n \in Nat
    BY <2>1
  <2>3. QED
    BY <2>2 DEF h, n
<1>4. books.pos[t].qty <= wallet[t] + due[t] + missed[t] + (Step \div 2) * sales[t]
  BY SpotHas DEF Spot!BooksAreBacked
<1>5. QED
  BY <1>1, <1>2, <1>3, <1>4 DEF Backing

\* The books stay as they are.
LEMMA BooksStay ==
  ASSUME Spot!SpotAssumptions, Spot!SpotInv, UNCHANGED <<books, windfall, sales>>,
         CoinsType', price' \in [Tokens -> Prices], plan' \in PlanType, Spot!OrderFits',
         \A t \in Tokens : Backing(t) <= Backing(t)'
  PROVE  Spot!SpotInv'
<1>1. Spot!BooksAddUp'
  BY SpotHas DEF Spot!BooksAddUp, Spot!Basis
<1>2. Spot!BooksAreBacked'
  <2> SUFFICES ASSUME NEW t \in Tokens
               PROVE  books.pos[t].qty <= Backing(t)' + (Step \div 2) * sales[t]
    BY DEF Spot!BooksAreBacked, Backing
  <2>1. Backing(t)' \in Nat
    BY DEF Backing, CoinsType
  <2>2. Backing(t) <= Backing(t)'
    OBVIOUS
  <2> DEFINE r == (Step \div 2) * sales[t]
             b == Backing(t)
             c == Backing(t)'
  <2>3. r \in Nat /\ b \in Nat /\ books.pos[t].qty \in Nat /\ books.pos[t].qty <= b + r
    BY ClaimIs
  <2> HIDE DEF r, b, c
  <2>4. books.pos[t].qty <= c + r
    BY <2>1, <2>2, <2>3 DEF b, c
  <2>5. QED
    BY <2>4 DEF r, c
<1>3. books' \in Spot!BooksType /\ windfall' \in Nat /\ sales' \in [Tokens -> Nat]
  BY SpotHas
<1>4. QED
  BY <1>1, <1>2, <1>3, SpotThen

\* ... and the coins too: the plan, the prices and the stage move.
LEMMA AllStays ==
  ASSUME Spot!SpotAssumptions, Spot!SpotInv,
         UNCHANGED <<wallet, cash, due, offered, books, windfall, sales, missed>>,
         price' \in [Tokens -> Prices], plan' \in PlanType, Spot!OrderFits'
  PROVE  Spot!SpotInv'
<1>1. CoinsType'
  BY SpotHas DEF CoinsType
<1>2. \A t \in Tokens : Backing(t) \in Nat /\ Backing(t)' = Backing(t)
  BY ClaimIs DEF Backing
<1>3. QED
  BY <1>1, <1>2, BooksStay

\* A buy that the exchange takes: its coins are due.
LEMMA BuyTaken ==
  ASSUME CoinsType, NEW t \in Tokens, NEW q \in Nat, NEW px \in Nat,
         Spot!AcceptBuy(t, q, px), UNCHANGED missed
  PROVE  /\ CoinsType' /\ Backing(t)' = Backing(t) + q
         /\ \A u \in Tokens \ {t} : Backing(u)' = Backing(u)
<1>1. Paid(q, px) \in Nat /\ Paid(q, px) <= cash /\ cash' = cash - Paid(q, px)
  BY DEF Paid, Spot!AcceptBuy
<1>2. cash' \in Nat
  BY <1>1 DEF CoinsType
<1>3. UNCHANGED <<wallet, offered, missed>> /\ due' = [due EXCEPT ![t] = @ + q]
  BY DEF Spot!AcceptBuy
<1>4. QED
  BY <1>2, <1>3 DEF CoinsType, Backing

\* A sale that it takes: its coins are frozen.
LEMMA SaleTaken ==
  ASSUME Spot!SpotAssumptions, CoinsType, NEW t \in Tokens, NEW q \in Nat,
         Spot!AcceptSale(t, q)
  PROVE  /\ wallet' \in [Tokens -> Nat] /\ offered' \in [Tokens -> Nat]
         /\ UNCHANGED <<cash, due>>
         /\ wallet' = [wallet EXCEPT ![t] = @ - Spot!Rounded(q)]
BY RoundedIs DEF CoinsType, Spot!AcceptSale

\* A sale that nobody books backs the claim to its coins.
LEMMA SaleLost ==
  ASSUME Spot!SpotAssumptions, CoinsType, NEW t \in Tokens, NEW q \in Nat,
         Spot!LoseSale(t, q)
  PROVE  CoinsType' /\ \A u \in Tokens : Backing(u)' = Backing(u)
<1>1. /\ wallet' \in [Tokens -> Nat] /\ offered' \in [Tokens -> Nat]
      /\ UNCHANGED <<cash, due>>
      /\ wallet' = [wallet EXCEPT ![t] = @ - Spot!Rounded(q)]
      /\ missed' = [missed EXCEPT ![t] = @ + Spot!Rounded(q)]
  BY SaleTaken DEF Spot!LoseSale
<1>2. Spot!Rounded(q) \in Nat
  BY RoundedIs
<1>3. QED
  BY <1>1, <1>2 DEF CoinsType, Backing

\* An order whose answer nobody hears.
LEMMA LostFits ==
  ASSUME Spot!SpotAssumptions, Spot!SpotInv, Spot!Lost
  PROVE  CoinsType' /\ \A u \in Tokens : Backing(u) <= Backing(u)'
<1>1. CoinsType /\ \A u \in Tokens : Backing(u) \in Nat
  BY SpotHas, ClaimIs
<1>2. CASE UNCHANGED <<Spot!balances, missed>>
  <2>1. UNCHANGED <<wallet, cash, due, offered, missed>>
    BY <1>2 DEF Spot!balances
  <2>2. QED
    BY <1>1, <2>1 DEF CoinsType, Backing
<1>3. CASE /\ order.kind = "buy"
           /\ Spot!AcceptBuy(order.token, order.qty, order.px)
           /\ UNCHANGED missed
  <2> DEFINE t == order.token
             q == order.qty
             px == order.px
  <2>1. t \in Tokens /\ q \in Nat /\ px \in Nat
    BY <1>3, SpotHas, KindTells DEF BuyOrder
  <2>2. Spot!AcceptBuy(t, q, px) /\ UNCHANGED missed
    BY <1>3
  <2> HIDE DEF t, q, px
  <2>3. CoinsType' /\ \A u \in Tokens : IF u = t THEN Backing(u)' = Backing(u) + q
                                        ELSE Backing(u)' = Backing(u)
    BY <1>1, <2>1, <2>2, BuyTaken
  <2>4. ASSUME NEW u \in Tokens PROVE Backing(u) <= Backing(u)'
    <3> DEFINE a == Backing(u)
               b == Backing(u)'
    <3>1. a \in Nat /\ q \in Nat
      BY <1>1, <2>1
    <3>2. b = a \/ b = a + q
      BY <2>3
    <3> HIDE DEF a, b
    <3>3. a <= b
      BY <3>1, <3>2
    <3>4. QED
      BY <3>3 DEF a, b
  <2>5. QED
    BY <2>3, <2>4
<1>4. CASE order.kind = "sell" /\ Spot!LoseSale(order.token, order.qty)
  <2>1. order.token \in Tokens /\ order.qty \in Nat
    BY <1>4, SpotHas, KindTells DEF SellOrder
  <2>2. CoinsType' /\ \A u \in Tokens : Backing(u)' = Backing(u)
    BY <1>1, <1>4, <2>1, SaleLost
  <2>3. QED
    BY <1>1, <2>2
<1>5. CASE \E t \in Tokens : order.kind = "wind" /\ Spot!LoseSale(t, order.qty[t])
  <2>1. PICK t \in Tokens : order.kind = "wind" /\ Spot!LoseSale(t, order.qty[t])
    BY <1>5
  <2>2. order.qty[t] \in Nat
    BY <2>1, SpotHas, KindTells DEF WindOrder
  <2>3. CoinsType' /\ \A u \in Tokens : Backing(u)' = Backing(u)
    BY <1>1, <2>1, <2>2, SaleLost
  <2>4. QED
    BY <1>1, <2>3
<1>6. QED
  BY <1>2, <1>3, <1>4, <1>5 DEF Spot!Lost

\* A new plan, or the one that is kept.
LEMMA PlansFit ==
  ASSUME Spot!SpotAssumptions, Spot!SpotInv, NEW target \in 1 .. Quota
  PROVE  Spot!NewPlan(target) \in PlanType /\ Spot!PlanAtStart(target) \in PlanType
<1>1. Quota \in Nat /\ Ceiling \in Nat /\ plan \in PlanType
  BY SpotHas
<1>2. Spot!NewPlan(target) \in PlanType
  BY <1>1 DEF Spot!NewPlan, PlanType
<1>3. QED
  BY <1>1, <1>2 DEF Spot!PlanAtStart

\* Restarts, lost plans and orders without an answer.
LEMMA StepLost ==
  ASSUME Spot!SpotAssumptions, Spot!SpotInv,
         \/ \E target \in 1 .. Quota : Spot!Restart(target) \/ Spot!LosePlan(target)
         \/ Spot!NotOk
  PROVE  Spot!SpotInv'
<1>1. Spot!Lost /\ order' = Spot!NoOrder /\ UNCHANGED <<price, books, windfall, sales>>
  BY DEF Spot!Restart, Spot!LosePlan, Spot!NotOk
<1>2. plan' \in PlanType
  BY PlansFit, SpotHas DEF Spot!Restart, Spot!LosePlan, Spot!NotOk
<1>3. price' \in [Tokens -> Prices]
  BY <1>1, SpotHas
<1>4. Spot!OrderFits'
  BY <1>1, FitsAfter
<1>5. QED
  BY <1>1, <1>2, <1>3, <1>4, LostFits, BooksStay

\* A resting order fills, in part or in full.
LEMMA StepFill ==
  ASSUME Spot!SpotAssumptions, Spot!SpotInv, NEW t \in Tokens,
         \/ \E n \in Spot!Lots(due[t]) : Spot!FillBuy(t, n)
         \/ \E n \in Spot!Lots(offered[t]) : Spot!FillSale(t, n)
  PROVE  Spot!SpotInv'
<1>1. /\ CoinsType /\ Step \in Nat /\ due[t] \in Nat /\ offered[t] \in Nat
      /\ \A u \in Tokens : Backing(u) \in Nat
  BY SpotHas, ClaimIs DEF CoinsType
<1>2. ASSUME NEW n \in Spot!Lots(due[t]), Spot!FillBuy(t, n) PROVE Spot!SpotInv'
  <2>1. n \in Nat /\ n <= due[t]
    BY <1>1 DEF Spot!Lots
  <2>2. /\ due' = [due EXCEPT ![t] = @ - n] /\ wallet' = [wallet EXCEPT ![t] = @ + n]
        /\ UNCHANGED <<cash, offered, price, plan, books, order, sales, missed, windfall>>
    BY <1>2 DEF Spot!FillBuy, Spot!history
  <2>3. CoinsType' /\ \A u \in Tokens : Backing(u)' = Backing(u)
    BY <1>1, <2>1, <2>2 DEF CoinsType, Backing
  <2>4. Spot!OrderFits'
    BY <2>2, SpotHas DEF Spot!OrderFits
  <2>5. QED
    BY <1>1, <2>2, <2>3, <2>4, SpotHas, BooksStay
<1>3. ASSUME NEW n \in Spot!Lots(offered[t]), Spot!FillSale(t, n) PROVE Spot!SpotInv'
  <2>1. n \in Nat /\ n <= offered[t]
    BY <1>1 DEF Spot!Lots
  <2>2. /\ offered' = [offered EXCEPT ![t] = @ - n] /\ cash' = cash + n * price[t]
        /\ UNCHANGED <<wallet, due, price, plan, books, order, sales, missed, windfall>>
    BY <1>3 DEF Spot!FillSale, Spot!history
  <2>3. n * price[t] \in Nat
    <3>1. price[t] \in Nat
      BY SpotHas, ValuesAdd DEF CoinsType
    <3>2. QED
      BY <2>1, <3>1
  <2>4. cash' \in Nat
    BY <1>1, <2>2, <2>3 DEF CoinsType
  <2>5. CoinsType' /\ \A u \in Tokens : Backing(u)' = Backing(u)
    BY <1>1, <2>1, <2>2, <2>4 DEF CoinsType, Backing
  <2>6. Spot!OrderFits'
    BY <2>2, SpotHas DEF Spot!OrderFits
  <2>7. QED
    BY <1>1, <2>2, <2>5, <2>6, SpotHas, BooksStay
<1>4. QED
  BY <1>2, <1>3

\* Orders are sent.
LEMMA StepSendBuy ==
  ASSUME Spot!SpotAssumptions, Spot!SpotInv, NEW t \in Tokens, NEW usdt \in OrderSizes,
         Spot!SendBuy(t, usdt)
  PROVE  Spot!SpotInv'
<1>1. /\ plan.spent + usdt <= Ceiling
      /\ UNCHANGED <<wallet, cash, due, offered, price, plan, books, sales, missed, windfall>>
      /\ order' = [kind |-> "buy", token |-> t, qty |-> Spot!Rounded(usdt \div price[t]),
                   px |-> price[t], usdt |-> usdt]
  BY DEF Spot!SendBuy, Spot!Send, Spot!market, Spot!balances
<1>2. usdt \in Nat /\ price[t] \in Nat /\ price[t] > 0
  <2>1. \A x \in OrderSizes : x \in Nat
    BY DEF Spot!SpotAssumptions
  <2>2. QED
    BY <2>1, SpotHas, ValuesAdd DEF CoinsType
<1>3. Spot!Rounded(usdt \div price[t]) \in Nat
  BY <1>2, Share, RoundedIs
<1>4. order' \in BuyOrder /\ plan'.spent + order'.usdt <= Ceiling
  BY <1>1, <1>2, <1>3 DEF BuyOrder
<1>5. Spot!OrderFits'
  BY <1>4, FitsAfter
<1>6. QED
  BY <1>1, <1>5, SpotHas, AllStays

\* A sale is sent,
LEMMA StepSendSell ==
  ASSUME Spot!SpotAssumptions, Spot!SpotInv, NEW t \in Tokens, NEW q \in 1 .. wallet[t],
         Spot!SendSell(t, q)
  PROVE  Spot!SpotInv'
<1>1. /\ UNCHANGED <<wallet, cash, due, offered, price, plan, books, sales, missed, windfall>>
      /\ order' = [kind |-> "sell", token |-> t, qty |-> q, px |-> price[t]]
  BY DEF Spot!SendSell, Spot!Send, Spot!market, Spot!balances
<1>2. price[t] \in Nat /\ q \in Nat
  BY SpotHas, ValuesAdd DEF CoinsType
<1>3. order' \in SellOrder
  BY <1>1, <1>2 DEF SellOrder
<1>4. Spot!OrderFits'
  BY <1>3, FitsAfter
<1>5. QED
  BY <1>1, <1>4, SpotHas, AllStays

\* ... and the sales of a wind-down.
LEMMA StepStartWindDown ==
  ASSUME Spot!SpotAssumptions, Spot!SpotInv, NEW keep \in Spot!Keeps,
         Spot!StartWindDown(keep)
  PROVE  Spot!SpotInv'
<1>1. /\ UNCHANGED <<wallet, cash, due, offered, price, plan, books, sales, missed, windfall>>
      /\ order' = [kind |-> "wind", qty |-> [t \in Tokens |-> Spot!ToSell(t, keep)], px |-> price]
      /\ Spot!Selling(keep)
  BY DEF Spot!StartWindDown, Spot!Send, Spot!market, Spot!balances
<1>2. keep \in {0, 1, 2}
  BY DEF Spot!Keeps
<1>3. \A t \in Tokens : Spot!ToSell(t, keep) \in Nat
  BY <1>1, <1>2, SpotHas, PassFits DEF CoinsType
<1>4. price \in [Tokens -> Nat]
  BY SpotHas, ValuesAdd DEF CoinsType
<1>5. order' \in WindOrder
  BY <1>1, <1>3, <1>4 DEF WindOrder
<1>6. Spot!OrderFits'
  BY <1>5, FitsAfter
<1>7. QED
  BY <1>1, <1>6, SpotHas, AllStays

\* A purchase is answered,
LEMMA StepBought ==
  ASSUME Spot!SpotAssumptions, Spot!SpotInv, Spot!Bought
  PROVE  Spot!SpotInv'
<1> DEFINE t == order.token
           q == Spot!Credited(order)
           px == order.px
<1>1. /\ order.kind = "buy" /\ order' = Spot!NoOrder
      /\ plan' = [plan EXCEPT !.buys = @ + 1, !.spent = @ + order.usdt]
      /\ books' = Spot!RecordBuy(books, t, q, px)
      /\ UNCHANGED <<price, sales, windfall>>
  BY DEF Spot!Bought
<1>2. order \in BuyOrder /\ plan.spent + order.usdt <= Ceiling
  BY <1>1, SpotHas, KindTells
<1>3. /\ t \in Tokens /\ px \in Nat /\ px > 0 /\ order.usdt \in Nat /\ order.qty \in Nat
      /\ plan.spent + order.usdt <= Ceiling
  BY <1>2 DEF BuyOrder
<1>4. q \in Nat /\ (order.qty > 0 => q = order.qty)
  BY <1>3, Share DEF Spot!Credited
<1>5. CoinsType' /\ \A u \in Tokens : IF u = t THEN Backing(u)' = Backing(u) + q
                                      ELSE Backing(u)' = Backing(u)
  <2>1. CASE Spot!AcceptBuy(t, order.qty, px) /\ UNCHANGED missed
    <3>1. q = order.qty
      BY <1>3, <1>4, <2>1 DEF Spot!AcceptBuy
    <3> HIDE DEF t, q, px
    <3>2. QED
      BY <1>3, <2>1, <3>1, SpotHas, BuyTaken
  <2>2. CASE /\ UNCHANGED Spot!balances
             /\ missed' = [missed EXCEPT ![t] = @ + q]
    <3>1. UNCHANGED <<wallet, cash, due, offered>>
      BY <2>2 DEF Spot!balances
    <3> HIDE DEF t, q, px
    <3>2. QED
      BY <1>3, <1>4, <2>2, <3>1, SpotHas DEF CoinsType, Backing
  <2>3. QED
    BY <2>1, <2>2 DEF Spot!Bought
<1>6. plan' \in PlanType
  <2>1. /\ plan \in PlanType /\ plan.buys \in Nat /\ plan.spent \in 0 .. Ceiling
        /\ Ceiling \in Nat
    BY SpotHas DEF PlanType
  <2>2. plan.buys + 1 \in Nat /\ plan.spent + order.usdt \in 0 .. Ceiling
    BY <1>3, <2>1
  <2>3. plan' = [plan EXCEPT !.buys = plan.buys + 1, !.spent = plan.spent + order.usdt]
    BY <1>1, <2>1 DEF PlanType
  <2> DEFINE nb == plan.buys + 1
             ns == plan.spent + order.usdt
  <2>4. nb \in Nat /\ ns \in 0 .. Ceiling /\ plan' = [plan EXCEPT !.buys = nb, !.spent = ns]
    BY <2>2, <2>3
  <2> HIDE DEF nb, ns
  <2>5. QED
    BY <2>1, <2>4 DEF PlanType
<1> HIDE DEF t, q, px
<1>7. books' \in Spot!BooksType /\ Spot!BooksAddUp'
  BY <1>1, <1>3, <1>4, SpotHas, BuyAddsUp
<1>8. Spot!BooksAreBacked'
  <2>0. PICK c : c = books'
    OBVIOUS
  <2>1. BuyBooks(books, t, q, px, c)
    BY <1>1, <1>3, <1>4, <2>0, SpotHas, BuyIsBooked
  <2>2. /\ \A u \in Tokens \ {t} : c.pos[u] = books.pos[u]
        /\ c.pos[t].qty = books.pos[t].qty + q
    BY <2>1 DEF BuyBooks
  <2> SUFFICES ASSUME NEW u \in Tokens
               PROVE  c.pos[u].qty <= Backing(u)' + (Step \div 2) * sales[u]
    BY <1>1, <2>0 DEF Spot!BooksAreBacked, Backing
  <2> DEFINE r == (Step \div 2) * sales[u]
             a == Backing(u)
             b == Backing(u)'
  <2>3. r \in Nat /\ a \in Nat /\ books.pos[u].qty \in Nat /\ books.pos[u].qty <= a + r
    BY ClaimIs
  <2>4. IF u = t THEN b = a + q ELSE b = a
    BY <1>5
  <2> HIDE DEF r, a, b
  <2>5. c.pos[u].qty <= b + r
    <3>1. CASE u = t
      BY <1>4, <2>2, <2>3, <2>4, <3>1
    <3>2. CASE u # t
      BY <2>2, <2>3, <2>4, <3>2
    <3>3. QED
      BY <3>1, <3>2
  <2>6. QED
    BY <2>5 DEF r, b
<1>9. Spot!OrderFits'
  BY <1>1, FitsAfter
<1>10. QED
  BY <1>1, <1>5, <1>6, <1>7, <1>8, <1>9, SpotHas, SpotThen

\* ... and so is a sale.
LEMMA SaleFits ==
  ASSUME Spot!SpotAssumptions, Spot!SpotInv, NEW t \in Tokens, NEW q \in Nat,
         NEW px \in Nat, Spot!Booked(t, q, px), missed' = missed
  PROVE  /\ CoinsType' /\ sales' \in [Tokens -> Nat]
         /\ books' \in Spot!BooksType /\ windfall' \in Nat /\ Spot!BooksAddUp'
         /\ Spot!BooksAreBacked'
<1> DEFINE h == Step \div 2
<1>1. /\ books' = Spot!RecordSell(books, t, q, px)
      /\ sales' = [sales EXCEPT ![t] = @ + 1]
      /\ windfall' = windfall + Spot!Above0(Spot!Rest(books, t, q, px) - books.legacy)
      /\ Spot!AcceptSale(t, q) \/ UNCHANGED Spot!balances
  BY DEF Spot!Booked
<1>2. sales \in [Tokens -> Nat] /\ sales' \in [Tokens -> Nat] /\ h \in Nat
  BY <1>1, SpotHas
<1>3. Spot!Rounded(q) \in Nat /\ Spot!Rounded(q) <= q + h
  BY RoundedIs
<1> HIDE DEF h
<1>4. /\ CoinsType' /\ \A u \in Tokens \ {t} : Backing(u)' = Backing(u)
      /\ Backing(t)' = Backing(t) \/ Backing(t)' = Backing(t) - Spot!Rounded(q)
  <2>1. CASE Spot!AcceptSale(t, q)
    <3>1. /\ wallet' \in [Tokens -> Nat] /\ offered' \in [Tokens -> Nat]
          /\ UNCHANGED <<cash, due>>
          /\ wallet' = [wallet EXCEPT ![t] = @ - Spot!Rounded(q)]
      BY <2>1, SpotHas, SaleTaken
    <3>2. QED
      BY <1>3, <3>1, SpotHas DEF CoinsType, Backing
  <2>2. CASE UNCHANGED Spot!balances
    <3>1. UNCHANGED <<wallet, cash, due, offered>>
      BY <2>2 DEF Spot!balances
    <3>2. QED
      BY <3>1, SpotHas DEF CoinsType, Backing
  <2>3. QED
    BY <1>1, <2>1, <2>2
<1>5. books' \in Spot!BooksType /\ windfall' \in Nat /\ Spot!BooksAddUp'
  BY <1>1, SpotHas, SaleAddsUp
<1>6. Spot!BooksAreBacked'
  <2>0. PICK c : c = books'
    OBVIOUS
  <2>1. SaleBooks(books, t, q, px, c)
    BY <1>1, <2>0, SpotHas, SaleIsBooked
  <2>2. /\ \A u \in Tokens \ {t} : c.pos[u] = books.pos[u]
        /\ c.pos[t].qty = books.pos[t].qty - Spot!Known(books, t, q)
    BY <2>1 DEF SaleBooks
  <2>3. /\ Spot!Known(books, t, q) \in Nat
        /\ Spot!Known(books, t, q) = q \/ Spot!Known(books, t, q) = books.pos[t].qty
    BY SpotHas, KnownPart
  <2> SUFFICES ASSUME NEW u \in Tokens PROVE c.pos[u].qty <= Backing(u)' + h * sales'[u]
    BY <2>0 DEF Spot!BooksAreBacked, Backing, h
  <2> DEFINE r == h * sales[u]
             s == h * sales'[u]
             a == Backing(u)
             b == Backing(u)'
             k == Spot!Known(books, t, q)
             m == Spot!Rounded(q)
  <2>4. r \in Nat /\ a \in Nat /\ books.pos[u].qty \in Nat /\ books.pos[u].qty <= a + r
    BY ClaimIs DEF h
  <2>5. b \in Nat
    BY <1>4 DEF CoinsType, Backing
  <2>6. CASE u = t
    <3>1. s = r + h
      <4> DEFINE n == sales[t]
      <4>1. n \in Nat /\ sales'[t] = n + 1
        BY <1>1, <1>2
      <4> HIDE DEF n
      <4>2. h * (n + 1) = h * n + h
        BY <1>2, <4>1
      <4>3. QED
        BY <2>6, <4>1, <4>2 DEF n
    <3>2. b = a \/ b = a - m
      BY <1>4, <2>6
    <3>3. /\ c.pos[u].qty = books.pos[u].qty - k
          /\ k = q \/ k = books.pos[u].qty
      BY <2>2, <2>3, <2>6
    <3> HIDE DEF r, s, a, b, k
    <3>4. m \in Nat /\ m <= q + h
      BY <1>3
    <3> HIDE DEF m
    <3>5. c.pos[u].qty <= b + s
      BY <1>2, <2>4, <2>5, <3>1, <3>2, <3>3, <3>4
    <3>6. QED
      BY <3>5 DEF s, b
  <2>7. CASE u # t
    <3>1. sales'[u] = sales[u] /\ b = a /\ c.pos[u].qty = books.pos[u].qty
      BY <1>1, <1>2, <1>4, <2>2, <2>7
    <3>2. s = r
      BY <3>1
    <3> HIDE DEF r, s, a, b
    <3>3. c.pos[u].qty <= b + s
      BY <2>4, <3>1, <3>2
    <3>4. QED
      BY <3>3 DEF s, b
  <2>8. QED
    BY <2>6, <2>7
<1>7. QED
  BY <1>2, <1>4, <1>5, <1>6

\* A sale is answered.
LEMMA StepSold ==
  ASSUME Spot!SpotAssumptions, Spot!SpotInv, Spot!Sold
  PROVE  Spot!SpotInv'
<1>1. /\ order.kind = "sell" /\ order' = Spot!NoOrder /\ UNCHANGED <<price, missed>>
      /\ Spot!Booked(order.token, order.qty, order.px)
      /\ plan' = [plan EXCEPT !.sells = @ + 1, !.spent = Spot!Above0(@ - order.qty * order.px)]
  BY DEF Spot!Sold
<1>2. order \in SellOrder
  BY <1>1, SpotHas, KindTells
<1>3. order.token \in Tokens /\ order.qty \in Nat /\ order.px \in Nat
  BY <1>2 DEF SellOrder
<1>4. plan' \in PlanType
  <2> DEFINE c == order.qty * order.px
             s == Spot!Above0(plan.spent - c)
  <2>1. c \in Nat
    BY <1>3
  <2>2. plan \in PlanType /\ plan.spent \in 0 .. Ceiling /\ Ceiling \in Nat
    BY SpotHas DEF PlanType
  <2> HIDE DEF c
  <2>3. s \in 0 .. Ceiling
    BY <2>1, <2>2 DEF Spot!Above0
  <2> DEFINE ns == plan.sells + 1
  <2>4. plan' = [plan EXCEPT !.sells = ns, !.spent = s] /\ ns \in Nat
    BY <1>1, <2>2 DEF c, PlanType
  <2> HIDE DEF s, ns
  <2>5. QED
    BY <2>2, <2>3, <2>4 DEF PlanType
<1>5. Spot!OrderFits'
  BY <1>1, FitsAfter
<1>6. price' \in [Tokens -> Prices]
  BY <1>1, SpotHas
<1>7. /\ CoinsType' /\ sales' \in [Tokens -> Nat]
      /\ books' \in Spot!BooksType /\ windfall' \in Nat /\ Spot!BooksAddUp'
      /\ Spot!BooksAreBacked'
  BY <1>1, <1>3, SaleFits
<1>8. QED
  BY <1>4, <1>5, <1>6, <1>7, SpotThen

\* One coin of a pass is sold, or not.
LEMMA StepWind ==
  ASSUME Spot!SpotAssumptions, Spot!SpotInv, NEW t \in Tokens,
         Spot!WindSold(t) \/ Spot!WindNotOk(t)
  PROVE  Spot!SpotInv'
<1>1. /\ order.kind = "wind" /\ order' = [order EXCEPT !.qty[t] = 0]
      /\ UNCHANGED <<price, plan>>
  BY DEF Spot!WindSold, Spot!WindNotOk, Spot!Wind
<1>2. order \in WindOrder
  BY <1>1, SpotHas, KindTells
<1>3. order.qty[t] \in Nat /\ order.px[t] \in Nat
  BY <1>2 DEF WindOrder
<1>4. order' \in WindOrder
  BY <1>1, <1>2 DEF WindOrder
<1>5. Spot!OrderFits'
  BY <1>4, FitsAfter
<1>6. price' \in [Tokens -> Prices] /\ plan' \in PlanType
  BY <1>1, SpotHas
<1>7. CASE Spot!WindSold(t)
  <2>1. Spot!Booked(t, order.qty[t], order.px[t]) /\ missed' = missed
    BY <1>7 DEF Spot!WindSold
  <2>2. /\ CoinsType' /\ sales' \in [Tokens -> Nat]
        /\ books' \in Spot!BooksType /\ windfall' \in Nat /\ Spot!BooksAddUp'
        /\ Spot!BooksAreBacked'
    BY <1>3, <2>1, SaleFits
  <2>3. QED
    BY <1>5, <1>6, <2>2, SpotThen
<1>8. CASE Spot!WindNotOk(t)
  <2>1. /\ UNCHANGED <<books, sales, windfall>>
        /\ UNCHANGED <<Spot!balances, missed>> \/ Spot!LoseSale(t, order.qty[t])
    BY <1>8 DEF Spot!WindNotOk
  <2>2. CASE UNCHANGED <<Spot!balances, missed>>
    <3>1. UNCHANGED <<wallet, cash, due, offered, missed>>
      BY <2>2 DEF Spot!balances
    <3>2. QED
      BY <1>5, <1>6, <2>1, <3>1, AllStays
  <2>3. CASE Spot!LoseSale(t, order.qty[t])
    <3>1. CoinsType' /\ \A u \in Tokens : Backing(u)' = Backing(u)
      BY <1>3, <2>3, SpotHas, SaleLost
    <3>2. \A u \in Tokens : Backing(u) <= Backing(u)'
      BY <3>1, ClaimIs
    <3>3. QED
      BY <1>5, <1>6, <2>1, <3>1, <3>2, BooksStay
  <2>4. QED
    BY <2>1, <2>2, <2>3
<1>9. QED
  BY <1>7, <1>8

\* What leaves the money alone.
LEMMA StepAround ==
  ASSUME Spot!SpotAssumptions, Spot!SpotInv,
         \/ Spot!WindDone \/ Spot!Advance \/ Spot!Midnight
         \/ \E target \in 1 .. Quota : Spot!RollDay(target)
         \/ \E t \in Tokens : Spot!PriceMoves(t)
         \/ UNCHANGED Spot!vars
  PROVE  Spot!SpotInv'
<1>1. CASE Spot!WindDone \/ Spot!Advance \/ UNCHANGED Spot!vars
  <2>1. /\ UNCHANGED <<wallet, cash, due, offered, books, windfall, sales, missed>>
        /\ UNCHANGED <<price, plan>> /\ order' \in {Spot!NoOrder, order}
    BY <1>1 DEF Spot!WindDone, Spot!Advance, Spot!market, Spot!balances, Spot!history,
       Spot!vars
  <2>2. Spot!OrderFits'
    BY <2>1, SpotHas DEF Spot!OrderFits
  <2>3. QED
    BY <2>1, <2>2, SpotHas, AllStays
<1>2. CASE Spot!Midnight
  <2>1. /\ UNCHANGED <<wallet, cash, due, offered, books, windfall, sales, missed>>
        /\ UNCHANGED <<price, order>> /\ plan' = [plan EXCEPT !.today = FALSE]
    BY <1>2 DEF Spot!Midnight, Spot!market, Spot!balances
  <2>2. plan' \in PlanType /\ plan'.spent = plan.spent
    BY <2>1, SpotHas DEF PlanType
  <2>3. Spot!OrderFits'
    BY <2>1, <2>2, SpotHas DEF Spot!OrderFits
  <2>4. QED
    BY <2>1, <2>2, <2>3, SpotHas, AllStays
<1>3. ASSUME NEW target \in 1 .. Quota, Spot!RollDay(target) PROVE Spot!SpotInv'
  <2>1. /\ UNCHANGED <<wallet, cash, due, offered, books, windfall, sales, missed>>
        /\ UNCHANGED <<price, order>>
        /\ plan' = Spot!NewPlan(target) /\ order.kind = "none"
    BY <1>3 DEF Spot!RollDay, Spot!market, Spot!balances, Spot!history, Spot!Free
  <2>2. order' = Spot!NoOrder
    BY <2>1, SpotHas, KindTells
  <2>3. Spot!OrderFits'
    BY <2>2, FitsAfter
  <2>4. QED
    BY <2>1, <2>3, SpotHas, PlansFit, AllStays
<1>4. ASSUME NEW t \in Tokens, Spot!PriceMoves(t) PROVE Spot!SpotInv'
  <2>1. /\ UNCHANGED <<wallet, cash, due, offered, books, windfall, sales, missed>>
        /\ UNCHANGED <<plan, order>>
        /\ \E p \in Prices : price' = [price EXCEPT ![t] = p]
    BY <1>4 DEF Spot!PriceMoves, Spot!balances
  <2>2. price' \in [Tokens -> Prices]
    BY <2>1, SpotHas
  <2>3. Spot!OrderFits'
    BY <2>1, SpotHas DEF Spot!OrderFits
  <2>4. QED
    BY <2>1, <2>2, <2>3, SpotHas, AllStays
<1>5. QED
  BY <1>1, <1>2, <1>3, <1>4

\* Books that are opened anew: nothing is in them, nothing was earned.
LEMMA NewBooks ==
  ASSUME Spot!SpotAssumptions, NEW flow \in Int, NEW debt \in Nat, flow + debt = 0
  PROVE  /\ Spot!Migrated(flow) \in Spot!BooksType /\ Spot!Migrated(flow).flow = flow
         /\ Spot!Migrated(flow).pnl = 0 /\ Spot!Migrated(flow).legacy = debt
         /\ Spot!Basis(Spot!Migrated(flow)) = 0
         /\ \A t \in Tokens : Spot!Migrated(flow).pos[t].qty = 0
         /\ debt = 0 => Spot!Migrated(flow) = Spot!NoBooks
<1>1. Spot!Above0(-flow) = debt
  <2>1. -flow = debt /\ (debt > 0 \/ debt = 0)
    OBVIOUS
  <2>2. QED
    BY <2>1 DEF Spot!Above0
<1>2. Spot!Migrated(flow) = [pos |-> [t \in Tokens |-> Spot!NoPosition], flow |-> flow, pnl |-> 0,
                        legacy |-> debt]
  <2>1. Spot!Migrated(flow) = [Spot!NoBooks EXCEPT !.flow = flow, !.legacy = debt]
    BY <1>1 DEF Spot!Migrated
  <2>2. QED
    BY <2>1 DEF Spot!NoBooks
<1>3. Spot!NoPosition \in [qty : Nat, cost : Nat] /\ Spot!NoPosition.cost = 0 /\ Spot!NoPosition.qty = 0
  BY DEF Spot!NoPosition
<1>4. Spot!Migrated(flow) \in Spot!BooksType
  BY <1>1, <1>2, <1>3 DEF Spot!BooksType
<1>5. \A t \in Tokens : Spot!Migrated(flow).pos[t] = Spot!NoPosition
  BY <1>2
<1>6. Spot!Basis(Spot!Migrated(flow)) = 0
  <2> DEFINE f == [t \in Tokens |-> Spot!Migrated(flow).pos[t].cost]
  <2>1. \A t \in Tokens : f[t] = 0
    BY <1>3, <1>5
  <2>2. Spot!Basis(Spot!Migrated(flow)) = SumFunctionOnSet(f, Tokens)
    BY TotalIs DEF Spot!Basis
  <2>3. IsFiniteSet(Tokens)
    BY SpotCoins
  <2> HIDE DEF f
  <2>4. QED
    BY <2>1, <2>2, <2>3, SumOfZeros
<1>7. debt = 0 => Spot!Migrated(flow) = Spot!NoBooks
  BY <1>2 DEF Spot!NoBooks
<1>8. QED
  BY <1>2, <1>3, <1>4, <1>5, <1>6, <1>7

\* A new campaign.
LEMMA StepStartCampaign ==
  ASSUME Spot!SpotAssumptions, Spot!SpotInv, NEW target \in 1 .. Quota,
         Spot!StartCampaign(target)
  PROVE  Spot!SpotInv'
<1>1. /\ books' = Spot!NoBooks /\ plan' = Spot!NewPlan(target) /\ windfall' = 0
      /\ sales' = Spot!None /\ missed' = Spot!None
      /\ UNCHANGED <<wallet, cash, due, offered, price, order>> /\ order.kind = "none"
  BY DEF Spot!StartCampaign, Spot!market, Spot!balances, Spot!Free
<1>2. /\ Spot!NoBooks \in Spot!BooksType /\ Spot!NoBooks.flow = 0 /\ Spot!NoBooks.pnl = 0
      /\ Spot!Basis(Spot!NoBooks) = 0 /\ \A t \in Tokens : Spot!NoBooks.pos[t].qty = 0
  <2>1. 0 \in Nat /\ 0 \in Int /\ 0 + 0 = 0
    OBVIOUS
  <2>2. Spot!NoBooks = Spot!Migrated(0)
    BY <2>1, NewBooks
  <2>3. QED
    BY <2>1, <2>2, NewBooks
<1>3. Spot!NoBooks.legacy = 0
  BY DEF Spot!NoBooks
<1>4. order' = Spot!NoOrder
  BY <1>1, SpotHas, KindTells
<1>5. Spot!OrderFits'
  BY <1>4, FitsAfter
<1>6. Spot!BooksAddUp'
  <2>1. Spot!NoBooks.flow + Spot!Basis(Spot!NoBooks) + Spot!NoBooks.legacy = Spot!NoBooks.pnl + 0
    BY <1>2, <1>3
  <2>2. QED
    BY <1>1, <2>1 DEF Spot!BooksAddUp, Spot!Basis
<1>7. CoinsType' /\ sales' \in [Tokens -> Nat]
  BY <1>1, SpotHas DEF CoinsType, Spot!None
<1>8. Spot!BooksAreBacked'
  <2> SUFFICES ASSUME NEW t \in Tokens
               PROVE  0 <= wallet'[t] + due'[t] + missed'[t] + (Step \div 2) * sales'[t]
    BY <1>1, <1>2 DEF Spot!BooksAreBacked
  <2>1. sales'[t] = 0 /\ wallet'[t] \in Nat /\ due'[t] \in Nat /\ missed'[t] \in Nat
    BY <1>1, <1>7 DEF CoinsType, Spot!None
  <2>2. Step \div 2 \in Nat
    BY SpotHas
  <2>3. QED
    BY <2>1, <2>2
<1>9. price' \in [Tokens -> Prices] /\ plan' \in PlanType /\ windfall' \in Nat
  BY <1>1, SpotHas, PlansFit
<1>10. QED
  BY <1>1, <1>2, <1>5, <1>6, <1>7, <1>8, <1>9, SpotThen

\* At the start nothing is bought.
LEMMA InitSpotInv ==
  ASSUME Spot!SpotAssumptions, Spot!Init PROVE Spot!SpotInv
<1>1. /\ wallet \in [Tokens -> {0, MinHold + 1}] /\ cash = Cash
      /\ due = Spot!None /\ offered = Spot!None
      /\ price \in {[t \in Tokens |-> p] : p \in Prices}
      /\ \E target \in 1 .. Quota : plan = Spot!NewPlan(target)
      /\ order = Spot!NoOrder /\ sales = Spot!None /\ missed = Spot!None /\ windfall = 0
  BY DEF Spot!Init
<1>2. /\ Cash \in Nat /\ MinHold \in Nat /\ Quota \in Nat /\ Ceiling \in Nat
      /\ Step \in Nat /\ Step > 0
  BY DEF Spot!SpotAssumptions
<1>3. PICK spent \in {0, MinHold} : books = Spot!Migrated(-spent)
  BY DEF Spot!Init
<1>4. spent \in Nat /\ -spent \in Int /\ (-spent) + spent = 0
  BY <1>2
<1>5. /\ books \in Spot!BooksType /\ books.flow = -spent /\ books.pnl = 0
      /\ books.legacy = spent /\ Spot!Basis(books) = 0
      /\ \A t \in Tokens : books.pos[t].qty = 0
  BY <1>3, <1>4, NewBooks
<1>6. Spot!BooksAddUp
  <2>1. books.flow + Spot!Basis(books) + books.legacy = books.pnl + windfall
    BY <1>1, <1>4, <1>5
  <2>2. QED
    BY <2>1 DEF Spot!BooksAddUp
<1>7. CoinsType /\ sales \in [Tokens -> Nat]
  BY <1>1, <1>2 DEF CoinsType, Spot!None
<1>8. Spot!BooksAreBacked
  <2> SUFFICES ASSUME NEW t \in Tokens
               PROVE  0 <= wallet[t] + due[t] + missed[t] + (Step \div 2) * sales[t]
    BY <1>5 DEF Spot!BooksAreBacked
  <2>1. sales[t] = 0 /\ wallet[t] \in Nat /\ due[t] \in Nat /\ missed[t] \in Nat
    BY <1>1, <1>7 DEF CoinsType, Spot!None
  <2>2. Step \div 2 \in Nat
    BY <1>2
  <2>3. QED
    BY <2>1, <2>2
<1>9. plan \in PlanType
  BY <1>1, <1>2 DEF Spot!NewPlan, PlanType
<1>10. price \in [Tokens -> Prices]
  BY <1>1
<1>11. Spot!OrderFits
  BY <1>1, FitsIs
<1>12. QED
  BY <1>1, <1>5, <1>6, <1>7, <1>8, <1>9, <1>10, <1>11, SpotNow

\* Every step keeps the invariant.
LEMMA StepSpotInv ==
  ASSUME Spot!SpotAssumptions, Spot!SpotInv, [Spot!Next]_(Spot!vars) PROVE Spot!SpotInv'
BY StepLost, StepFill, StepSendBuy, StepSendSell, StepStartWindDown, StepBought, StepSold,
   StepWind, StepAround, StepStartCampaign
   DEF Spot!Next

\* The books of the spot budget add up, and claim no coin but what is held, what
\* resting buys may bring and what the answers kept from them, up to rounding,
\* for any coins, prices, steps and amounts (record_spot_buy, record_spot_sell).
THEOREM SpotBooksAll ==
  ASSUME Spot!SpotAssumptions
  PROVE  Spot!Spec => []Spot!TypeOK /\ []Spot!BooksAddUp /\ []Spot!BooksAreBacked
<1>1. Spot!SpotInv => Spot!TypeOK /\ Spot!BooksAddUp /\ Spot!BooksAreBacked
  BY DEF Spot!SpotInv
<1>2. QED
  BY <1>1, InitSpotInv, StepSpotInv, PTL DEF Spot!Spec


=============================================================================
