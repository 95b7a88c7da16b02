------------------------------ MODULE DepthFeed ------------------------------
(***************************************************************************)
(* What the two public depth streams share (mexc_ws.py, binance_ws.py,     *)
(* orderbook.py), for one symbol: the exchange changes one level at a time *)
(* and numbers the changes; a connection delivers them in order; a         *)
(* snapshot asked over REST answers with the book of some version and is   *)
(* handled later; until then the changes are buffered.  Neither reaches    *)
(* all levels: a change of one that lies out of reach may go untold while  *)
(* the numbers stay intact (mexc_ws.py:461-465, binance_ws.py:550-557).    *)
(* A level of the book is represented by the change that gave it its size, *)
(* 0 for a level that is as at the beginning or that was cut off.  The     *)
(* clients differ in how they check the order of what they read: MexcDepth *)
(* and BinanceDepth.                                                       *)
(***************************************************************************)
EXTENDS Integers, Sequences, FiniteSetsExt

CONSTANTS
  Levels,       \* price levels
  Outer,        \* those that may lie out of reach of a message or a snapshot
  RESNAPS,      \* snapshots a symbol may ask for in a minute
  MaxVersion,   \* bound: changes of the exchange
  MaxFetches,   \* bound: snapshots on their way at once
  MaxDrops      \* bound: connections lost

DepthAssumptions ==
  /\ {RESNAPS, MaxVersion, MaxDrops} \subseteq Nat
  /\ MaxFetches \in Nat \ {0} /\ Outer \subseteq Levels

VARIABLES
  changes,    \* the exchange: the level each version changed
  link,       \* "down", "snapshot" (connected, nothing read yet), "open"
  read,       \* the version the connection has delivered up to
  drops,      \* connections lost
  ready,      \* _snapshot_ready[symbol]
  last,       \* _last_version, _previous_final_id; 0 for none
  buffer,     \* _buffered_diffs[symbol]
  book,       \* OrderBook: the change each level shows
  applied,    \* OrderBook.last_update_id
  fetch,      \* the snapshots on their way
  resnaps,    \* _resnap_history: snapshots asked for in this minute
  listed,     \* the heal loop has found the symbol unsynced
  snap,       \* history: the version of the last snapshot
  sound,      \* history: it was asked for out of sync with no other on its way, and
              \* the message after it followed it
  stray       \* history: the levels whose last change the client was not told of,
              \* and those it cut off

exchange == <<changes>>
line == <<link, read, drops>>
view == <<book, applied, snap, sound, stray>>
gates == <<ready, last, buffer>>
vars == <<changes, link, read, drops, ready, last, buffer, book, applied, fetch,
          resnaps, listed, snap, sound, stray>>

Latest(l, v) == Max({0} \cup {n \in 1 .. v : changes[n] = l})
Truth(v) == [l \in Levels |-> Latest(l, v)]

Changed(from, to) == {l \in Levels : Latest(l, to) > from}

\* A message names the levels changed since the last one, those of out excepted.
Message(v, out) == [from |-> read, to |-> v, names |-> Changed(read, v) \ out]

\* apply_diff: levels the message does not name stay as they are.
Merge(b, m) == [l \in Levels |-> IF l \in m.names THEN Latest(l, m.to) ELSE b[l]]
Missed(s, m) == (s \cup Changed(m.from, m.to)) \ m.names

\* Messages of the buffer one after the other, after a snapshot of version v:
\* the last one that names a level gives it its size.
MergeAll(b, ns) ==
  [l \in Levels |->
     LET named == {n \in ns : l \in buffer[n].names}
     IN  IF named = {} THEN b[l] ELSE Latest(l, buffer[Max(named)].to)]
MissedAll(v, ns) ==
  {l \in Levels : \E n \in ns :
     /\ l \in Changed(buffer[n].from, buffer[n].to) \cap Changed(v, buffer[n].to)
     /\ \A k \in ns : n <= k => l \notin buffer[k].names}

\* The book becomes b, which is behind on s, without the levels of cut: a
\* snapshot ends before them, or a side grew too long and was trimmed.
Shows(b, s, cut) ==
  /\ book' = [l \in Levels |-> IF l \in cut THEN 0 ELSE b[l]]
  /\ stray' = s \cup cut

Unanswered == -1
NoFetch == [kind |-> "none", at |-> Unanswered, sound |-> FALSE]
Idle(fs) == \A i \in DOMAIN fs : fs[i] = NoFetch
CanAsk(fs) == \E i \in DOMAIN fs : fs[i] = NoFetch
Ask(fs, kind) ==
  LET free == Min({i \in DOMAIN fs : fs[i] = NoFetch})
  IN  [i \in DOMAIN fs |-> IF i = free
                           THEN [kind |-> kind, at |-> Unanswered, sound |-> Idle(fs) /\ ~ready']
                           ELSE [fs[i] EXCEPT !.sound = FALSE]]
Done(i) == [fetch EXCEPT ![i] = NoFetch]

\* _can_resnap
MayResnap == resnaps < RESNAPS

\* A book that is not the exchange's may look crossed (is_crossed), a true
\* one never does.
MayLookCrossed == book # Truth(applied)

-----------------------------------------------------------------------------
Change(l) ==
  /\ Len(changes) < MaxVersion
  /\ changes' = Append(changes, l)
  /\ UNCHANGED <<line, gates, view, fetch, resnaps, listed>>

\* _connect_once up to the first message
Connect ==
  /\ link = "down" /\ CanAsk(fetch)
  /\ link' = "snapshot" /\ read' = Len(changes)
  /\ ready' = FALSE /\ last' = 0 /\ buffer' = <<>>
  /\ fetch' = Ask(fetch, "connect")
  /\ UNCHANGED <<exchange, drops, view, resnaps, listed>>

Answer(i) ==
  /\ fetch[i] # NoFetch /\ fetch[i].at = Unanswered
  /\ fetch' = [fetch EXCEPT ![i].at = Len(changes)]
  /\ UNCHANGED <<exchange, line, gates, view, resnaps, listed>>

\* the connection starts to be read after the snapshot it asked for
Reads(i) == IF fetch[i].kind = "connect" THEN "open" ELSE link

Fails(i) ==
  /\ fetch[i] # NoFetch
  /\ fetch' = Done(i) /\ ready' = FALSE /\ link' = Reads(i)
  /\ UNCHANGED <<exchange, read, drops, last, buffer, view, resnaps, listed>>

\* the heal loop lists the unsynced symbols, then takes them one by one
HealLists(runs) ==
  /\ runs /\ ~ready /\ ~listed /\ listed' = TRUE
  /\ \A i \in DOMAIN fetch : fetch[i].kind # "heal"
  /\ UNCHANGED <<exchange, line, gates, view, fetch, resnaps>>

HealAsks ==
  /\ listed /\ listed' = FALSE
  /\ UNCHANGED gates
  /\ IF MayResnap
     THEN /\ CanAsk(fetch) /\ fetch' = Ask(fetch, "heal")
          /\ resnaps' = resnaps + 1
     ELSE UNCHANGED <<fetch, resnaps>>
  /\ UNCHANGED <<exchange, line, view>>

MinutePasses ==
  /\ resnaps > 0 /\ resnaps' = 0
  /\ UNCHANGED <<exchange, line, gates, view, fetch, listed>>

\* A message that arrives before the snapshot waits for it.
Buffered(m) == Append(buffer, m)

\* what of the buffer a snapshot of version v leaves to be applied
Newer(v) == {n \in DOMAIN buffer : buffer[n].to > v}

Arrives(v) == link = "open" /\ read' = v

ReadEarly(v) ==
  /\ Arrives(v) /\ ~ready
  /\ \E out \in SUBSET Outer : buffer' = Buffered(Message(v, out))
  /\ UNCHANGED <<exchange, link, drops, ready, last, view, fetch, resnaps, listed>>

\* _apply_depth_diff decides to ask for a snapshot again
Resync ==
  /\ CanAsk(fetch)
  /\ ready' = FALSE /\ buffer' = <<>> /\ last' = 0
  /\ fetch' = Ask(fetch, "resync")

-----------------------------------------------------------------------------
Init ==
  /\ changes = <<>>
  /\ link = "down" /\ read = 0 /\ drops = 0
  /\ ready = FALSE /\ last = 0 /\ buffer = <<>>
  /\ book = [l \in Levels |-> 0] /\ applied = 0
  /\ fetch = [i \in 1 .. MaxFetches |-> NoFetch]
  /\ resnaps = 0 /\ listed = FALSE
  /\ snap = 0 /\ sound = TRUE /\ stray = {}

Common ==
  \/ \E l \in Levels : Change(l)
  \/ Connect \/ HealAsks \/ MinutePasses
  \/ \E i \in DOMAIN fetch : Answer(i) \/ Fails(i)

FetchType ==
  [kind : {"none", "connect", "heal", "resync"}, at : -1 .. MaxVersion, sound : BOOLEAN]

TypeOK ==
  /\ changes \in Seq(Levels) /\ Len(changes) <= MaxVersion
  /\ link \in {"down", "snapshot", "open"}
  /\ {read, applied, last, snap} \subseteq 0 .. MaxVersion
  /\ {ready, listed, sound} \subseteq BOOLEAN
  /\ buffer \in Seq([from : Nat, to : Nat, names : SUBSET Levels])
  /\ \A n \in DOMAIN buffer : buffer[n].from < buffer[n].to
  /\ book \in [Levels -> 0 .. MaxVersion] /\ stray \subseteq Levels
  /\ fetch \in [1 .. MaxFetches -> FetchType]
  /\ drops \in Nat /\ resnaps \in Nat

\* A book that is ready shows the exchange's levels at the version it claims,
\* but for those whose last change it was not told of or that it cut off, once
\* the messages older than its snapshot are through, unless two snapshots of
\* the symbol were on their way at once, one was asked for a symbol already in
\* sync, or a message after it was lost unnoticed.
ReadyBookIsTrue ==
  ready /\ sound /\ applied >= snap =>
    \A l \in Levels \ stray : book[l] = Latest(l, applied)

-----------------------------------------------------------------------------
(* What the two clients have in common of the inductive invariant.         *)

\* Nothing is known before it happened.
Known ==
  /\ read <= Len(changes) /\ applied <= Len(changes) /\ snap <= Len(changes)
  /\ last <= read
  /\ \A i \in DOMAIN fetch : fetch[i].at <= Len(changes)

\* The buffer is in order, and used up when the symbol is ready.
BufferFits ==
  /\ \A n \in DOMAIN buffer : buffer[n].to <= read
  /\ \A m, n \in DOMAIN buffer : m < n => buffer[m].to <= buffer[n].from
  /\ ready => buffer = <<>>

\* A sound snapshot is the only one on its way, to a symbol out of sync.
SoundAlone ==
  \A i \in DOMAIN fetch : fetch[i].sound =>
    /\ ~ready /\ \A j \in DOMAIN fetch \ {i} : fetch[j] = NoFetch
    /\ fetch[i].at # Unanswered => last <= fetch[i].at

\* Only a snapshot is ahead of what was read.  A level that did not change
\* between the version of the book and a later snapshot is right unless stray.
BookFits ==
  /\ applied > read => applied = snap
  /\ \A l \in Levels \ stray : Latest(l, snap) <= applied => book[l] = Latest(l, applied)

FeedInv ==
  /\ TypeOK /\ Known /\ BufferFits /\ SoundAlone
  /\ ready /\ sound => BookFits

=============================================================================
