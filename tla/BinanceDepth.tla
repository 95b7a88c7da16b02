---------------------------- MODULE BinanceDepth ----------------------------
(***************************************************************************)
(* The depth stream of Binance (binance_ws.py).  A message names the       *)
(* version of the message before it (pu), and the client takes it only     *)
(* behind that one; the exchange may leave a message out.                  *)
(***************************************************************************)
EXTENDS DepthFeed

CONSTANTS MaxLosses   \* bound: messages left out

LossAssumption == MaxLosses \in Nat

VARIABLES losses

allVars == <<vars, losses>>

\* the heal loop and the snapshots on their way outlive the connection
Drop ==
  /\ link = "open" /\ drops < MaxDrops
  /\ link' = "down" /\ drops' = drops + 1
  /\ UNCHANGED <<exchange, read, gates, view, fetch, resnaps, listed>>

Lose(v) ==
  /\ Arrives(v) /\ losses < MaxLosses /\ losses' = losses + 1
  /\ UNCHANGED <<exchange, link, drops, gates, view, fetch, resnaps, listed>>

\* A break asks for a snapshot within the limit, and past it when the book
\* has not moved for _RESNAP_FORCE_STALE_MS.
Spent == IF MayResnap THEN resnaps + 1 ELSE resnaps

-----------------------------------------------------------------------------
(* _fetch_snapshot.                                                        *)

\* the messages of ns as far as they follow each other
Follows(ns, n) == buffer[n].from = buffer[Max({k \in ns : k < n})].to
Chain(ns) ==
  {n \in ns : \A k \in ns : Min(ns) < k /\ k <= n => Follows(ns, k)}

Landing(i) ==
  /\ fetch[i] # NoFetch /\ fetch[i].at # Unanswered
  /\ link' = Reads(i)
  /\ snap' = fetch[i].at /\ sound' = fetch[i].sound
  /\ buffer' = <<>>
  /\ UNCHANGED <<exchange, read, drops, listed>>

\* nothing newer is buffered, or the buffer begins too late
LandBare(i) ==
  LET v == fetch[i].at
  IN  /\ Landing(i)
      /\ Newer(v) # {} => buffer[Min(Newer(v))].from > v
      /\ \E cut \in SUBSET Outer : Shows(Truth(v), {}, cut)
      /\ applied' = v
      /\ ready' = (Newer(v) = {}) /\ last' = last
      /\ fetch' = Done(i) /\ resnaps' = resnaps

\* The messages after it are taken as far as they follow each other.  A break
\* asks for a snapshot, and the symbol counts as ready all the same.
LandReplay(i) ==
  LET v == fetch[i].at
      rest == Newer(v)
  IN  /\ Landing(i)
      /\ rest # {} /\ buffer[Min(rest)].from <= v
      /\ \E cut \in SUBSET Outer :
           Shows(MergeAll(Truth(v), Chain(rest)), MissedAll(v, Chain(rest)), cut)
      /\ applied' = buffer[Max(Chain(rest))].to
      /\ ready' = TRUE
      /\ \/ /\ Chain(rest) = rest \/ ~MayResnap
            /\ last' = applied' /\ fetch' = Done(i) /\ resnaps' = resnaps
         \/ /\ Chain(rest) # rest
            /\ last' = 0 /\ resnaps' = Spent
            /\ fetch' = Ask(Done(i), "resync")

-----------------------------------------------------------------------------
(* _handle_depth_msg on a symbol that is ready.                            *)

Broken_never(v) == FALSE
Broken(v) == last # 0 /\ Message(v, {}).from # last
AsksAgain == Resync /\ resnaps' = Spent /\ UNCHANGED view

ReadBroken(v) ==
  /\ Arrives(v) /\ ready /\ Broken(v)
  /\ \/ AsksAgain
     \/ ~MayResnap /\ UNCHANGED <<gates, view, fetch, resnaps>>
  /\ UNCHANGED <<exchange, link, drops, listed>>

\* is_crossed before the message is applied
ReadCrossed(v) ==
  /\ Arrives(v) /\ ready /\ ~Broken(v) /\ MayLookCrossed /\ MayResnap
  /\ AsksAgain
  /\ UNCHANGED <<exchange, link, drops, listed>>

ReadNext(v) ==
  /\ Arrives(v) /\ ready /\ ~Broken(v)
  /\ \E out, cut \in SUBSET Outer :
       LET m == Message(v, out) IN Shows(Merge(book, m), Missed(stray, m), cut)
  /\ applied' = v /\ last' = v
  /\ sound' = (sound /\ (last # 0 \/ read <= applied))
  /\ UNCHANGED <<exchange, link, drops, ready, buffer, fetch, resnaps, listed, snap>>

InitB == Init /\ losses = 0

Next ==
  \/ /\ losses' = losses
     /\ \/ Common \/ Drop \/ HealLists(link # "down" \/ drops > 0)
        \/ \E i \in DOMAIN fetch : LandBare(i) \/ LandReplay(i)
        \/ \E v \in read + 1 .. Len(changes) :
              ReadEarly(v) \/ ReadBroken(v) \/ ReadCrossed(v) \/ ReadNext(v)
  \/ \E v \in read + 1 .. Len(changes) : Lose(v)

Spec == InitB /\ [][Next]_allVars

\* The inductive invariant: the message before is not ahead of the book.
BinanceInv ==
  /\ FeedInv /\ losses \in Nat
  /\ ready /\ sound => last <= applied

=============================================================================
