------------------------------ MODULE MexcDepth ------------------------------
(***************************************************************************)
(* The depth stream of MEXC (mexc_ws.py).  A message names only the        *)
(* version it reaches; the client takes any step forward below a maximum   *)
(* for coalesced changes.                                                  *)
(***************************************************************************)
EXTENDS DepthFeed

CONSTANTS MAX_VERSION_GAP

GapAssumption == MAX_VERSION_GAP \in Nat

Gap(v, prev) == v - prev - 1

\* asyncio cancels the heal loop, and a snapshot it waits for, with the
\* connection; the snapshots of a resync go on
Drop ==
  /\ link = "open" /\ drops < MaxDrops
  /\ link' = "down" /\ drops' = drops + 1
  /\ listed' = FALSE
  /\ fetch' = [i \in DOMAIN fetch |-> IF fetch[i].kind = "heal" THEN NoFetch ELSE fetch[i]]
  /\ UNCHANGED <<exchange, read, gates, view, resnaps>>

Land(i) ==
  /\ fetch[i] # NoFetch /\ fetch[i].at # Unanswered
  /\ fetch' = Done(i) /\ link' = Reads(i)
  /\ snap' = fetch[i].at /\ sound' = fetch[i].sound
  /\ buffer' = <<>>
  /\ LET v == fetch[i].at
         rest == Newer(v)
         first == buffer[Min(rest)].to
         stale == rest # {} /\ Gap(first, v) >= MAX_VERSION_GAP
     IN  \E cut \in SUBSET Outer :
         IF rest = {} \/ stale
         THEN /\ Shows(Truth(v), {}, cut) /\ applied' = v
              /\ ready' = ~stale /\ last' = last
         ELSE /\ Shows(MergeAll(Truth(v), rest), MissedAll(v, rest), cut)
              /\ applied' = buffer[Max(rest)].to
              /\ ready' = TRUE /\ last' = first
  /\ UNCHANGED <<exchange, read, drops, resnaps, listed>>

-----------------------------------------------------------------------------
(* _handle_depth: the changes up to v arrive as one message.               *)

TooFar(v) == last # 0 /\ Gap(v, last) >= MAX_VERSION_GAP

ReadStale(v) ==
  /\ Arrives(v) /\ ready /\ v <= last
  /\ UNCHANGED <<exchange, link, drops, gates, view, fetch, resnaps, listed>>

ReadFar(v) ==
  /\ Arrives(v) /\ ready /\ v > last /\ TooFar(v)
  /\ IF MayResnap THEN Resync /\ resnaps' = resnaps + 1
                  ELSE UNCHANGED <<gates, fetch, resnaps>>
  /\ UNCHANGED <<exchange, link, drops, view, listed>>

ReadNext(v) ==
  /\ Arrives(v) /\ ready /\ v > last /\ ~TooFar(v)
  /\ \E out, cut \in SUBSET Outer :
       LET m == Message(v, out) IN Shows(Merge(book, m), Missed(stray, m), cut)
  /\ applied' = v
  /\ \/ /\ last' = v
        /\ UNCHANGED <<ready, buffer, fetch, resnaps>>
     \/ /\ book' # Truth(v) /\ MayResnap   \* is_crossed
        /\ Resync /\ resnaps' = resnaps + 1
  /\ UNCHANGED <<exchange, link, drops, snap, sound, listed>>

Next ==
  \/ Common \/ Drop \/ HealLists(link = "open")
  \/ \E i \in DOMAIN fetch : Land(i)
  \/ \E v \in read + 1 .. Len(changes) :
        ReadEarly(v) \/ ReadStale(v) \/ ReadFar(v) \/ ReadNext(v)

Spec == Init /\ [][Next]_vars

-----------------------------------------------------------------------------
(* The inductive invariant.                                                *)

\* The connection leaves nothing out, so the buffer ends where it stands and
\* a sound snapshot is no older than the buffer's beginning.
Begins == IF buffer = <<>> THEN read ELSE buffer[1].from

NothingLeftOut ==
  /\ buffer # <<>> => buffer[Len(buffer)].to = read
  /\ \A n \in DOMAIN buffer : n > 1 => buffer[n].from = buffer[n - 1].to
  /\ \A i \in DOMAIN fetch :
       fetch[i].sound /\ fetch[i].at # Unanswered => Begins <= fetch[i].at

\* Once a message was skipped for its distance, all that follow are.
SkipsOn ==
  ready /\ sound /\ read > applied => last # 0 /\ Gap(read, last) >= MAX_VERSION_GAP

MexcInv == FeedInv /\ NothingLeftOut /\ SkipsOn

=============================================================================
