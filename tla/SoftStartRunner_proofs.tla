------------------------ MODULE SoftStartRunner_proofs ------------------------
(***************************************************************************)
(* Proofs about SoftStartRunner for every value of its constants.  The     *)
(* core is that the state file never forgets a position: whatever happens  *)
(* between an order and its answer, the breadcrumb, the record or the mark *)
(* of an unreadable file stands for it.                                    *)
(***************************************************************************)
EXTENDS SoftStartRunner, SequenceTheorems, TLAPS

\* An order is awaited exactly as long as its fate is the engine's business.
OrderAwaited == order \in {"sent", "filled", "rejected"} <=> Step("answer")

\* An order that was sent is remembered until its fate is known.
OrderRemembered == order # "none" => file.pend \/ (~up /\ file.bad)

\* What was not filled holds nothing.
UnfilledIsFlat == order \in {"sent", "rejected", "late"} => held = 0

HeldRemembered == held > 0 => file.bad \/ HasExposure(file)

\* An unreadable file says nothing, and nothing runs on it: it is loaded,
\* and the exchange asked, before the warmer or the sweep works on it.
BadFileIdle ==
  /\ file.bad => ~HasExposure(file) /\ job = <<>>
  /\ warmer.up /\ phase \notin {"start", "cancel"} => ~file.bad

\* A dead process has no warmer and awaits nothing; the later phases of a
\* poll are those of a warmer, and a warmer starts before its engine works.
PhaseFits ==
  /\ ~up => job = <<>> /\ phase = "idle" /\ warmer = NoWarmer
  /\ phase \in {"stop", "start", "tick", "final", "cancel"} => warmer.up
  /\ phase = "start" => job = <<>>

\* A preclearing that failed MAX_PRECLEAR_GRACE times is over.
GraceLeft ==
  /\ PreclearPending(warmer.camp) => warmer.grace < MaxGrace
  /\ phase = "start" => warmer.grace = 0

IInv ==
  /\ TypeOK /\ OrderAwaited /\ OrderRemembered /\ UnfilledIsFlat
  /\ HeldRemembered /\ BadFileIdle /\ PhaseFits /\ GraceLeft
-----------------------------------------------------------------------------
(* The methods of the engine.                                              *)

\* No entry waits for the answer of an open.
NotAwaiting(j) == \A i \in 1 .. Len(j) : j[i] # "answer"

\* Among the first four places one comes first.
LEMMA FirstOfFour ==
  ASSUME NEW S, S \subseteq 1 .. 4, S # {}
  PROVE  \E i \in S : \A k \in S : i <= k
<1>1. \A k \in S : k = 1 \/ k = 2 \/ k = 3 \/ k = 4
  OBVIOUS
<1>2. CASE 1 \in S
  BY <1>1, <1>2
<1>3. CASE 1 \notin S /\ 2 \in S
  BY <1>1, <1>3
<1>4. CASE 1 \notin S /\ 2 \notin S /\ 3 \in S
  BY <1>1, <1>4
<1>5. CASE 1 \notin S /\ 2 \notin S /\ 3 \notin S
  <2>1. 4 \in S
    BY <1>1, <1>5
  <2>2. \A k \in S : 4 <= k
    BY <1>1, <1>5
  <2>3. QED
    BY <2>1, <2>2
<1>6. QED
  BY <1>2, <1>3, <1>4, <1>5

\* What is passed over leaves a method, and adds no await to it.
LEMMA PrunedIsJob ==
  ASSUME NEW j, IsJob(j), NEW f
  PROVE  /\ IsJob(Pruned(j, f))
         /\ NotAwaiting(j) => NotAwaiting(Pruned(j, f))
<1> DEFINE needed == {i \in DOMAIN j : Needed(j[i], f)}
           first == CHOOSE i \in needed : \A k \in needed : i <= k
<1>1. j \in Seq(Awaits) /\ Len(j) \in Nat /\ Len(j) <= 4 /\ DOMAIN j = 1 .. Len(j)
  BY LenProperties DEF IsJob
<1>2. CASE needed = {}
  <2>1. Pruned(j, f) = <<>>
    BY <1>2 DEF Pruned
  <2>2. QED
    BY <2>1 DEF IsJob, NotAwaiting
<1>3. CASE needed # {}
  <2>1. needed \subseteq 1 .. 4
    BY <1>1
  <2>2. first \in needed
    BY <2>1, <1>3, FirstOfFour
  <2>3. first \in 1 .. Len(j)
    BY <1>1, <2>2
  <2>4. Pruned(j, f) = SubSeq(j, first, Len(j))
    BY <1>3 DEF Pruned
  <2> DEFINE rest == SubSeq(j, first, Len(j))
  <2> HIDE DEF needed, first
  <2>5. /\ rest \in Seq(Awaits)
        /\ Len(rest) = Len(j) - first + 1
        /\ \A i \in 1 .. Len(j) - first + 1 : rest[i] = j[first + i - 1]
    BY <1>1, <2>3, SubSeqProperties
  <2> HIDE DEF rest
  <2>6. \A i \in 1 .. Len(rest) :
           first + i - 1 \in 1 .. Len(j) /\ rest[i] = j[first + i - 1]
    BY <1>1, <2>3, <2>5
  <2>7. ASSUME NEW i \in 1 .. Len(rest), rest[i] = "answer"
        PROVE  Len(rest) = 1
    <3>1. first + i - 1 \in 1 .. Len(j) /\ j[first + i - 1] = "answer"
      BY <2>6, <2>7
    <3>2. Len(j) = 1
      BY <3>1 DEF IsJob
    <3>3. QED
      BY <1>1, <2>3, <2>5, <3>2
  <2>8. IsJob(rest)
    BY <1>1, <2>3, <2>5, <2>7 DEF IsJob
  <2>9. NotAwaiting(j) => NotAwaiting(rest)
    BY <2>6 DEF NotAwaiting
  <2>10. QED
    BY <2>4, <2>8, <2>9 DEF rest
<1>4. QED
  BY <1>2, <1>3

\* After an await no answer is waited for.
LEMMA DoneIsJob ==
  ASSUME NEW j, IsJob(j), j # <<>>, NEW f
  PROVE  IsJob(Pruned(Tail(j), f)) /\ NotAwaiting(Pruned(Tail(j), f))
<1> DEFINE t == Tail(j)
<1>1. /\ t \in Seq(Awaits) /\ Len(t) = Len(j) - 1
      /\ \A i \in 1 .. Len(j) - 1 : t[i] = j[i + 1]
      /\ Len(j) \in Nat /\ Len(j) # 0 /\ Len(j) <= 4
  BY HeadTailProperties, LenProperties, EmptySeq DEF IsJob
<1> HIDE DEF t
<1>2. \A i \in 1 .. Len(t) : i + 1 \in 1 .. Len(j) /\ t[i] = j[i + 1] /\ Len(j) # 1
  BY <1>1
<1>3. \A i \in 1 .. Len(t) : t[i] # "answer"
  BY <1>2 DEF IsJob
<1>4. IsJob(t) /\ NotAwaiting(t)
  BY <1>1, <1>3 DEF IsJob, NotAwaiting
<1>5. QED
  BY <1>4, PrunedIsJob DEF t

\* The three methods.
LEMMA MethodIsJob ==
  ASSUME NEW f
  PROVE  \A j \in {RecoverJob, TickJob, DrainJob} :
            IsJob(Pruned(j, f)) /\ NotAwaiting(Pruned(j, f))
<1>1. IsJob(RecoverJob) /\ NotAwaiting(RecoverJob)
  BY DEF RecoverJob, IsJob, Awaits, NotAwaiting
<1>2. IsJob(TickJob) /\ NotAwaiting(TickJob)
  BY DEF TickJob, IsJob, Awaits, NotAwaiting
<1>3. IsJob(DrainJob) /\ NotAwaiting(DrainJob)
  BY DEF DrainJob, IsJob, Awaits, NotAwaiting
<1>4. QED
  BY <1>1, <1>2, <1>3, PrunedIsJob

\* With nothing known to be open a stop has nothing to wait for.
LEMMA DrainsNothing ==
  ASSUME NEW f \in Files, ~HasExposure(f)
  PROVE  Pruned(DrainJob, f) = <<>>
<1>1. \A i \in DOMAIN DrainJob : ~Needed(DrainJob[i], f)
  BY DEF DrainJob, Needed, HasExposure, Files
<1>2. {i \in DOMAIN DrainJob : Needed(DrainJob[i], f)} = {}
  BY <1>1
<1>3. QED
  BY <1>2 DEF Pruned

-----------------------------------------------------------------------------
(* The invariant is preserved.                                             *)

\* A job that ends with this await.
LEMMA DoneFacts ==
  ASSUME IInv, job # <<>>, Done
  PROVE  IsJob(job') /\ ~Step("answer")'
<1>1. IsJob(job') /\ NotAwaiting(job')
  BY DoneIsJob DEF IInv, TypeOK, Done
<1>2. ASSUME job' # <<>> PROVE Head(job') # "answer"
  <2>1. Len(job') \in Nat /\ Len(job') # 0 /\ Head(job') = job'[1]
    BY <1>1, <1>2, EmptySeq, LenProperties DEF IsJob
  <2>2. QED
    BY <1>1, <2>1 DEF NotAwaiting
<1>3. QED
  BY <1>1, <1>2 DEF Step

\* A job that begins.
LEMMA BeginFacts ==
  ASSUME NEW j \in {RecoverJob, TickJob, DrainJob}, NEW f, job' = Pruned(j, f)
  PROVE  IsJob(job') /\ ~Step("answer")'
<1>1. IsJob(job') /\ NotAwaiting(job')
  BY MethodIsJob
<1>2. ASSUME job' # <<>> PROVE Head(job') # "answer"
  <2>1. Len(job') \in Nat /\ Len(job') # 0 /\ Head(job') = job'[1]
    BY <1>1, <1>2, EmptySeq, LenProperties DEF IsJob
  <2>2. QED
    BY <1>1, <2>1 DEF NotAwaiting
<1>3. QED
  BY <1>1, <1>2 DEF Step

\* A reconciliation begins with a read left.
LEMMA ReadsLeft == 0 \in 0 .. Rechecks - 1
BY FuturesAssumptions

\* The engine's own steps: the slot stands still, or its campaign is saved.
LEMMA EngineKeeps ==
  ASSUME IInv, FuturesStep \/ Opened \/ CloseAccepted,
         UNCHANGED <<up, row, snap, phase, warmer, coins, commands>>,
         camp' \in Campaigns
  PROVE  IInv'
<1>1. job # <<>> /\ up /\ ~file.bad /\ file \in Files
  BY DEF IInv, TypeOK, BadFileIdle, PhaseFits, FuturesStep, Opened, CloseAccepted,
     SweepUnread, Sweep, ReconcileUnread, ReconcileFound, ReconcileAgain,
     ReconcileNever, CloseDry, CloseFailed, OpenSkipped, OpenDry, SendOpen,
     OpenRejected, OpenUnanswered, WantsClose, Step
<1>2. CASE SweepUnread
  <2>1. IsJob(job') /\ ~Step("answer")'
    BY <1>1, <1>2, DoneFacts DEF SweepUnread
  <2>2. TypeOK'
    BY <1>1, <1>2, <2>1, ReadsLeft, FuturesAssumptions
    DEF IInv, TypeOK, Files, Orders, SweepUnread
  <2>3. QED
    BY <1>1, <1>2, <2>1, <2>2, FuturesAssumptions
    DEF IInv, TypeOK, OrderAwaited, OrderRemembered, UnfilledIsFlat, HeldRemembered,
        BadFileIdle, PhaseFits, GraceLeft, HasExposure, Step, Files, Orders, SweepUnread
<1>3. CASE Sweep
  <2>1. IsJob(job') /\ ~Step("answer")'
    BY <1>1, <1>3, DoneFacts DEF Sweep
  <2>2. TypeOK'
    BY <1>1, <1>3, <2>1, ReadsLeft, FuturesAssumptions
    DEF IInv, TypeOK, Files, Orders, Sweep
  <2>3. QED
    BY <1>1, <1>3, <2>1, <2>2, FuturesAssumptions
    DEF IInv, TypeOK, OrderAwaited, OrderRemembered, UnfilledIsFlat, HeldRemembered,
        BadFileIdle, PhaseFits, GraceLeft, HasExposure, Step, Files, Orders, Sweep
<1>4. CASE ReconcileUnread
  <2>1. IsJob(job') /\ ~Step("answer")'
    BY <1>1, <1>4, DoneFacts DEF ReconcileUnread
  <2>2. TypeOK'
    BY <1>1, <1>4, <2>1, ReadsLeft, FuturesAssumptions
    DEF IInv, TypeOK, Files, Orders, ReconcileUnread
  <2>3. QED
    BY <1>1, <1>4, <2>1, <2>2, FuturesAssumptions
    DEF IInv, TypeOK, OrderAwaited, OrderRemembered, UnfilledIsFlat, HeldRemembered,
        BadFileIdle, PhaseFits, GraceLeft, HasExposure, Step, Files, Orders,
        ReconcileUnread
<1>5. CASE ReconcileFound
  <2>1. IsJob(job') /\ ~Step("answer")'
    BY <1>1, <1>5, DoneFacts DEF ReconcileFound
  <2>2. TypeOK'
    BY <1>1, <1>5, <2>1, ReadsLeft, FuturesAssumptions
    DEF IInv, TypeOK, Files, Orders, ReconcileFound, Adopted
  <2>3. QED
    BY <1>1, <1>5, <2>1, <2>2, FuturesAssumptions
    DEF IInv, TypeOK, OrderAwaited, OrderRemembered, UnfilledIsFlat, HeldRemembered,
        BadFileIdle, PhaseFits, GraceLeft, HasExposure, Step, Files, Orders,
        ReconcileFound, Adopted
<1>6. CASE ReconcileAgain
  <2>1. IsJob(job') /\ ~Step("answer")'
    BY <1>6 DEF IInv, TypeOK, Step, ReconcileAgain
  <2>2. TypeOK'
    BY <1>1, <1>6, <2>1, ReadsLeft, FuturesAssumptions
    DEF IInv, TypeOK, Files, Orders, ReconcileAgain, LastRead
  <2>3. QED
    BY <1>1, <1>6, <2>1, <2>2, FuturesAssumptions
    DEF IInv, TypeOK, OrderAwaited, OrderRemembered, UnfilledIsFlat, HeldRemembered,
        BadFileIdle, PhaseFits, GraceLeft, HasExposure, Step, Files, Orders,
        ReconcileAgain, LastRead
<1>7. CASE ReconcileNever
  <2>1. IsJob(job') /\ ~Step("answer")'
    BY <1>1, <1>7, DoneFacts DEF ReconcileNever
  <2>2. TypeOK'
    BY <1>1, <1>7, <2>1, ReadsLeft, FuturesAssumptions
    DEF IInv, TypeOK, Files, Orders, ReconcileNever, Missing, LastRead
  <2>3. QED
    BY <1>1, <1>7, <2>1, <2>2, FuturesAssumptions
    DEF IInv, TypeOK, OrderAwaited, OrderRemembered, UnfilledIsFlat, HeldRemembered,
        BadFileIdle, PhaseFits, GraceLeft, HasExposure, Step, Files, Orders,
        ReconcileNever, Missing, LastRead
<1>8. CASE CloseDry
  <2>1. IsJob(job') /\ ~Step("answer")'
    BY <1>8 DEF IsJob, Step, CloseDry
  <2>2. TypeOK'
    BY <1>1, <1>8, <2>1, ReadsLeft, FuturesAssumptions
    DEF IInv, TypeOK, Files, Orders, CloseDry, WantsClose
  <2>3. QED
    BY <1>1, <1>8, <2>1, <2>2, FuturesAssumptions
    DEF IInv, TypeOK, OrderAwaited, OrderRemembered, UnfilledIsFlat, HeldRemembered,
        BadFileIdle, PhaseFits, GraceLeft, HasExposure, Step, Files, Orders, CloseDry,
        WantsClose
<1>9. CASE CloseFailed
  <2>1. IsJob(job') /\ ~Step("answer")'
    BY <1>9 DEF IsJob, Step, CloseFailed
  <2>2. TypeOK'
    BY <1>1, <1>9, <2>1, ReadsLeft, FuturesAssumptions
    DEF IInv, TypeOK, Files, Orders, CloseFailed, WantsClose
  <2>3. QED
    BY <1>1, <1>9, <2>1, <2>2, FuturesAssumptions
    DEF IInv, TypeOK, OrderAwaited, OrderRemembered, UnfilledIsFlat, HeldRemembered,
        BadFileIdle, PhaseFits, GraceLeft, HasExposure, Step, Files, Orders,
        CloseFailed, WantsClose
<1>10. CASE CloseAccepted
  <2>1. IsJob(job') /\ ~Step("answer")'
    BY <1>10 DEF IsJob, Step, CloseAccepted
  <2>2. TypeOK'
    BY <1>1, <1>10, <2>1, ReadsLeft, FuturesAssumptions
    DEF IInv, TypeOK, Files, Orders, CloseAccepted, WantsClose
  <2>3. QED
    BY <1>1, <1>10, <2>1, <2>2, FuturesAssumptions
    DEF IInv, TypeOK, OrderAwaited, OrderRemembered, UnfilledIsFlat, HeldRemembered,
        BadFileIdle, PhaseFits, GraceLeft, HasExposure, Step, Files, Orders,
        CloseAccepted, WantsClose
<1>11. CASE OpenSkipped
  <2>1. IsJob(job') /\ ~Step("answer")'
    BY <1>1, <1>11, DoneFacts DEF OpenSkipped
  <2>2. TypeOK'
    BY <1>1, <1>11, <2>1, ReadsLeft, FuturesAssumptions
    DEF IInv, TypeOK, Files, Orders, OpenSkipped
  <2>3. QED
    BY <1>1, <1>11, <2>1, <2>2, FuturesAssumptions
    DEF IInv, TypeOK, OrderAwaited, OrderRemembered, UnfilledIsFlat, HeldRemembered,
        BadFileIdle, PhaseFits, GraceLeft, HasExposure, Step, Files, Orders, OpenSkipped
<1>12. CASE OpenDry
  <2>1. IsJob(job') /\ ~Step("answer")'
    BY <1>1, <1>12, DoneFacts DEF OpenDry
  <2>2. TypeOK'
    BY <1>1, <1>12, <2>1, ReadsLeft, FuturesAssumptions
    DEF IInv, TypeOK, Files, Orders, OpenDry
  <2>3. QED
    BY <1>1, <1>12, <2>1, <2>2, FuturesAssumptions
    DEF IInv, TypeOK, OrderAwaited, OrderRemembered, UnfilledIsFlat, HeldRemembered,
        BadFileIdle, PhaseFits, GraceLeft, HasExposure, Step, Files, Orders, OpenDry
<1>13. CASE SendOpen
  <2>1. IsJob(job') /\ Step("answer")'
    BY <1>13 DEF IsJob, Awaits, Step, SendOpen
  <2>2. TypeOK'
    BY <1>1, <1>13, <2>1, ReadsLeft, FuturesAssumptions
    DEF IInv, TypeOK, Files, Orders, SendOpen, MayOpen, Breadcrumb
  <2>3. QED
    BY <1>1, <1>13, <2>1, <2>2, FuturesAssumptions
    DEF IInv, TypeOK, OrderAwaited, OrderRemembered, UnfilledIsFlat, HeldRemembered,
        BadFileIdle, PhaseFits, GraceLeft, HasExposure, Step, Files, Orders, SendOpen,
        MayOpen, Breadcrumb
<1>14. CASE Opened
  <2>1. IsJob(job') /\ ~Step("answer")'
    BY <1>1, <1>14, DoneFacts DEF Opened
  <2>2. TypeOK'
    BY <1>1, <1>14, <2>1, ReadsLeft, FuturesAssumptions
    DEF IInv, TypeOK, Files, Orders, Opened
  <2>3. QED
    BY <1>1, <1>14, <2>1, <2>2, FuturesAssumptions
    DEF IInv, TypeOK, OrderAwaited, OrderRemembered, UnfilledIsFlat, HeldRemembered,
        BadFileIdle, PhaseFits, GraceLeft, HasExposure, Step, Files, Orders, Opened
<1>15. CASE OpenRejected
  <2>1. IsJob(job') /\ ~Step("answer")'
    BY <1>1, <1>15, DoneFacts DEF OpenRejected
  <2>2. TypeOK'
    BY <1>1, <1>15, <2>1, ReadsLeft, FuturesAssumptions
    DEF IInv, TypeOK, Files, Orders, OpenRejected
  <2>3. QED
    BY <1>1, <1>15, <2>1, <2>2, FuturesAssumptions
    DEF IInv, TypeOK, OrderAwaited, OrderRemembered, UnfilledIsFlat, HeldRemembered,
        BadFileIdle, PhaseFits, GraceLeft, HasExposure, Step, Files, Orders,
        OpenRejected
<1>16. CASE OpenUnanswered
  <2>1. IsJob(job') /\ ~Step("answer")'
    BY <1>16 DEF IsJob, Awaits, Step, OpenUnanswered
  <2>2. TypeOK'
    BY <1>1, <1>16, <2>1, ReadsLeft, FuturesAssumptions
    DEF IInv, TypeOK, Files, Orders, OpenUnanswered, Abandoned
  <2>3. QED
    BY <1>1, <1>16, <2>1, <2>2, FuturesAssumptions
    DEF IInv, TypeOK, OrderAwaited, OrderRemembered, UnfilledIsFlat, HeldRemembered,
        BadFileIdle, PhaseFits, GraceLeft, HasExposure, Step, Files, Orders,
        OpenUnanswered, Abandoned
<1>17. QED
  BY <1>2, <1>3, <1>4, <1>5, <1>6, <1>7, <1>8, <1>9, <1>10, <1>11, <1>12, <1>13, <1>14,
     <1>15, <1>16
     DEF FuturesStep

\* The row of no poll is a row.
LEMMA NoRowType == NoRow \in Rows
BY DEF NoRow, Rows

\* The counters start inside their bounds.
LEMMA CountersStart ==
  0 \in 0 .. MaxPasses /\ 0 \in 0 .. MaxGrace /\ 0 \in 0 .. MaxStuck
BY RunnerAssumptions

\* What a campaign becomes, in memory or in its file, is a campaign.
LEMMA CampaignOps ==
  ASSUME NEW c \in Campaigns
  PROVE  /\ LoadCampaign(c) \in Campaigns /\ Saved(c) \in Campaigns
         /\ Cleared(c) \in Campaigns /\ [c EXCEPT !.finished = TRUE] \in Campaigns
         /\ \A flag \in {"late", "over"} : After(c, flag) \in Campaigns
         /\ \A flag \in {"late", "over"} :
               PreclearPending(After(c, flag)) => PreclearPending(c)
         /\ NoCampaign \in Campaigns /\ NewCampaign \in Campaigns
         /\ ~PreclearPending(NoCampaign) /\ ~PreclearPending(Cleared(c))
         /\ PreclearPending([c EXCEPT !.finished = TRUE]) => PreclearPending(c)
BY DEF Campaigns, LoadCampaign, Saved, Cleared, After, PreclearPending, Unreadable,
   NoCampaign, NewCampaign

\* What a warmer becomes is a warmer.
LEMMA WarmerOps ==
  ASSUME NEW w \in Warmers, NEW c \in Campaigns
  PROVE  /\ NoWarmer \in Warmers /\ Stopping(w) \in Warmers
         /\ [w EXCEPT !.camp = c] \in Warmers
         /\ [w EXCEPT !.camp = c].camp = c /\ [w EXCEPT !.camp = c].up = w.up
         /\ [w EXCEPT !.camp = c].grace = w.grace
         /\ Stopping(w).up = w.up /\ Stopping(w).camp = w.camp
         /\ Stopping(w).grace = w.grace
         /\ \A r \in Rows :
               /\ NewWarmer(r, c) \in Warmers /\ NewWarmer(r, c).up
               /\ NewWarmer(r, c).grace = 0 /\ NewWarmer(r, c).camp = LoadCampaign(c)
<1>1. /\ NoCampaign \in Campaigns /\ LoadCampaign(c) \in Campaigns
      /\ 0 \in 0 .. MaxPasses /\ 0 \in 0 .. MaxGrace /\ 0 \in 0 .. MaxStuck
  BY CampaignOps, CountersStart
<1>2. NoWarmer \in Warmers
  BY <1>1 DEF NoWarmer, Warmers
<1>3. ASSUME NEW r \in Rows
      PROVE  /\ NewWarmer(r, c) \in Warmers /\ NewWarmer(r, c).up
             /\ NewWarmer(r, c).grace = 0 /\ NewWarmer(r, c).camp = LoadCampaign(c)
  BY <1>1 DEF NewWarmer, NoWarmer, Warmers, Rows
<1>4. QED
  BY <1>2, <1>3 DEF Warmers, Stopping

\* What is kept of the campaign is kept in memory and in the file.
LEMMA KeepFacts ==
  ASSUME NEW w \in Warmers, NEW c \in Campaigns, Keep(c, w)
  PROVE  /\ warmer' \in Warmers /\ camp' \in Campaigns
         /\ warmer'.up = w.up /\ warmer'.camp = c /\ warmer'.grace = w.grace
<1>1. camp' \in Campaigns
  BY CampaignOps DEF Keep
<1>2. warmer' = [w EXCEPT !.camp = c]
  BY DEF Keep
<1>3. QED
  BY <1>1, <1>2 DEF Warmers

\* A step of the slot that leaves the engine alone, or begins one of its
\* methods on a file that can be read.
LEMMA SlotKeeps ==
  ASSUME IInv,
         UNCHANGED <<file, tries, sending, order, held, up>>,
         \/ UNCHANGED job
         \/ ~file.bad /\ up /\ job = <<>> /\
            \E j \in {RecoverJob, TickJob, DrainJob} : job' = Pruned(j, file),
         row' \in Rows, snap' \in Rows, phase' \in Phases, warmer' \in Warmers,
         camp' \in Campaigns, coins' \in 0 .. MaxCoins,
         commands' \in 0 .. MaxCommands,
         warmer'.up /\ phase' \notin {"start", "cancel"} => ~file.bad,
         PhaseFits', GraceLeft'
  PROVE  IInv'
<1>1. IsJob(job') /\ (Step("answer") <=> Step("answer")')
  <2>1. CASE UNCHANGED job
    BY <2>1 DEF IInv, TypeOK, Step
  <2>2. CASE job = <<>> /\ \E j \in {RecoverJob, TickJob, DrainJob} : job' = Pruned(j, file)
    BY <2>2, BeginFacts DEF Step
  <2>3. QED
    BY <2>1, <2>2
<1>2. file.bad => job' = <<>>
  BY DEF IInv, BadFileIdle
<1>3. TypeOK'
  BY <1>1 DEF IInv, TypeOK
<1>4. (OrderAwaited /\ OrderRemembered /\ UnfilledIsFlat /\ HeldRemembered)'
  BY <1>1 DEF IInv, OrderAwaited, OrderRemembered, UnfilledIsFlat, HeldRemembered,
              HasExposure
<1>5. BadFileIdle'
  BY <1>2 DEF IInv, BadFileIdle, HasExposure
<1>6. QED
  BY <1>3, <1>4, <1>5 DEF IInv

\* The steps of a poll that load no file.
LEMMA PollKeeps ==
  ASSUME IInv,
         \/ StopUnwanted \/ KeepWarmer \/ NoNewWarmer \/ NoClient \/ MakeWarmer \/ PreclearSold
         \/ PreclearFailed \/ PreclearWaits \/ PreclearStuck \/ PreclearDone \/ WindDownPass
         \/ WindDownLast \/ Warm \/ RetryStop \/ StillOpen \/ SwitchOff \/ SwitchOffFailed
  PROVE  IInv'
<1>1. CASE StopUnwanted
  <2>1. /\ UNCHANGED <<file, tries, sending, order, held, up>>
        /\ row' \in Rows /\ snap' \in Rows /\ phase' \in Phases
        /\ warmer' \in Warmers /\ camp' \in Campaigns
        /\ coins' \in 0 .. MaxCoins /\ commands' \in 0 .. MaxCommands
    BY <1>1, WarmerOps
       DEF IInv, TypeOK, BadFileIdle, PhaseFits, GraceLeft, Phases, Rows, NoRow,
           StopUnwanted, Stopping, MustStop, Go, StopJob
  <2>2. /\ warmer'.up /\ phase' \notin {"start", "cancel"} => ~file.bad
        /\ PhaseFits' /\ GraceLeft'
    BY <1>1, WarmerOps
       DEF IInv, TypeOK, BadFileIdle, PhaseFits, GraceLeft, Phases, Rows, NoRow,
           StopUnwanted, Stopping, MustStop, Go, StopJob
  <2>3. /\ ~file.bad /\ up /\ job = <<>>
        /\ \E j \in {RecoverJob, TickJob, DrainJob} : job' = Pruned(j, file)
    BY <1>1, WarmerOps
       DEF IInv, TypeOK, BadFileIdle, PhaseFits, GraceLeft, Phases, Rows, NoRow,
           StopUnwanted, Stopping, MustStop, Go, StopJob
  <2>4. QED
    BY <2>1, <2>2, <2>3, SlotKeeps
<1>2. CASE KeepWarmer
  <2>1. /\ UNCHANGED <<file, tries, sending, order, held, up, row, camp, coins>>
        /\ UNCHANGED <<job, commands, warmer>>
        /\ phase' \in {"idle", "tick"} /\ snap' \in {snap, NoRow}
        /\ up /\ warmer.up /\ phase \in {"stop", "sweep"}
    BY <1>2 DEF KeepWarmer, Settling, Go, Idle, futures
  <2>2. snap' \in Rows /\ phase' \in Phases
    BY <2>1, NoRowType DEF IInv, TypeOK, Phases
  <2>3. ~file.bad
    BY <2>1 DEF IInv, BadFileIdle
  <2>4. PhaseFits' /\ GraceLeft'
    BY <2>1 DEF IInv, PhaseFits, GraceLeft
  <2>5. QED
    BY <2>1, <2>2, <2>3, <2>4, SlotKeeps DEF IInv, TypeOK
<1>3. CASE NoNewWarmer
  <2>1. /\ UNCHANGED <<file, tries, sending, order, held, up>>
        /\ row' \in Rows /\ snap' \in Rows /\ phase' \in Phases
        /\ warmer' \in Warmers /\ camp' \in Campaigns
        /\ coins' \in 0 .. MaxCoins /\ commands' \in 0 .. MaxCommands
    BY <1>3, WarmerOps, CampaignOps
       DEF IInv, TypeOK, BadFileIdle, PhaseFits, GraceLeft, Phases, Rows, NoRow,
           NoNewWarmer, Vacant, Settling, Idle, futures, NoWarmer
  <2>2. /\ warmer'.up /\ phase' \notin {"start", "cancel"} => ~file.bad
        /\ PhaseFits' /\ GraceLeft'
    BY <1>3, WarmerOps, CampaignOps
       DEF IInv, TypeOK, BadFileIdle, PhaseFits, GraceLeft, Phases, Rows, NoRow,
           NoNewWarmer, Vacant, Settling, Idle, futures, NoWarmer
  <2>3. UNCHANGED job
    BY <1>3 DEF NoNewWarmer, Vacant, Settling, Idle, futures, NoWarmer
  <2>4. QED
    BY <2>1, <2>2, <2>3, SlotKeeps
<1>4. CASE NoClient
  <2>1. /\ UNCHANGED <<file, tries, sending, order, held, up>>
        /\ row' \in Rows /\ snap' \in Rows /\ phase' \in Phases
        /\ warmer' \in Warmers /\ camp' \in Campaigns
        /\ coins' \in 0 .. MaxCoins /\ commands' \in 0 .. MaxCommands
    BY <1>4, WarmerOps, CampaignOps
       DEF IInv, TypeOK, BadFileIdle, PhaseFits, GraceLeft, Phases, Rows, NoRow,
           NoClient, Vacant, Settling, Idle, futures, NoWarmer
  <2>2. /\ warmer'.up /\ phase' \notin {"start", "cancel"} => ~file.bad
        /\ PhaseFits' /\ GraceLeft'
    BY <1>4, WarmerOps, CampaignOps
       DEF IInv, TypeOK, BadFileIdle, PhaseFits, GraceLeft, Phases, Rows, NoRow,
           NoClient, Vacant, Settling, Idle, futures, NoWarmer
  <2>3. UNCHANGED job
    BY <1>4 DEF NoClient, Vacant, Settling, Idle, futures, NoWarmer
  <2>4. QED
    BY <2>1, <2>2, <2>3, SlotKeeps
<1>5. CASE MakeWarmer
  <2>1. /\ UNCHANGED <<file, tries, sending, order, held, up, row, coins>>
        /\ UNCHANGED <<job, commands, snap>>
        /\ phase' = "start" /\ up /\ job = <<>> /\ warmer' = NewWarmer(snap, camp)
        /\ camp' \in {NoCampaign, camp}
    BY <1>5 DEF MakeWarmer, Vacant, Settling, Go, futures
  <2>2. /\ warmer' \in Warmers /\ warmer'.up /\ warmer'.grace = 0
        /\ camp' \in Campaigns
    BY <2>1, WarmerOps, CampaignOps DEF IInv, TypeOK
  <2>3. PhaseFits' /\ GraceLeft'
    BY <2>1, <2>2, RunnerAssumptions DEF PhaseFits, GraceLeft
  <2>4. QED
    BY <2>1, <2>2, <2>3, SlotKeeps DEF IInv, TypeOK, Phases
<1>6. CASE PreclearSold
  <2>0. coins' \in 0 .. MaxCoins
    <3>1. coins \in 0 .. MaxCoins /\ coins' \in 0 .. coins
      BY <1>6 DEF IInv, TypeOK, PreclearSold
    <3>2. QED
      BY <3>1, RunnerAssumptions
  <2>1. /\ UNCHANGED <<file, tries, sending, order, held, up, row>>
        /\ UNCHANGED <<job, commands>>
        /\ phase' = "idle" /\ snap' = NoRow /\ up /\ phase = "tick"
        /\ Keep(warmer.camp, warmer)
    BY <1>6 DEF PreclearSold, Preclearing, Ticking, Idle, futures, IInv, TypeOK
  <2>2. /\ warmer' \in Warmers /\ camp' \in Campaigns /\ warmer'.up = warmer.up
        /\ warmer'.grace = warmer.grace
        /\ PreclearPending(warmer'.camp) => PreclearPending(warmer.camp)
    BY <2>1, KeepFacts, CampaignOps DEF IInv, TypeOK, Warmers
  <2>3. warmer.up /\ ~file.bad
    BY <2>1 DEF IInv, BadFileIdle, PhaseFits
  <2>4. PhaseFits' /\ GraceLeft'
    BY <2>1, <2>2, <2>3 DEF IInv, PhaseFits, GraceLeft
  <2>5. QED
    BY <2>0, <2>1, <2>2, <2>3, <2>4, NoRowType, SlotKeeps DEF IInv, TypeOK, Phases
<1>7. CASE PreclearFailed
  <2> DEFINE w == [warmer EXCEPT !.grace = @ + 1]
  <2>1. /\ UNCHANGED <<file, tries, sending, order, held, up, row, coins>>
        /\ UNCHANGED <<job, commands>>
        /\ phase' = "idle" /\ snap' = NoRow /\ up /\ phase = "tick"
        /\ PreclearPending(warmer.camp)
        /\ IF w.grace >= MaxGrace THEN Keep(Cleared(w.camp), w)
           ELSE warmer' = w /\ UNCHANGED camp
    BY <1>7 DEF PreclearFailed, Preclearing, Ticking, Idle, futures
  <2>2. /\ w \in Warmers /\ w.up = warmer.up /\ w.camp = warmer.camp
        /\ w.camp \in Campaigns
        /\ w.grace = warmer.grace + 1
    BY <2>1, RunnerAssumptions DEF IInv, TypeOK, GraceLeft, Warmers
  <2> HIDE DEF w
  <2>3. warmer.up /\ ~file.bad
    BY <2>1 DEF IInv, BadFileIdle, PhaseFits
  <2>4. /\ warmer' \in Warmers /\ camp' \in Campaigns /\ warmer'.up = warmer.up
        /\ PreclearPending(warmer'.camp) => warmer'.grace < MaxGrace
    <3>1. CASE w.grace >= MaxGrace
      <4>1. Cleared(w.camp) \in Campaigns /\ ~PreclearPending(Cleared(w.camp))
        BY <2>2, CampaignOps
      <4>2. QED
        BY <2>1, <2>2, <3>1, <4>1, KeepFacts
    <3>2. CASE ~(w.grace >= MaxGrace)
      <4>1. w.grace < MaxGrace
        BY <2>2, <3>2, RunnerAssumptions DEF IInv, TypeOK, Warmers
      <4>2. QED
        BY <2>1, <2>2, <3>2, <4>1 DEF IInv, TypeOK
    <3>3. QED
      BY <3>1, <3>2
  <2>5. PhaseFits' /\ GraceLeft'
    BY <2>1, <2>3, <2>4 DEF IInv, PhaseFits, GraceLeft
  <2>6. QED
    BY <2>1, <2>3, <2>4, <2>5, NoRowType, SlotKeeps DEF IInv, TypeOK, Phases
<1>8. CASE PreclearWaits
  <2>1. /\ UNCHANGED <<file, tries, sending, order, held, up>>
        /\ row' \in Rows /\ snap' \in Rows /\ phase' \in Phases
        /\ warmer' \in Warmers /\ camp' \in Campaigns
        /\ coins' \in 0 .. MaxCoins /\ commands' \in 0 .. MaxCommands
    BY <1>8
       DEF IInv, TypeOK, BadFileIdle, PhaseFits, GraceLeft, Phases, Rows, NoRow,
           PreclearWaits, Preclearing, Ticking, Idle, futures
  <2>2. /\ warmer'.up /\ phase' \notin {"start", "cancel"} => ~file.bad
        /\ PhaseFits' /\ GraceLeft'
    BY <1>8
       DEF IInv, TypeOK, BadFileIdle, PhaseFits, GraceLeft, Phases, Rows, NoRow,
           PreclearWaits, Preclearing, Ticking, Idle, futures
  <2>3. UNCHANGED job
    BY <1>8 DEF PreclearWaits, Preclearing, Ticking, Idle, futures
  <2>4. QED
    BY <2>1, <2>2, <2>3, SlotKeeps
<1>9. CASE PreclearStuck
  <2>1. /\ UNCHANGED <<file, tries, sending, order, held, up>>
        /\ row' \in Rows /\ snap' \in Rows /\ phase' \in Phases
        /\ warmer' \in Warmers /\ camp' \in Campaigns
        /\ coins' \in 0 .. MaxCoins /\ commands' \in 0 .. MaxCommands
    BY <1>9, RunnerAssumptions
       DEF IInv, TypeOK, BadFileIdle, PhaseFits, GraceLeft, Phases, Rows, NoRow,
           PreclearStuck, Preclearing, Ticking, Idle, futures, Warmers
  <2>2. /\ warmer'.up /\ phase' \notin {"start", "cancel"} => ~file.bad
        /\ PhaseFits' /\ GraceLeft'
    BY <1>9, RunnerAssumptions
       DEF IInv, TypeOK, BadFileIdle, PhaseFits, GraceLeft, Phases, Rows, NoRow,
           PreclearStuck, Preclearing, Ticking, Idle, futures, Warmers
  <2>3. UNCHANGED job
    BY <1>9 DEF PreclearStuck, Preclearing, Ticking, Idle, futures, Warmers
  <2>4. QED
    BY <2>1, <2>2, <2>3, SlotKeeps
<1>10. CASE PreclearDone
  <2>1. /\ UNCHANGED <<file, tries, sending, order, held, up, row>>
        /\ UNCHANGED <<job, commands>>
        /\ phase' = "idle" /\ snap' = NoRow /\ up /\ phase = "tick"
        /\ coins' \in 0 .. MaxCoins
        /\ Keep(Cleared(warmer.camp), warmer)
    BY <1>10 DEF PreclearDone, Preclearing, Ticking, Idle, futures, IInv, TypeOK
  <2>2. /\ warmer' \in Warmers /\ camp' \in Campaigns /\ warmer'.up = warmer.up
        /\ warmer'.grace = warmer.grace
        /\ PreclearPending(warmer'.camp) => PreclearPending(warmer.camp)
    BY <2>1, KeepFacts, CampaignOps DEF IInv, TypeOK, Warmers
  <2>3. warmer.up /\ ~file.bad
    BY <2>1 DEF IInv, BadFileIdle, PhaseFits
  <2>4. PhaseFits' /\ GraceLeft'
    BY <2>1, <2>2, <2>3 DEF IInv, PhaseFits, GraceLeft
  <2>5. QED
    BY <2>1, <2>2, <2>3, <2>4, NoRowType, SlotKeeps DEF IInv, TypeOK, Phases
<1>11. CASE WindDownPass
  <2> DEFINE n == IF warmer.passes < MaxPasses THEN warmer.passes + 1 ELSE warmer.passes
             w == [warmer EXCEPT !.passes = n]
  <2>0. coins' \in 0 .. MaxCoins
    <3>1. coins \in 0 .. MaxCoins /\ coins' \in 0 .. coins
      BY <1>11 DEF IInv, TypeOK, WindDownPass
    <3>2. QED
      BY <3>1, RunnerAssumptions
  <2>1. /\ UNCHANGED <<file, tries, sending, order, held, up, row>>
        /\ UNCHANGED <<job, commands>>
        /\ phase' = "idle" /\ snap' = NoRow /\ up /\ phase = "tick"
        /\ Keep(warmer.camp, w)
    BY <1>11 DEF WindDownPass, WindingDown, Ticking, Idle, futures, IInv, TypeOK
  <2>2. n \in 0 .. MaxPasses
    BY RunnerAssumptions DEF IInv, TypeOK, Warmers
  <2> HIDE DEF n
  <2>3. w \in Warmers /\ w.up = warmer.up /\ w.grace = warmer.grace
    BY <2>2 DEF IInv, TypeOK, Warmers
  <2> HIDE DEF w
  <2>4. /\ warmer' \in Warmers /\ camp' \in Campaigns /\ warmer'.up = warmer.up
        /\ warmer'.grace = warmer.grace /\ warmer'.camp = warmer.camp
    BY <2>1, <2>3, KeepFacts DEF IInv, TypeOK, Warmers
  <2>5. warmer.up /\ ~file.bad
    BY <2>1 DEF IInv, BadFileIdle, PhaseFits
  <2>6. PhaseFits' /\ GraceLeft'
    BY <2>1, <2>4, <2>5 DEF IInv, PhaseFits, GraceLeft
  <2>7. QED
    BY <2>0, <2>1, <2>4, <2>5, <2>6, NoRowType, SlotKeeps DEF IInv, TypeOK, Phases
<1>12. CASE WindDownLast
  <2> DEFINE c == [warmer.camp EXCEPT !.finished = TRUE]
             w == Stopping(warmer)
  <2>0. coins' \in 0 .. MaxCoins
    <3>1. coins \in 0 .. MaxCoins /\ coins' \in 0 .. coins
      BY <1>12 DEF IInv, TypeOK, WindDownLast
    <3>2. QED
      BY <3>1, RunnerAssumptions
  <2>1. /\ UNCHANGED <<file, tries, sending, order, held, up, row, snap, commands>>
        /\ phase' = "final" /\ up /\ phase = "tick" /\ job = <<>>
        /\ job' = Pruned(DrainJob, file)
        /\ Keep(c, w)
    BY <1>12 DEF WindDownLast, WindingDown, Ticking, Go, StopJob, IInv, TypeOK
  <2>2. /\ c \in Campaigns /\ (PreclearPending(c) => PreclearPending(warmer.camp))
        /\ w \in Warmers /\ w.up = warmer.up /\ w.grace = warmer.grace
    <3>1. warmer \in Warmers /\ warmer.camp \in Campaigns
      BY DEF IInv, TypeOK, Warmers
    <3>2. QED
      BY <3>1, WarmerOps, CampaignOps
  <2> HIDE DEF c, w
  <2>3. /\ warmer' \in Warmers /\ camp' \in Campaigns /\ warmer'.up = warmer.up
        /\ warmer'.grace = warmer.grace /\ warmer'.camp = c
    BY <2>1, <2>2, KeepFacts
  <2>4. warmer.up /\ ~file.bad
    BY <2>1 DEF IInv, BadFileIdle, PhaseFits
  <2>5. PhaseFits' /\ GraceLeft'
    BY <2>1, <2>2, <2>3, <2>4 DEF IInv, PhaseFits, GraceLeft
  <2>6. QED
    BY <2>0, <2>1, <2>3, <2>4, <2>5, SlotKeeps DEF IInv, TypeOK, Phases
<1>13. CASE Warm
  <2>1. /\ UNCHANGED <<file, tries, sending, order, held, up, row, commands>>
        /\ phase' = "idle" /\ snap' = NoRow /\ up /\ phase = "tick" /\ job = <<>>
        /\ job' = Pruned(TickJob, file) \/ job' = Pruned(DrainJob, file)
        /\ \/ UNCHANGED <<coins, warmer, camp>>
           \/ coins < MaxCoins /\ coins' = coins + 1 /\ Keep(warmer.camp, warmer)
    BY <1>13 DEF Warm, Ticking, Idle, StopJob
  <2>2. coins' \in 0 .. MaxCoins
    BY <2>1, RunnerAssumptions DEF IInv, TypeOK
  <2>3. /\ warmer' \in Warmers /\ camp' \in Campaigns /\ warmer'.up = warmer.up
        /\ warmer'.grace = warmer.grace /\ warmer'.camp = warmer.camp
    BY <2>1, KeepFacts DEF IInv, TypeOK, Warmers
  <2>4. warmer.up /\ ~file.bad
    BY <2>1 DEF IInv, BadFileIdle, PhaseFits
  <2>5. PhaseFits' /\ GraceLeft'
    BY <2>1, <2>3, <2>4 DEF IInv, PhaseFits, GraceLeft
  <2>6. QED
    BY <2>1, <2>2, <2>3, <2>4, <2>5, NoRowType, SlotKeeps DEF IInv, TypeOK, Phases
<1>14. CASE RetryStop
  <2>1. /\ UNCHANGED <<file, tries, sending, order, held, up>>
        /\ row' \in Rows /\ snap' \in Rows /\ phase' \in Phases
        /\ warmer' \in Warmers /\ camp' \in Campaigns
        /\ coins' \in 0 .. MaxCoins /\ commands' \in 0 .. MaxCommands
    BY <1>14
       DEF IInv, TypeOK, BadFileIdle, PhaseFits, GraceLeft, Phases, Rows, NoRow,
           RetryStop, Go, StopJob
  <2>2. /\ warmer'.up /\ phase' \notin {"start", "cancel"} => ~file.bad
        /\ PhaseFits' /\ GraceLeft'
    BY <1>14
       DEF IInv, TypeOK, BadFileIdle, PhaseFits, GraceLeft, Phases, Rows, NoRow,
           RetryStop, Go, StopJob
  <2>3. /\ ~file.bad /\ up /\ job = <<>>
        /\ \E j \in {RecoverJob, TickJob, DrainJob} : job' = Pruned(j, file)
    BY <1>14
       DEF IInv, TypeOK, BadFileIdle, PhaseFits, GraceLeft, Phases, Rows, NoRow,
           RetryStop, Go, StopJob
  <2>4. QED
    BY <2>1, <2>2, <2>3, SlotKeeps
<1>15. CASE StillOpen
  <2>1. /\ UNCHANGED <<file, tries, sending, order, held, up>>
        /\ row' \in Rows /\ snap' \in Rows /\ phase' \in Phases
        /\ warmer' \in Warmers /\ camp' \in Campaigns
        /\ coins' \in 0 .. MaxCoins /\ commands' \in 0 .. MaxCommands
    BY <1>15
       DEF IInv, TypeOK, BadFileIdle, PhaseFits, GraceLeft, Phases, Rows, NoRow,
           StillOpen, FinalStop, Idle, futures
  <2>2. /\ warmer'.up /\ phase' \notin {"start", "cancel"} => ~file.bad
        /\ PhaseFits' /\ GraceLeft'
    BY <1>15
       DEF IInv, TypeOK, BadFileIdle, PhaseFits, GraceLeft, Phases, Rows, NoRow,
           StillOpen, FinalStop, Idle, futures
  <2>3. UNCHANGED job
    BY <1>15 DEF StillOpen, FinalStop, Idle, futures
  <2>4. QED
    BY <2>1, <2>2, <2>3, SlotKeeps
<1>16. CASE SwitchOff
  <2>1. /\ UNCHANGED <<file, tries, sending, order, held, up>>
        /\ row' \in Rows /\ snap' \in Rows /\ phase' \in Phases
        /\ warmer' \in Warmers /\ camp' \in Campaigns
        /\ coins' \in 0 .. MaxCoins /\ commands' \in 0 .. MaxCommands
    BY <1>16, WarmerOps, CampaignOps
       DEF IInv, TypeOK, BadFileIdle, PhaseFits, GraceLeft, Phases, Rows, NoRow,
           SwitchOff, FinalStop, Idle, futures, NoWarmer
  <2>2. /\ warmer'.up /\ phase' \notin {"start", "cancel"} => ~file.bad
        /\ PhaseFits' /\ GraceLeft'
    BY <1>16, WarmerOps, CampaignOps
       DEF IInv, TypeOK, BadFileIdle, PhaseFits, GraceLeft, Phases, Rows, NoRow,
           SwitchOff, FinalStop, Idle, futures, NoWarmer
  <2>3. UNCHANGED job
    BY <1>16 DEF SwitchOff, FinalStop, Idle, futures, NoWarmer
  <2>4. QED
    BY <2>1, <2>2, <2>3, SlotKeeps
<1>17. CASE SwitchOffFailed
  <2>1. /\ UNCHANGED <<file, tries, sending, order, held, up>>
        /\ row' \in Rows /\ snap' \in Rows /\ phase' \in Phases
        /\ warmer' \in Warmers /\ camp' \in Campaigns
        /\ coins' \in 0 .. MaxCoins /\ commands' \in 0 .. MaxCommands
    BY <1>17, WarmerOps, CampaignOps
       DEF IInv, TypeOK, BadFileIdle, PhaseFits, GraceLeft, Phases, Rows, NoRow,
           SwitchOffFailed, FinalStop, Idle, futures, NoWarmer
  <2>2. /\ warmer'.up /\ phase' \notin {"start", "cancel"} => ~file.bad
        /\ PhaseFits' /\ GraceLeft'
    BY <1>17, WarmerOps, CampaignOps
       DEF IInv, TypeOK, BadFileIdle, PhaseFits, GraceLeft, Phases, Rows, NoRow,
           SwitchOffFailed, FinalStop, Idle, futures, NoWarmer
  <2>3. UNCHANGED job
    BY <1>17 DEF SwitchOffFailed, FinalStop, Idle, futures, NoWarmer
  <2>4. QED
    BY <2>1, <2>2, <2>3, SlotKeeps
<1>18. QED
  BY <1>1, <1>2, <1>3, <1>4, <1>5, <1>6, <1>7, <1>8, <1>9, <1>10, <1>11, <1>12, <1>13,
     <1>14, <1>15, <1>16, <1>17

\* What is loaded can be read and keeps what it remembers; what cannot be
\* read counts as exposure.
LEMMA LoadFacts ==
  ASSUME NEW f \in Files
  PROVE  /\ Load(f) \in Files /\ ~Load(f).bad
         /\ f.bad => HasExposure(Load(f))
         /\ ~f.bad => Load(f) = f
BY DEF Load, EmptyFile, Files, HasExposure

\* A poll that loads the file: recover, or the sweep of an orphan.
LEMMA LoadingKeeps ==
  ASSUME IInv, up, job = <<>>,
         file' = Load(file), job' = Pruned(RecoverJob, file'),
         UNCHANGED <<tries, sending, order, held, up>>,
         row' \in Rows, snap' \in Rows, phase' \in Phases, warmer' \in Warmers,
         camp' \in Campaigns, coins' \in 0 .. MaxCoins,
         commands' \in 0 .. MaxCommands, PhaseFits', GraceLeft'
  PROVE  IInv'
<1>1. /\ file' \in Files /\ ~file'.bad
      /\ file.bad => HasExposure(file') /\ ~file.pend
      /\ ~file.bad => file' = file
  BY LoadFacts DEF IInv, TypeOK, BadFileIdle, HasExposure
<1>2. IsJob(job') /\ ~Step("answer")' /\ ~Step("answer")
  BY BeginFacts DEF Step
<1>3. TypeOK'
  BY <1>1, <1>2 DEF IInv, TypeOK
<1>4. file.bad => order = "none"
  BY <1>1 DEF IInv, OrderRemembered
<1>5. (OrderAwaited /\ OrderRemembered /\ UnfilledIsFlat)'
  BY <1>1, <1>2, <1>4
     DEF IInv, OrderAwaited, OrderRemembered, UnfilledIsFlat
<1>6. HeldRemembered'
  BY <1>1 DEF IInv, HeldRemembered, HasExposure
<1>7. BadFileIdle'
  BY <1>1 DEF BadFileIdle
<1>8. QED
  BY <1>3, <1>5, <1>6, <1>7 DEF IInv

\* The start of a poll.
LEMMA PollStartKeeps == IInv /\ Poll => IInv'
<1> SUFFICES ASSUME IInv, Poll PROVE IInv'
  OBVIOUS
<1>1. /\ up /\ job = <<>> /\ phase = "idle" /\ phase' = "sweep" /\ snap' = row
      /\ UNCHANGED <<tries, sending, order, held, up, row, warmer, camp, coins, commands>>
  BY DEF Poll, InPoll
<1>2. PhaseFits' /\ GraceLeft'
  BY <1>1 DEF IInv, PhaseFits, GraceLeft
<1>3. CASE Orphan(row)
  <2>1. file' = Load(file) /\ job' = Pruned(RecoverJob, file')
    BY <1>3 DEF Poll
  <2>2. QED
    BY <1>1, <1>2, <2>1, LoadingKeeps DEF IInv, TypeOK, Phases
<1>4. CASE ~Orphan(row)
  <2>1. UNCHANGED <<file, job>>
    BY <1>4 DEF Poll
  <2>2. warmer'.up => ~file.bad
    BY <1>1 DEF IInv, BadFileIdle
  <2>3. QED
    BY <1>1, <1>2, <2>1, <2>2, SlotKeeps DEF IInv, TypeOK, Phases
<1>5. QED
  BY <1>3, <1>4

\* SlotWarmer.start.
LEMMA StartKeeps == IInv /\ Start => IInv'
<1> SUFFICES ASSUME IInv, Start PROVE IInv'
  OBVIOUS
<1> DEFINE w == [warmer EXCEPT !.camp = NewCampaign]
<1>1. /\ up /\ phase = "start" /\ phase' = "tick" /\ snap' = snap
      /\ file' = Load(file) /\ job' = Pruned(RecoverJob, file')
      /\ UNCHANGED <<tries, sending, order, held, up, row, coins, commands>>
      /\ (warmer' = w /\ camp' = NewCampaign) \/ UNCHANGED <<warmer, camp>>
  BY DEF Start, Go
<1>2. /\ warmer' \in Warmers /\ camp' \in Campaigns
      /\ warmer'.up = warmer.up /\ warmer'.grace = warmer.grace
  BY <1>1, CampaignOps DEF IInv, TypeOK, Warmers
<1>3. warmer'.up /\ warmer'.grace < MaxGrace
  BY <1>1, <1>2, RunnerAssumptions DEF IInv, PhaseFits, GraceLeft
<1>4. PhaseFits' /\ GraceLeft'
  BY <1>1, <1>3 DEF PhaseFits, GraceLeft
<1>5. job = <<>>
  BY <1>1 DEF IInv, PhaseFits
<1>6. QED
  BY <1>1, <1>2, <1>4, <1>5, LoadingKeeps DEF IInv, TypeOK, Phases

-----------------------------------------------------------------------------
(* The operator, the process, the exchange and time.                       *)

\* The operator's commands touch the row and the campaign's file.
LEMMA OperatorKeeps == IInv /\ Operator => IInv'
<1> SUFFICES ASSUME IInv, Operator PROVE IInv'
  OBVIOUS
<1>1. /\ UNCHANGED <<file, job, tries, sending, order, held, up, snap, phase, warmer,
                     coins>>
      /\ commands < MaxCommands /\ commands' = commands + 1
      /\ camp' \in {camp, NoCampaign}
  BY DEF Operator, PressOn, PressOff, SwitchLive, PasteKey, DeleteKey, Command,
         Forgotten, futures
<1>2. row' \in Rows
  BY DEF Operator, PressOn, PressOff, SwitchLive, PasteKey, DeleteKey, Command,
         Rows, IInv, TypeOK
<1>3. commands' \in 0 .. MaxCommands
  BY <1>1, RunnerAssumptions DEF IInv, TypeOK
<1>4. camp' \in Campaigns
  BY <1>1, CampaignOps DEF IInv, TypeOK
<1>5. PhaseFits' /\ GraceLeft'
  BY <1>1 DEF IInv, PhaseFits, GraceLeft
<1>6. QED
  BY <1>1, <1>2, <1>3, <1>4, <1>5, SlotKeeps DEF IInv, TypeOK, BadFileIdle

\* The process ends: nobody waits for an order any more.
LEMMA StoppedKeeps ==
  ASSUME IInv, Stopped, UNCHANGED <<file, sending, held, row, camp, coins, commands>>
  PROVE  IInv'
<1>1. /\ up' = FALSE /\ phase' = "idle" /\ snap' = NoRow /\ warmer' = NoWarmer
      /\ job' = <<>> /\ tries' = 0 /\ order' = Abandoned(order)
  BY DEF Stopped, Idle
<1>2. /\ NoWarmer \in Warmers /\ ~NoWarmer.up
      /\ ~PreclearPending(NoWarmer.camp)
  <2>1. NoCampaign \in Campaigns /\ ~PreclearPending(NoCampaign)
    BY DEF NoCampaign, Campaigns, PreclearPending
  <2>2. QED
    BY <2>1, CountersStart DEF NoWarmer, Warmers
<1>3. TypeOK'
  <2>1. IsJob(job')
    BY <1>1 DEF IsJob
  <2>2. QED
    BY <1>1, <1>2, <2>1, ReadsLeft, NoRowType
       DEF IInv, TypeOK, Abandoned, Orders, Phases
<1>4. (OrderAwaited /\ OrderRemembered /\ UnfilledIsFlat /\ HeldRemembered)'
  BY <1>1 DEF IInv, OrderAwaited, OrderRemembered, UnfilledIsFlat, HeldRemembered,
              Abandoned, HasExposure, Step
<1>5. (BadFileIdle /\ PhaseFits /\ GraceLeft)'
  BY <1>1, <1>2 DEF IInv, BadFileIdle, PhaseFits, GraceLeft, HasExposure
<1>6. QED
  BY <1>3, <1>4, <1>5 DEF IInv

\* Each warmer is stopped once when the task is cancelled inside a poll.
LEMMA CancelKeeps == IInv /\ Cancel => IInv'
<1> SUFFICES ASSUME IInv, Cancel PROVE IInv'
  OBVIOUS
<1>1. /\ up /\ warmer.up /\ order' = Abandoned(order) /\ tries' = 0
      /\ warmer' = Stopping(warmer) /\ job' = Pruned(DrainJob, file)
      /\ phase' = "cancel" /\ snap' = snap
      /\ UNCHANGED <<file, sending, held, up, row, camp, coins, commands>>
  BY DEF Cancel, StopJob, Go
<1>2. IsJob(job') /\ ~Step("answer")'
  BY <1>1, BeginFacts
<1>3. /\ warmer' \in Warmers /\ warmer'.up /\ warmer'.camp = warmer.camp
      /\ warmer'.grace = warmer.grace
  BY <1>1 DEF IInv, TypeOK, Warmers, Stopping
<1>4. TypeOK'
  BY <1>1, <1>2, <1>3, ReadsLeft DEF IInv, TypeOK, Abandoned, Orders, Phases
<1>5. (OrderAwaited /\ OrderRemembered /\ UnfilledIsFlat /\ HeldRemembered)'
  BY <1>1, <1>2 DEF IInv, OrderAwaited, OrderRemembered, UnfilledIsFlat,
                    HeldRemembered, Abandoned, HasExposure
<1>6. file.bad => job' = <<>>
  BY <1>1, DrainsNothing DEF IInv, TypeOK, BadFileIdle
<1>7. (BadFileIdle /\ PhaseFits /\ GraceLeft)'
  BY <1>1, <1>3, <1>6 DEF IInv, BadFileIdle, PhaseFits, GraceLeft, HasExposure
<1>8. QED
  BY <1>4, <1>5, <1>7 DEF IInv

\* A process starts, or a file becomes unreadable while none runs.
LEMMA DownKeeps ==
  ASSUME IInv, Restart \/ CorruptFutures \/ CorruptCampaign
  PROVE  IInv'
<1>1. ~up
  BY DEF Restart, CorruptFutures, CorruptCampaign
<1>2. job = <<>> /\ phase = "idle" /\ warmer = NoWarmer /\ ~NoWarmer.up /\ ~Step("answer")
  BY <1>1 DEF IInv, PhaseFits, NoWarmer, Step
<1>3. CASE Restart
  <2>1. order = "none"
    BY <1>2, <1>3 DEF IInv, TypeOK, OrderAwaited, Orders, Restart
  <2>2. TypeOK'
    BY <1>3 DEF IInv, TypeOK, Restart
  <2>3. QED
    BY <1>2, <1>3, <2>1, <2>2
       DEF IInv, OrderAwaited, OrderRemembered, UnfilledIsFlat, HeldRemembered,
           BadFileIdle, PhaseFits, GraceLeft, HasExposure, Step, Restart
<1>4. CASE CorruptFutures
  <2>1. /\ file' \in Files /\ file'.bad /\ ~HasExposure(file')
        /\ UNCHANGED <<job, tries, sending, order, held, up, row, snap, phase, warmer,
                       camp, coins, commands>>
    BY <1>4 DEF CorruptFutures, EmptyFile, Files, HasExposure, slot
  <2>2. TypeOK'
    BY <2>1 DEF IInv, TypeOK
  <2>3. QED
    BY <1>1, <1>2, <2>1, <2>2
       DEF IInv, OrderAwaited, OrderRemembered, UnfilledIsFlat, HeldRemembered,
           BadFileIdle, PhaseFits, GraceLeft, HasExposure, Step
<1>5. CASE CorruptCampaign
  <2>1. camp' \in Campaigns
    BY <1>5 DEF CorruptCampaign, NoCampaign, Campaigns
  <2>2. /\ UNCHANGED <<file, job, tries, sending, order, held, up, row, snap, phase,
                       warmer, coins, commands>>
    BY <1>5 DEF CorruptCampaign, futures
  <2>3. PhaseFits' /\ GraceLeft'
    BY <2>2 DEF IInv, PhaseFits, GraceLeft
  <2>4. QED
    BY <2>1, <2>2, <2>3, SlotKeeps DEF IInv, TypeOK, BadFileIdle
<1>6. QED
  BY <1>3, <1>4, <1>5

\* The exchange and the clock of a position.
LEMMA MarketKeeps == IInv /\ Market => IInv'
<1> SUFFICES ASSUME IInv, Market PROVE IInv'
  OBVIOUS
<1>1. UNCHANGED <<up, row, snap, phase, warmer, camp, coins, commands>>
  BY DEF Market, slot
<1>2. ASSUME OrderFills \/ OrderDies \/ ClosedElsewhere PROVE IInv'
  <2>1. UNCHANGED <<file, job, tries, sending>>
    BY <1>2 DEF OrderFills, OrderDies, ClosedElsewhere
  <2>2. TypeOK'
    BY <1>1, <1>2, <2>1
       DEF IInv, TypeOK, OrderFills, OrderDies, ClosedElsewhere, Orders
  <2>3. (OrderAwaited /\ OrderRemembered /\ UnfilledIsFlat /\ HeldRemembered)'
    BY <1>1, <1>2, <2>1
       DEF IInv, TypeOK, OrderAwaited, OrderRemembered, UnfilledIsFlat, HeldRemembered,
           OrderFills, OrderDies, ClosedElsewhere, HasExposure, Step, Orders
  <2>4. (BadFileIdle /\ PhaseFits /\ GraceLeft)'
    BY <1>1, <2>1 DEF IInv, BadFileIdle, PhaseFits, GraceLeft, HasExposure
  <2>5. QED
    BY <2>2, <2>3, <2>4 DEF IInv
<1>3. CASE HoldElapses
  <2>1. /\ file' \in Files /\ HasExposure(file') /\ ~file.bad /\ ~file'.bad
        /\ file'.pend = file.pend
        /\ UNCHANGED <<job, tries, sending, order, held>>
    BY <1>3 DEF HoldElapses, IInv, TypeOK, BadFileIdle, Files, HasExposure
  <2>2. TypeOK'
    BY <1>1, <2>1 DEF IInv, TypeOK
  <2>3. QED
    BY <1>1, <2>1, <2>2
       DEF IInv, OrderAwaited, OrderRemembered, UnfilledIsFlat, HeldRemembered,
           BadFileIdle, PhaseFits, GraceLeft, Step
<1>4. QED
  BY <1>2, <1>3 DEF Market, FuturesEnv

\* The windows of the campaign end.
LEMMA TimeKeeps ==
  ASSUME IInv, NEW flag \in {"late", "over"}, TimePasses(flag)
  PROVE  IInv'
<1> DEFINE c == After(warmer.camp, flag)
<1>1. warmer \in Warmers /\ warmer.camp \in Campaigns /\ camp \in Campaigns
  BY DEF IInv, TypeOK, Warmers
<1>2. /\ c \in Campaigns /\ camp' \in Campaigns
      /\ PreclearPending(c) => PreclearPending(warmer.camp)
  BY <1>1, CampaignOps DEF TimePasses
<1>3. /\ warmer' = [warmer EXCEPT !.camp = c]
      /\ UNCHANGED <<file, job, tries, sending, order, held, up, row, snap, phase,
                     coins, commands>>
  BY DEF TimePasses, futures
<1>4. c = warmer.camp \/ up
  BY <1>1 DEF IInv, PhaseFits, After, NoWarmer, NoCampaign
<1> HIDE DEF c
<1>5. /\ warmer' \in Warmers /\ warmer'.up = warmer.up
      /\ warmer'.camp = c /\ warmer'.grace = warmer.grace
      /\ c = warmer.camp => warmer' = warmer
  BY <1>1, <1>2, <1>3 DEF Warmers
<1>6. PhaseFits' /\ GraceLeft'
  BY <1>2, <1>3, <1>4, <1>5 DEF IInv, PhaseFits, GraceLeft
<1>7. QED
  BY <1>2, <1>3, <1>5, <1>6, SlotKeeps DEF IInv, TypeOK, BadFileIdle

-----------------------------------------------------------------------------
(* The theorems.                                                           *)

\* The invariant holds at the start.
LEMMA InitIInv == Init => IInv
<1> SUFFICES ASSUME Init PROVE IInv
  OBVIOUS
<1>1. /\ NoCampaign \in Campaigns /\ ~PreclearPending(NoCampaign)
      /\ EmptyFile \in Files
  BY DEF NoCampaign, Campaigns, PreclearPending, EmptyFile, Files
<1>2. NoWarmer \in Warmers /\ ~NoWarmer.up /\ NoWarmer.camp = NoCampaign
  BY <1>1, CountersStart DEF NoWarmer, Warmers
<1>3. row \in Rows
  BY RunnerAssumptions DEF Init, NoRow, Rows
<1>4. IsJob(<<>>)
  BY DEF IsJob
<1>5. TypeOK
  BY <1>1, <1>2, <1>3, <1>4, ReadsLeft, NoRowType, RunnerAssumptions
     DEF Init, TypeOK, Orders, Phases
<1>6. OrderAwaited /\ OrderRemembered /\ UnfilledIsFlat /\ HeldRemembered
  BY DEF Init, OrderAwaited, OrderRemembered, UnfilledIsFlat, HeldRemembered, Step
<1>7. BadFileIdle /\ PhaseFits /\ GraceLeft
  BY <1>1, <1>2 DEF Init, BadFileIdle, PhaseFits, GraceLeft, EmptyFile, HasExposure
<1>8. QED
  BY <1>5, <1>6, <1>7 DEF IInv

\* Every step keeps it.
LEMMA StepIInv == IInv /\ [Next]_vars => IInv'
<1> SUFFICES ASSUME IInv, [Next]_vars PROVE IInv'
  OBVIOUS
<1>1. CASE LoopStep
  <2>1. CASE Cancelled
    BY <2>1, StoppedKeeps DEF Cancelled
  <2>2. CASE ~Cancelled
    BY <1>1, <2>2, PollKeeps, PollStartKeeps, StartKeeps DEF LoopStep
  <2>3. QED
    BY <2>1, <2>2
<1>2. CASE Engine
  <2>1. CASE Quietly(FuturesStep)
    BY <2>1, EngineKeeps DEF Quietly, slot, IInv, TypeOK
  <2>2. CASE Counted(Opened \/ CloseAccepted)
    <3>1. camp' \in Campaigns
      BY <2>2, CampaignOps DEF Counted, IInv, TypeOK, Warmers
    <3>2. QED
      BY <2>2, <3>1, EngineKeeps DEF Counted
  <2>3. QED
    BY <1>2, <2>1, <2>2 DEF Engine
<1>3. CASE Operator
  BY <1>3, OperatorKeeps
<1>4. CASE ProcessStep
  <2>1. CASE Crash
    BY <2>1, StoppedKeeps DEF Crash
  <2>2. QED
    BY <1>4, <2>1, CancelKeeps, DownKeeps DEF ProcessStep
<1>5. CASE Environment
  BY <1>5, MarketKeeps, TimeKeeps DEF Environment, DeadlinePasses, CampaignElapses
<1>6. CASE UNCHANGED vars
  BY <1>6 DEF vars, futures, slot, IInv, TypeOK, OrderAwaited, OrderRemembered,
     UnfilledIsFlat, HeldRemembered, BadFileIdle, PhaseFits, GraceLeft, HasExposure,
     Step
<1>7. QED
  BY <1>1, <1>2, <1>3, <1>4, <1>5, <1>6 DEF Next

\* In every reachable state the warmer's file, its job and the exchange fit
\* together, for any number of coins, passes, commands and faults.
THEOREM WarmingInvariant == Spec => []IInv
<1>1. Init => IInv
  BY InitIInv
<1>2. IInv /\ [Next]_vars => IInv'
  BY StepIInv
<1>3. QED
  BY <1>1, <1>2, PTL DEF Spec

\* Every reachable state is well typed: the retries of a reconciliation, the
\* passes of a wind-down and the failures of a preclearing stay within their
\* limits (reconcile_pending, MAX_WIND_DOWN_PASSES, MAX_PRECLEAR_GRACE,
\* MAX_PRECLEAR_STUCK).
THEOREM WarmingTypeCorrect == Spec => []TypeOK
<1>1. IInv => TypeOK
  BY DEF IInv
<1>2. QED
  BY <1>1, WarmingInvariant, PTL

\* The state file knows of every warming position and of every order that may
\* become one (the breadcrumb of open_position, load_state, sweep_exchange).
THEOREM PositionsAreTracked == Spec => []EveryPositionTracked
<1>1. IInv => EveryPositionTracked
  BY DEF IInv, OrderRemembered, HeldRemembered, EveryPositionTracked, HasExposure
<1>2. QED
  BY <1>1, WarmingInvariant, PTL

\* An open is sent only when nothing is held and no earlier order can still
\* land (open_position, PENDING_RECHECKS).
THEOREM OpensAreFlat == Spec => OpensOnlyWhenFlat
<1>1. IInv /\ [Next]_vars
        => [order # "sent" /\ order' = "sent" => held = 0 /\ order = "none"]_vars
  <2> SUFFICES ASSUME IInv, Next, order # "sent", order' = "sent"
               PROVE  held = 0 /\ order = "none"
    OBVIOUS
  <2>1. SendOpen
    <3>1. ~LoopStep
      BY DEF LoopStep, Poll, StopUnwanted, KeepWarmer, NoNewWarmer, NoClient,
         MakeWarmer,
         Start, PreclearSold, PreclearFailed, PreclearWaits, PreclearStuck,
         PreclearDone,
         WindDownPass, WindDownLast, Warm, RetryStop, StillOpen, SwitchOff,
         SwitchOffFailed, Cancelled, Stopped, Abandoned, futures
    <3>2. ~Operator /\ ~ProcessStep
      BY DEF Operator, PressOn, PressOff, SwitchLive, PasteKey, DeleteKey, ProcessStep,
         Crash, Cancel, Restart, CorruptFutures, CorruptCampaign, Stopped, Abandoned,
         futures
    <3>3. ~Environment
      BY DEF Environment, Market, FuturesEnv, OrderFills, OrderDies, ClosedElsewhere,
         HoldElapses, DeadlinePasses, CampaignElapses, TimePasses, futures
    <3>4. Engine => SendOpen
      BY DEF Engine, Quietly, Counted, FuturesStep, Opened, CloseAccepted, SweepUnread,
         Sweep, ReconcileUnread, ReconcileFound, ReconcileAgain, ReconcileNever,
         CloseDry,
         CloseFailed, OpenSkipped, OpenDry, OpenRejected, OpenUnanswered, Abandoned
    <3>5. QED
      BY <3>1, <3>2, <3>3, <3>4 DEF Next
  <2>2. job # <<>> /\ ~file.bad /\ ~HasExposure(file)
    BY <2>1 DEF SendOpen, MayOpen, HasExposure, IInv, BadFileIdle, Step
  <2>3. held = 0
    BY <2>2 DEF IInv, TypeOK, HeldRemembered
  <2>4. order = "none"
    BY <2>2 DEF IInv, OrderRemembered, HasExposure
  <2>5. QED
    BY <2>3, <2>4
<1>2. QED
  BY <1>1, WarmingInvariant, PTL DEF Spec, OpensOnlyWhenFlat

\* The loop switches the button off at the end of a campaign only when nothing
\* is left on the exchange and nothing can still land there (the clean check
\* of soft_start_loop).
THEOREM SwitchOffIsFlat == Spec => SwitchedOffOnlyFlat
<1>1. IInv /\ [Next]_vars
        => [phase = "final" /\ row.on /\ ~row'.on /\ phase' = "idle"
              => held = 0 /\ order # "late"]_vars
  <2> SUFFICES ASSUME IInv, Next, phase = "final", row.on, ~row'.on, phase' = "idle"
               PROVE  held = 0 /\ order # "late"
    OBVIOUS
  <2>1. SwitchOff
    <3>1. LoopStep => SwitchOff
      BY DEF LoopStep, Poll, StopUnwanted, KeepWarmer, NoNewWarmer, NoClient,
         MakeWarmer,
         Start, PreclearSold, PreclearFailed, PreclearWaits, PreclearStuck,
         PreclearDone,
         WindDownPass, WindDownLast, Warm, RetryStop, StillOpen, SwitchOffFailed,
         Cancelled
    <3>2. ~Engine
      BY DEF Engine, Quietly, Counted, slot
    <3>3. ~Operator
      BY DEF Operator, PressOn, PressOff, SwitchLive, PasteKey, DeleteKey
    <3>4. ~ProcessStep /\ ~Environment
      BY DEF ProcessStep, Crash, Cancel, Restart, CorruptFutures, CorruptCampaign,
         Environment, Market, DeadlinePasses, CampaignElapses, TimePasses, slot
    <3>5. QED
      BY <3>1, <3>2, <3>3, <3>4 DEF Next
  <2>2. ~file.bad /\ ~HasExposure(file)
    BY <2>1 DEF SwitchOff, FinalStop, MayGo, IInv, BadFileIdle, PhaseFits
  <2>3. QED
    BY <2>2 DEF IInv, TypeOK, HeldRemembered, OrderRemembered, HasExposure
<1>2. QED
  BY <1>1, WarmingInvariant, PTL DEF Spec, SwitchedOffOnlyFlat

=============================================================================
