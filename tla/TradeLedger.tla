----------------------------- MODULE TradeLedger -----------------------------
(***************************************************************************)
(* What one live slot promises of its trades, whatever orders, retries,    *)
(* fill polls, closes, reconciliation passes and restarts it is made of:   *)
(* an order is sent only while the slot holds nothing, becomes a tracked   *)
(* position at most once, and a tracked position is booked once, unless    *)
(* the process ends first and forgets it.                                  *)
(***************************************************************************)
EXTENDS Integers

CONSTANT Trades

VARIABLES
  stage,  \* where each trade is
  books   \* how often each trade was booked

vars == <<stage, books>>

Stages == {"new", "sent", "open", "booked", "over"}

InStage(s) == {t \in Trades : stage[t] = s}

\* The trades of T go on to stage s.
Moved(T, s) == [t \in Trades |-> IF t \in T THEN s ELSE stage[t]]

-----------------------------------------------------------------------------
Init ==
  /\ stage = [t \in Trades |-> "new"]
  /\ books = [t \in Trades |-> 0]

\* The first attempt of an entry, or another one; earlier attempts may be
\* given up with it.
Send(t) ==
  /\ stage[t] = "new" /\ InStage("open") = {}
  /\ \E D \in SUBSET InStage("sent") :
       stage' = [Moved(D, "over") EXCEPT ![t] = "sent"]
  /\ UNCHANGED books

\* Attempts that opened nothing, as far as the slot knows
Miss ==
  /\ \E D \in SUBSET InStage("sent") : stage' = Moved(D, "over")
  /\ UNCHANGED books

\* One attempt of the entry becomes the slot's position.
Open(t) ==
  /\ stage[t] = "sent" /\ InStage("open") = {}
  /\ stage' = [Moved(InStage("sent"), "over") EXCEPT ![t] = "open"]
  /\ UNCHANGED books

Book(t) ==
  /\ stage[t] = "open"
  /\ stage' = [stage EXCEPT ![t] = "booked"]
  /\ books' = [books EXCEPT ![t] = @ + 1]

\* The process ends; what it was doing is forgotten.
Forget ==
  /\ stage' = Moved(InStage("sent") \cup InStage("open"), "over")
  /\ UNCHANGED books

Next ==
  \/ \E t \in Trades : Send(t) \/ Open(t) \/ Book(t)
  \/ Miss \/ Forget

Spec == Init /\ [][Next]_vars
=============================================================================
