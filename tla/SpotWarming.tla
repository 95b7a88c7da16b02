----------------------------- MODULE SpotWarming -----------------------------
(***************************************************************************)
(* The spot half of account warming: SpotSoftStart                         *)
(* (src/src/execution/spot_soft_start.py) buying, selling and selling off, *)
(* and the books SoftStartBudget keeps about it (soft_start_budget.py).    *)
(*                                                                         *)
(* Amounts are integers: coins in units, money in the price of a unit; an  *)
(* order is for a multiple of Step units, and the client rounds to it.     *)
(* Every order is a limit order: what the exchange accepts rests until it  *)
(* fills, in parts or never, and the books enter it when it is accepted.   *)
(* Between the decision for an order and its answer the process may die,   *)
(* and an answer may be lost; the day's plan and the books are saved in    *)
(* the step that learns the answer.  The fee and the distance of the limit *)
(* from the price are charged apart (_order_cost) and left out.            *)
(***************************************************************************)
EXTENDS Integers, FiniteSets, FiniteSetsExt

CONSTANTS
  Tokens,
  Prices,        \* prices a unit may have
  Cash,          \* free USDT at the start
  Step,          \* units an order's quantity is a multiple of (qty_scale)
  OrderSizes,    \* amounts human_order_usdt may draw, OrderMin the least
  Ceiling,       \* daily_buy_usdt_ceiling
  Baseline,      \* baseline_usdt_per_token
  MinHold,       \* MIN_HOLD_USDT
  MinExchange,   \* MIN_EXCHANGE_NOTIONAL_USDT
  Quota,         \* buys_per_day_max, sells_per_day_max
  MaxOrders,     \* bound: orders sent
  MaxEvents      \* bound: midnights, new campaigns and price moves

OrderMin == Min(OrderSizes)

SpotAssumptions ==
  /\ IsFiniteSet(Tokens) /\ IsFiniteSet(OrderSizes) /\ OrderSizes # {}
  /\ Prices \subseteq Nat \ {0} /\ OrderSizes \subseteq Nat \ {0}
  /\ Step \in Nat \ {0}
  /\ {Cash, Ceiling, Baseline, MinHold, MinExchange, Quota, MaxOrders, MaxEvents} \subseteq Nat
  /\ MinExchange <= MinHold /\ MinHold <= OrderMin /\ MinHold <= Baseline

VARIABLES
  wallet, cash,  \* coins per token and USDT that are free on the exchange
  due,           \* coins per token that resting buys may still bring
  offered,       \* coins per token frozen in resting sales
  price,
  plan,          \* DayPlan
  books,         \* BudgetState, its spot half
  stage,         \* "preclear", "warm", "winding", "over"
  order,         \* the running order, or wind_down: a record
  events, orders, \* history: midnights, campaigns and price moves; orders sent
  sales,         \* history: sales booked per token in this campaign
  missed,        \* history: coins of this campaign that the books have wrong,
                 \* sold without an answer or bought in an answer that said nothing
  windfall       \* history: proceeds of coins the books did not know

vars == <<wallet, cash, due, offered, price, plan, books, stage, order, events,
          orders, sales, missed, windfall>>

-----------------------------------------------------------------------------
(* The books.                                                              *)

NoPosition == [qty |-> 0, cost |-> 0]
NoBooks == [pos |-> [t \in Tokens |-> NoPosition], flow |-> 0, pnl |-> 0,
            legacy |-> 0]

Total(f) == MapThenSumSet(LAMBDA t : f[t], Tokens)
Least(m, n) == IF m < n THEN m ELSE n
Above0(n) == IF n > 0 THEN n ELSE 0

Basis(b) == Total([t \in Tokens |-> b.pos[t].cost])

\* record_spot_buy
RecordBuy(b, t, q, px) ==
  [b EXCEPT !.pos[t] = [qty |-> @.qty + q, cost |-> @.cost + q * px],
            !.flow = @ - q * px]

\* record_spot_sell: the part the books know leaves at its average cost, the
\* rest of the proceeds comes out of what was spent before there were books.
\* The variant leaves the cost of the sold part behind.
Known_all(b, t, q) == q
Known(b, t, q) == Least(q, b.pos[t].qty)
BasisOf(b, t, q) ==
  IF b.pos[t].qty = 0 THEN 0
  ELSE (b.pos[t].cost * Known(b, t, q)) \div b.pos[t].qty
Rest(b, t, q, px) == (q - Known(b, t, q)) * px

RecordSell_keepsCost(b, t, q, px) ==
  [b EXCEPT !.pos[t].qty = @ - Known(b, t, q),
            !.pnl = @ + Known(b, t, q) * px - BasisOf(b, t, q),
            !.legacy = Above0(@ - Rest(b, t, q, px)),
            !.flow = @ + q * px]
RecordSell(b, t, q, px) ==
  [b EXCEPT !.pos[t] = [qty |-> @.qty - Known(b, t, q), cost |-> @.cost - BasisOf(b, t, q)],
            !.pnl = @ + Known(b, t, q) * px - BasisOf(b, t, q),
            !.legacy = Above0(@ - Rest(b, t, q, px)),
            !.flow = @ + q * px]

\* BudgetState of a file from before there were books: what was spent on
\* coins nobody tracks (the migration in _load)
Migrated(flow) == [NoBooks EXCEPT !.flow = flow, !.legacy = Above0(-flow)]

-----------------------------------------------------------------------------
(* The plan of a day.                                                      *)

\* new_day_plan, with the targets already capped by the weight of the day
NewPlan(target) == [today |-> TRUE, buysTarget |-> target, buys |-> 0,
                    sells |-> 0, spent |-> 0]

\* load_plan and the end of __init__
PlanAtStart(target) == IF plan.today THEN plan ELSE NewPlan(target)

-----------------------------------------------------------------------------
(* The process.                                                            *)

NoOrder == [kind |-> "none"]
Free == order.kind = "none"
balances == <<wallet, cash, due, offered>>
market == <<balances, price>>
history == <<events, orders, sales, missed, windfall>>
None == [t \in Tokens |-> 0]

\* fmt_decimals: the nearest multiple of the pair's step
Rounded(q) == ((q + Step \div 2) \div Step) * Step

\* The exchange takes an order that free money or free coins cover; they are
\* frozen until it fills.
AcceptBuy(t, q, px) ==
  /\ q > 0 /\ q * px <= cash
  /\ cash' = cash - q * px
  /\ due' = [due EXCEPT ![t] = @ + q]
  /\ UNCHANGED <<wallet, offered>>

AcceptSale(t, q) ==
  /\ Rounded(q) > 0 /\ Rounded(q) <= wallet[t]
  /\ wallet' = [wallet EXCEPT ![t] = @ - Rounded(q)]
  /\ offered' = [offered EXCEPT ![t] = @ + Rounded(q)]
  /\ UNCHANGED <<cash, due>>

\* one step of a resting order fills, or what is left of it
Lots(m) == {n \in {Step, m} : 0 < n /\ n <= m}

FillBuy(t, n) ==
  /\ due' = [due EXCEPT ![t] = @ - n]
  /\ wallet' = [wallet EXCEPT ![t] = @ + n]
  /\ UNCHANGED <<cash, offered, price, plan, books, stage, order, history>>

FillSale(t, n) ==
  /\ offered' = [offered EXCEPT ![t] = @ - n]
  /\ cash' = cash + n * price[t]
  /\ UNCHANGED <<wallet, due, price, plan, books, stage, order, history>>

\* SlotWarmer.start of a new campaign: _reset_accounting
StartCampaign(target) ==
  /\ Free /\ stage = "over" /\ events < MaxEvents
  /\ books' = NoBooks /\ plan' = NewPlan(target)
  /\ stage' = "preclear"
  /\ events' = events + 1
  /\ sales' = None /\ missed' = None /\ windfall' = 0
  /\ UNCHANGED <<market, order, orders>>

\* A sale that the exchange took and nobody books
LoseSale(t, q) ==
  /\ AcceptSale(t, q)
  /\ missed' = [missed EXCEPT ![t] = @ + Rounded(q)]

\* An order without an answer was taken or not; of a pass it is the coin whose
\* turn it is.
Lost ==
  \/ UNCHANGED <<balances, missed>>
  \/ /\ order.kind = "buy"
     /\ AcceptBuy(order.token, order.qty, order.px)
     /\ UNCHANGED missed
  \/ order.kind = "sell" /\ LoseSale(order.token, order.qty)
  \/ \E t \in Tokens : order.kind = "wind" /\ LoseSale(t, order.qty[t])

\* The process ends, and is started again.
Restart(target) ==
  /\ Lost /\ order' = NoOrder
  /\ plan' = PlanAtStart(target)
  /\ UNCHANGED <<price, books, stage, events, orders, sales, windfall>>

\* save_plan writes in place: a process that ends in it leaves half a file
LosePlan(target) ==
  /\ ~Free
  /\ Lost /\ order' = NoOrder
  /\ plan' = NewPlan(target)
  /\ UNCHANGED <<price, books, stage, events, orders, sales, windfall>>

-----------------------------------------------------------------------------
(* maybe_buy and maybe_sell.                                               *)

Trading == Free /\ stage = "warm" /\ orders < MaxOrders

\* _roll_day comes first in a tick
RollDay(target) ==
  /\ Free /\ stage = "warm" /\ ~plan.today
  /\ plan' = NewPlan(target)
  /\ UNCHANGED <<market, books, stage, order, history>>

Send(o) == order' = o /\ orders' = orders + 1

\* A buy is skipped when the balance is known not to cover it; where the
\* balance cannot be read the exchange decides.
SendBuy(t, usdt) ==
  /\ Trading /\ plan.today
  /\ plan.buys < plan.buysTarget
  /\ plan.spent + usdt <= Ceiling
  /\ Send([kind |-> "buy", token |-> t, qty |-> Rounded(usdt \div price[t]),
           px |-> price[t], usdt |-> usdt])
  /\ UNCHANGED <<market, plan, books, stage, events, sales, missed, windfall>>

\* what must stay of a coin that is sold in part
Kept(px) == (Baseline + px - 1) \div px

SendSell(t, q) ==
  /\ Trading /\ plan.today
  /\ plan.sells < Quota
  /\ wallet[t] * price[t] - Baseline > OrderMin
  /\ q <= wallet[t] - Kept(price[t]) /\ q * price[t] >= OrderMin
  /\ Send([kind |-> "sell", token |-> t, qty |-> q, px |-> price[t]])
  /\ UNCHANGED <<market, plan, books, stage, events, sales, missed, windfall>>

\* the quantity of a buy as it was sent, what the money buys if that is zero
Credited(o) == IF o.qty > 0 THEN o.qty ELSE o.usdt \div o.px

\* An answer that says yes: the books enter the buy.  An answer with status 200
\* that is no JSON says yes as well, whatever became of the order.
Bought ==
  /\ order.kind = "buy"
  /\ \/ AcceptBuy(order.token, order.qty, order.px) /\ UNCHANGED missed
     \/ /\ UNCHANGED balances
        /\ missed' = [missed EXCEPT ![order.token] = @ + Credited(order)]
  /\ plan' = [plan EXCEPT !.buys = @ + 1, !.spent = @ + order.usdt]
  /\ books' = RecordBuy(books, order.token, Credited(order), order.px)
  /\ order' = NoOrder
  /\ UNCHANGED <<price, stage, events, orders, sales, windfall>>

\* A sale enters them with the quantity before it was rounded.
Booked(t, q, px) ==
  /\ AcceptSale(t, q) \/ UNCHANGED balances
  /\ books' = RecordSell(books, t, q, px)
  /\ sales' = [sales EXCEPT ![t] = @ + 1]
  /\ windfall' = windfall + Above0(Rest(books, t, q, px) - books.legacy)

Sold ==
  /\ order.kind = "sell"
  /\ Booked(order.token, order.qty, order.px)
  /\ plan' = [plan EXCEPT !.sells = @ + 1, !.spent = Above0(@ - order.qty * order.px)]
  /\ order' = NoOrder
  /\ UNCHANGED <<price, stage, events, orders, missed>>

\* The exchange refused, or the client raised inside and says the same: then
\* the order may have been taken.
NotOk ==
  /\ order.kind \in {"buy", "sell"}
  /\ Lost /\ order' = NoOrder
  /\ UNCHANGED <<price, plan, books, stage, events, orders, sales, windfall>>

-----------------------------------------------------------------------------
(* wind_down: before a campaign down to nothing, after it down to a part.  *)

Value(t) == wallet[t] * price[t]
CoinsValue == Total([t \in Tokens |-> Value(t)])

\* What wind_down sends for a coin: its share, or all of it, down to a multiple
\* of the step, when too little would stay; nothing when the order would be too
\* small for the exchange.
ToSell(t, keep) ==
  LET target == ((CoinsValue + cash) * keep) \div 4
      share  == (Value(t) * (CoinsValue - target)) \div CoinsValue
      full   == Value(t) - share < MinHold
      amount == IF full THEN Value(t) ELSE share
  IN  IF amount < MinExchange THEN 0
      ELSE IF full THEN (wallet[t] \div Step) * Step ELSE amount \div price[t]

\* quarters of the wallet kept in coins: what is left of the window before
\* the campaign, or the share that was drawn for its end
Keeps == IF stage = "preclear" THEN {0, 2} ELSE {1}

Selling(keep) == CoinsValue * 4 > (CoinsValue + cash) * keep

StartWindDown(keep) ==
  /\ Free /\ stage \in {"preclear", "winding"} /\ orders < MaxOrders
  /\ Selling(keep)
  /\ \E t \in Tokens : ToSell(t, keep) > 0
  /\ Send([kind |-> "wind", qty |-> [t \in Tokens |-> ToSell(t, keep)], px |-> price])
  /\ UNCHANGED <<market, plan, books, stage, events, sales, missed, windfall>>

Wind(t) == order.kind = "wind" /\ order.qty[t] > 0

WindSold(t) ==
  /\ Wind(t)
  /\ Booked(t, order.qty[t], order.px[t])
  /\ order' = [order EXCEPT !.qty[t] = 0]
  /\ UNCHANGED <<price, plan, stage, events, orders, missed>>

\* refused, or not answered: the pass goes on to the next coin
WindNotOk(t) ==
  /\ Wind(t)
  /\ UNCHANGED <<balances, missed>> \/ LoseSale(t, order.qty[t])
  /\ order' = [order EXCEPT !.qty[t] = 0]
  /\ UNCHANGED <<price, plan, books, stage, events, orders, sales, windfall>>

WindDone ==
  /\ order.kind = "wind" /\ \A t \in Tokens : order.qty[t] = 0
  /\ order' = NoOrder
  /\ UNCHANGED <<market, plan, books, stage, history>>

\* mark_precleared; the campaign expires; its sell-off is finished
NextStage == [preclear |-> "warm", warm |-> "winding", winding |-> "over"]

Advance ==
  /\ Free /\ stage # "over"
  /\ stage' = NextStage[stage]
  /\ UNCHANGED <<market, plan, books, order, history>>

-----------------------------------------------------------------------------
Midnight ==
  /\ plan.today /\ events < MaxEvents
  /\ plan' = [plan EXCEPT !.today = FALSE]
  /\ events' = events + 1
  /\ UNCHANGED <<market, books, stage, order, orders, sales, missed, windfall>>

PriceMoves(t) ==
  /\ events < MaxEvents /\ events' = events + 1
  /\ price' \in {[price EXCEPT ![t] = p] : p \in Prices \ {price[t]}}
  /\ UNCHANGED <<balances, plan, books, stage, order, orders, sales, missed, windfall>>

Init ==
  /\ wallet \in [Tokens -> {0, MinHold + 1}] /\ cash = Cash
  /\ due = None /\ offered = None
  /\ price \in {[t \in Tokens |-> p] : p \in Prices}
  /\ \E target \in 1 .. Quota : plan = NewPlan(target)
  /\ \E spent \in {0, MinHold} : books = Migrated(-spent)
  /\ stage \in {"preclear", "warm"} /\ order = NoOrder
  /\ events = 0 /\ orders = 0 /\ sales = None /\ missed = None
  /\ windfall = 0

Next ==
  \/ \E target \in 1 .. Quota :
       StartCampaign(target) \/ Restart(target) \/ LosePlan(target) \/ RollDay(target)
  \/ \E t \in Tokens, usdt \in OrderSizes : SendBuy(t, usdt)
  \/ \E t \in Tokens : \E q \in 1 .. wallet[t] : SendSell(t, q)
  \/ Bought \/ Sold \/ NotOk
  \/ \E keep \in Keeps : StartWindDown(keep)
  \/ \E t \in Tokens : WindSold(t) \/ WindNotOk(t)
  \/ WindDone \/ Advance
  \/ \E t \in Tokens : \/ \E n \in Lots(due[t]) : FillBuy(t, n)
                      \/ \E n \in Lots(offered[t]) : FillSale(t, n)
  \/ Midnight \/ \E t \in Tokens : PriceMoves(t)

Spec == Init /\ [][Next]_vars

-----------------------------------------------------------------------------
TypeOK ==
  /\ {wallet, due, offered, sales, missed} \subseteq [Tokens -> Nat] /\ cash \in Nat
  /\ price \in [Tokens -> Prices]
  /\ plan \in [today : BOOLEAN, buysTarget : Nat, buys : Nat, sells : Nat,
               spent : 0 .. Ceiling]
  /\ \A t \in Tokens : books.pos[t].qty >= 0 /\ books.pos[t].cost >= 0
  /\ books.legacy >= 0

\* The books add up: what went out for coins is either still in them at
\* cost, or came back and was booked as profit, or was spent before there
\* were books (record_spot_sell splits each sale three ways).
BooksAddUp ==
  books.flow + Basis(books) + books.legacy = books.pnl + windfall

\* The books claim no coin that is neither in the wallet nor on its way in a
\* resting buy, but for what no answer told them, and half a step that each
\* sale may be rounded up by (maybe_sell and wind_down book the quantity
\* before it is rounded, maybe_buy books the one that was sent).
BooksAreBacked ==
  \A t \in Tokens :
    books.pos[t].qty <= wallet[t] + due[t] + missed[t] + (Step \div 2) * sales[t]

-----------------------------------------------------------------------------
(* The inductive invariant.                                                *)

BooksType ==
  [pos : [Tokens -> [qty : Nat, cost : Nat]], flow : Int, pnl : Int, legacy : Nat]

\* A buy on its way fits in what is left of the day's ceiling.
OrderFits ==
  \/ order = NoOrder
  \/ /\ order \in [kind : {"buy"}, token : Tokens, qty : Nat, px : Nat \ {0}, usdt : Nat]
     /\ plan.spent + order.usdt <= Ceiling
  \/ order \in [kind : {"sell"}, token : Tokens, qty : Nat, px : Nat]
  \/ order \in [kind : {"wind"}, qty : [Tokens -> Nat], px : [Tokens -> Nat]]

SpotInv ==
  /\ TypeOK /\ books \in BooksType /\ windfall \in Nat
  /\ OrderFits
  /\ BooksAddUp /\ BooksAreBacked

=============================================================================
